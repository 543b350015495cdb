---------------------------- MODULE ClientProofs ----------------------------
(***************************************************************************)
(* Proofs about what uses the database.                                    *)
(*                                                                         *)
(* The tasks (DbTask), for every number of clients, requests and restarts  *)
(* and every length of the queues: TaskInv is inductive, and from it       *)
(* follow the three safety properties of DbTask.                           *)
(*                                                                         *)
(* The demo (Cli, PhoneUi), for all phones, names and times, every screen, *)
(* every depth of the pages and every number of processes: CliInv is       *)
(* inductive, and from it follow the three properties of its runs.         *)
(***************************************************************************)
EXTENDS DbTask, Cli, RecursionLemmas

PCs == {"none", "mount", "receive", "handle", "reply", "stopping", "ended"}

(* What the proofs use of the types.                                       *)
LEMMA Typed ==
    ASSUME TypeOK
    PROVE  /\ requests \in Seq(Requests) /\ Len(requests) \in Nat
           /\ \A i \in 1 .. Len(requests) : requests[i] \in Requests
           /\ starts \in 0 .. MaxStarts /\ MaxStarts \in Nat \ {0}
           /\ pc \in [Tasks -> PCs] /\ current \in [Tasks -> Requests]
           /\ posted \in [Everyone -> 0 .. MaxRequests] /\ MaxRequests \in Nat
           /\ asked \in [Everyone -> Seq(1 .. MaxRequests)]
           /\ replies \in [Everyone -> Seq(1 .. MaxRequests)]
           /\ answered \in [Everyone -> Seq(1 .. MaxRequests)]
           /\ \A c \in Everyone :
                 /\ Len(asked[c]) \in Nat /\ Len(replies[c]) \in Nat /\ Len(answered[c]) \in Nat
                 /\ \A m \in 1 .. Len(asked[c]) : asked[c][m] \in 1 .. MaxRequests
<1>1. MaxRequests \in Nat /\ MaxStarts \in Nat \ {0}
  BY DbTaskAssumption
<1>2. requests \in Seq(Requests) /\ Len(requests) \in Nat
      /\ \A i \in 1 .. Len(requests) : requests[i] \in Requests
  BY DEF TypeOK
<1>3. \A c \in Everyone :
         /\ Len(asked[c]) \in Nat /\ Len(replies[c]) \in Nat /\ Len(answered[c]) \in Nat
         /\ \A m \in 1 .. Len(asked[c]) : asked[c][m] \in 1 .. MaxRequests
  BY <1>1 DEF TypeOK
<1> QED
  BY <1>1, <1>2, <1>3 DEF TypeOK, PCs

(* The numbers among them.                                                 *)
LEMMA Numbers ==
    ASSUME TypeOK
    PROVE  /\ Len(requests) \in Nat
           /\ \A c \in Everyone :
                 /\ Len(asked[c]) \in Nat /\ Len(replies[c]) \in Nat /\ Len(answered[c]) \in Nat
                 /\ posted[c] \in Nat
                 /\ \A m \in 1 .. Len(asked[c]) : asked[c][m] \in Nat
  BY Typed

(* The state functions are functions on clients and tasks.                 *)
LEMMA Domains ==
    ASSUME TypeOK
    PROVE  /\ DOMAIN asked = Everyone /\ DOMAIN replies = Everyone
           /\ DOMAIN answered = Everyone /\ DOMAIN posted = Everyone
           /\ DOMAIN pc = Tasks /\ DOMAIN current = Tasks
  BY DEF TypeOK

LEMMA DomainsNext ==
    ASSUME TypeOK'
    PROVE  /\ DOMAIN asked' = Everyone /\ DOMAIN replies' = Everyone
           /\ DOMAIN answered' = Everyone /\ DOMAIN posted' = Everyone
           /\ DOMAIN pc' = Tasks /\ DOMAIN current' = Tasks
  BY DEF TypeOK

LEMMA InitInv == Init => TaskInv
<1> SUFFICES ASSUME Init PROVE TaskInv
  OBVIOUS
<1>1. TypeOK
  <2>1. requests \in Seq(Requests) /\ Len(requests) <= QueueSize
    BY DbTaskAssumption DEF Init
  <2>2. /\ replies \in [Everyone -> Seq(1 .. MaxRequests)]
        /\ asked \in [Everyone -> Seq(1 .. MaxRequests)]
        /\ answered \in [Everyone -> Seq(1 .. MaxRequests)]
        /\ \A c \in Everyone : Len(replies[c]) <= ReplySize
    BY DbTaskAssumption DEF Init
  <2>3. running \in BOOLEAN
    BY DEF Init
  <2>4. starts \in 0 .. MaxStarts /\ posted \in [Everyone -> 0 .. MaxRequests]
    BY DbTaskAssumption DEF Init
  <2>5. current \in [Tasks -> Requests]
    BY DbTaskAssumption DEF Init, Requests, NoRequest, Everyone
  <2>6. pc \in [Tasks -> {"none", "mount", "receive", "handle", "reply", "stopping", "ended"}]
    BY DEF Init
  <2> QED
    BY <2>1, <2>2, <2>3, <2>4, <2>5, <2>6 DEF TypeOK
<1>2. TasksInv
  BY DEF Init, TasksInv, Active
<1>3. AskedInv
  BY DbTaskAssumption DEF Init, AskedInv, Waiting
<1>4. RepliesInv /\ DueInv
  BY DEF Init, RepliesInv, DueInv, Responses, Due, Holds, Queued, DueIsKept, HeldIsDue,
              QueuedIsDue, OneHeld, HeldFirst, QueueInOrder
<1> QED
  BY <1>1, <1>2, <1>3, <1>4 DEF TaskInv

LEMMA StutterInv == ASSUME TaskInv, UNCHANGED vars PROVE TaskInv'
  BY SMTT(30) DEF TaskInv, vars, TypeOK, TasksInv, AskedInv, RepliesInv, DueInv, Active, Holds,
         Queued, Waiting, Responses, Due, CanSend, DueIsKept, HeldIsDue, QueuedIsDue,
         OneHeld, HeldFirst, QueueInOrder

(* What is due does not change when no request moves.                      *)
LEMMA DueUnchanged ==
    ASSUME DueInv, UNCHANGED <<requests, asked>>,
           \A c \in Everyone : Responses(c)' = Responses(c),
           \A k \in Tasks, c \in Everyone : Holds(k, c)' <=> Holds(k, c),
           \A k \in Tasks, c \in Everyone : Holds(k, c) => current'[k] = current[k]
    PROVE  DueInv'
<1> SUFFICES ASSUME NEW c \in Everyone
             PROVE  /\ DueIsKept(c)' /\ HeldIsDue(c)' /\ QueuedIsDue(c)'
                    /\ OneHeld(c)' /\ HeldFirst(c)' /\ QueueInOrder(c)'
  BY DEF DueInv
<1>0. /\ DueIsKept(c) /\ HeldIsDue(c) /\ QueuedIsDue(c)
      /\ OneHeld(c) /\ HeldFirst(c) /\ QueueInOrder(c)
  BY DEF DueInv
<1>1. Due(c)' = Due(c) /\ \A i \in 1 .. Len(requests) : Queued(i, c)' <=> Queued(i, c)
  BY DEF Due, Queued
<1>2. DueIsKept(c)'
  BY <1>0, <1>1 DEF DueIsKept
<1>3. HeldIsDue(c)' /\ QueuedIsDue(c)'
  BY <1>0, <1>1 DEF HeldIsDue, QueuedIsDue
<1>4. OneHeld(c)' /\ HeldFirst(c)' /\ QueueInOrder(c)'
  BY <1>0, <1>1 DEF OneHeld, HeldFirst, QueueInOrder
<1> QED
  BY <1>2, <1>3, <1>4

(* db_init: no task is active, as running is false.                        *)
LEMMA StartInv == ASSUME TaskInv, Start PROVE TaskInv'
<1>0. TypeOK /\ TasksInv /\ AskedInv /\ RepliesInv /\ DueInv
  BY DEF TaskInv
<1>1. starts + 1 \in Tasks /\ pc[starts + 1] = "none"
  BY <1>0, Typed DEF Start, Tasks, TasksInv
<1>2. TypeOK'
  <2>1. pc' \in [Tasks -> PCs] /\ starts' \in 0 .. MaxStarts
    BY <1>0, <1>1, Typed DEF Start, PCs
  <2>2. running' \in BOOLEAN
    BY DEF Start
  <2> QED
    BY <1>0, <2>1, <2>2 DEF Start, TypeOK, PCs
<1>3. TasksInv'
  <2>1. \A k \in Tasks : ~Active(k)
    BY <1>0 DEF TasksInv, Start
  <2>2. \A k \in Tasks : pc'[k] = IF k = starts + 1 THEN "mount" ELSE pc[k]
    BY <1>0, Typed DEF Start
  <2>3. \A j, k \in Tasks : Active(j)' /\ Active(k)' => j = k
    BY <2>1, <2>2 DEF Active
  <2>4. \A k \in Tasks : k > starts' => pc'[k] = "none"
    BY <1>0, <2>2, Typed DEF TasksInv, Start, Tasks
  <2>5. \A k \in Tasks : Active(k)' => running'
    BY DEF Start
  <2>6. \A k \in Tasks : /\ pc'[k] \in {"handle", "reply"} => current'[k].client # Main
                         /\ pc'[k] = "stopping" => current'[k].client = Main
                         /\ pc'[k] \in {"reply", "stopping"} => current'[k].tag # 0
    BY <1>0, <2>2 DEF TasksInv, Start
  <2>7. \A i \in 1 .. Len(requests') :
           /\ requests'[i].type = "stop" <=> requests'[i].client = Main
           /\ requests'[i].type = "stop" => requests'[i].tag # 0
    BY <1>0 DEF TasksInv, Start
  <2> QED
    BY <2>3, <2>4, <2>5, <2>6, <2>7 DEF TasksInv
<1>4. AskedInv' /\ RepliesInv'
  BY <1>0 DEF Start, AskedInv, RepliesInv, Waiting, Responses
<1>5. DueInv'
  <2>1. \A k \in Tasks, c \in Everyone : Holds(k, c)' <=> Holds(k, c)
    BY <1>0, <1>1, Typed DEF Start, Holds
  <2>2. \A c \in Everyone : Responses(c)' = Responses(c)
    BY DEF Start, Responses
  <2> QED
    BY <1>0, <2>1, <2>2, DueUnchanged DEF Start
<1> QED
  BY <1>2, <1>3, <1>4, <1>5 DEF TaskInv

(* A sequence of increasing numbers stays one when a larger one is added.  *)
LEMMA IncreasingAppend ==
    ASSUME NEW N \in Nat, NEW s \in Seq(1 .. N), NEW p \in Nat, p + 1 \in 1 .. N,
           \A m, n \in 1 .. Len(s) : m < n => s[m] < s[n],
           \A m \in 1 .. Len(s) : s[m] <= p
    PROVE  /\ \A m, n \in 1 .. Len(Append(s, p + 1)) :
                 m < n => Append(s, p + 1)[m] < Append(s, p + 1)[n]
           /\ \A m \in 1 .. Len(Append(s, p + 1)) : Append(s, p + 1)[m] <= p + 1
<1> DEFINE t == Append(s, p + 1)
<1>1. Len(s) \in Nat /\ Len(t) = Len(s) + 1
  OBVIOUS
<1>2. \A m \in 1 .. Len(s) : t[m] = s[m] /\ s[m] \in Nat
  OBVIOUS
<1>3. t[Len(s) + 1] = p + 1
  OBVIOUS
<1>4. \A m \in 1 .. Len(t) : m \in 1 .. Len(s) \/ m = Len(s) + 1
  BY <1>1
<1>5. ASSUME NEW m \in 1 .. Len(t) PROVE t[m] <= p + 1
  <2>1. CASE m \in 1 .. Len(s)
    <3> HIDE DEF t
    <3>1. t[m] = s[m] /\ s[m] \in Nat /\ s[m] <= p
      BY <1>2, <2>1
    <3> QED
      BY <3>1
  <2>2. CASE m = Len(s) + 1
    BY <1>3, <2>2
  <2> QED
    BY <1>4, <2>1, <2>2
<1>6. ASSUME NEW m \in 1 .. Len(t), NEW n \in 1 .. Len(t), m < n PROVE t[m] < t[n]
  <2> HIDE DEF t
  <2>1. m \in 1 .. Len(s) /\ t[m] = s[m] /\ s[m] \in Nat /\ s[m] <= p
    <3>1. m \in 1 .. Len(s)
      BY <1>1, <1>6
    <3> QED
      BY <1>2, <3>1
  <2>2. CASE n \in 1 .. Len(s)
    <3>1. t[n] = s[n] /\ s[m] < s[n]
      BY <1>2, <1>6, <2>1, <2>2
    <3> QED
      BY <2>1, <3>1
  <2>3. CASE n = Len(s) + 1
    <3>1. t[n] = p + 1
      BY <1>3, <2>3
    <3> QED
      BY <2>1, <3>1
  <2> QED
    BY <1>4, <2>2, <2>3
<1> QED
  BY <1>5, <1>6

(* What the three ways to post have in common.                             *)
Posting(c, tag, type) ==
    /\ Post(c, tag, type)
    /\ tag \in {0, posted[c] + 1} /\ posted[c] < MaxRequests
    /\ type = "stop" <=> c = Main
    /\ type = "stop" => tag # 0
    /\ Waiting(c) < IF c = Main THEN 1 ELSE Outstanding

(* A request that is posted is the last of its client.                     *)
LEMMA PostInv ==
    ASSUME TaskInv,
           NEW c \in Everyone, NEW tag \in 0 .. MaxRequests, NEW type \in {"work", "stop"},
           Posting(c, tag, type)
    PROVE  TaskInv'
<1> DEFINE r == [client |-> c, tag |-> tag, type |-> type]
<1>0. TypeOK /\ TasksInv /\ AskedInv /\ RepliesInv /\ DueInv
  BY DEF TaskInv
<1>p. /\ tag \in {0, posted[c] + 1} /\ posted[c] < MaxRequests
      /\ type = "stop" <=> c = Main
      /\ type = "stop" => tag # 0
  BY DEF Posting
<1>1. /\ requests' = Append(requests, r) /\ r \in Requests
      /\ posted' = [posted EXCEPT ![c] = @ + 1]
      /\ asked' = IF tag = 0 THEN asked ELSE [asked EXCEPT ![c] = Append(@, tag)]
      /\ Len(requests) < QueueSize
      /\ UNCHANGED <<replies, running, starts, pc, current, answered>>
  BY DEF Posting, Post, Requests, CanSend
<1>2. /\ Len(requests') = Len(requests) + 1
      /\ \A i \in 1 .. Len(requests) : requests'[i] = requests[i]
      /\ requests'[Len(requests) + 1] = r
  BY <1>0, <1>1, Typed
<1>3. /\ \A d \in Everyone : d # c \/ tag = 0 => asked'[d] = asked[d]
      /\ tag # 0 => /\ Len(asked'[c]) = Len(asked[c]) + 1
                    /\ \A m \in 1 .. Len(asked[c]) : asked'[c][m] = asked[c][m]
                    /\ asked'[c][Len(asked[c]) + 1] = tag
  BY <1>0, <1>1, Typed
<1>4. TypeOK'
  <2>1. requests' \in Seq(Requests) /\ Len(requests') <= QueueSize
    BY <1>0, <1>1, <1>2, Typed, DbTaskAssumption
  <2>2. posted' \in [Everyone -> 0 .. MaxRequests]
    BY <1>0, <1>1, <1>p, Typed
  <2>3. asked' \in [Everyone -> Seq(1 .. MaxRequests)]
    <3>1. CASE tag = 0
      BY <1>0, <1>1, <3>1, Typed
    <3>2. CASE tag # 0
      <4>1. tag \in 1 .. MaxRequests
        BY <3>2
      <4> QED
        BY <1>0, <1>1, <3>2, <4>1, Typed
    <3> QED
      BY <3>1, <3>2
  <2> QED
    BY <1>0, <1>1, <2>1, <2>2, <2>3 DEF TypeOK
<1> USE <1>0, <1>4, Domains, DomainsNext
<1>5. TasksInv'
  <2>1. \A i \in 1 .. Len(requests') :
           /\ requests'[i].type = "stop" <=> requests'[i].client = Main
           /\ requests'[i].type = "stop" => requests'[i].tag # 0
    <3> SUFFICES ASSUME NEW i \in 1 .. Len(requests')
                 PROVE  /\ requests'[i].type = "stop" <=> requests'[i].client = Main
                        /\ requests'[i].type = "stop" => requests'[i].tag # 0
      OBVIOUS
    <3>1. CASE i \in 1 .. Len(requests)
      BY <1>0, <1>2, <3>1 DEF TasksInv
    <3>2. CASE i = Len(requests) + 1
      BY <1>2, <1>p, <3>2
    <3> QED
      BY <1>0, <1>2, <3>1, <3>2, Numbers
  <2> QED
    BY <1>0, <1>1, <2>1 DEF TasksInv, Active
<1>6. AskedInv'
  <2> SUFFICES ASSUME NEW d \in Everyone
               PROVE  /\ \A m, n \in 1 .. Len(asked'[d]) : m < n => asked'[d][m] < asked'[d][n]
                      /\ \A m \in 1 .. Len(asked'[d]) : asked'[d][m] <= posted'[d]
                      /\ Waiting(d)' <= IF d = Main THEN 1 ELSE Outstanding
    BY DEF AskedInv
  <2>0. Outstanding \in Nat
    BY DbTaskAssumption
  <2>1. /\ posted[d] <= posted'[d] /\ posted'[c] = posted[c] + 1 /\ posted[d] \in Nat
        /\ posted'[d] \in Nat
    <3>1. posted \in [Everyone -> 0 .. MaxRequests]
      BY <1>0, Typed
    <3>2. /\ posted'[c] = posted[c] + 1 /\ posted[c] \in Nat /\ posted[d] \in Nat
          /\ d # c => posted'[d] = posted[d]
      BY <1>1, <3>1
    <3> QED
      BY <3>2
  <2>2. /\ Len(asked[d]) \in Nat /\ Len(answered[d]) \in Nat
        /\ \A m \in 1 .. Len(asked[d]) : asked[d][m] \in Nat /\ asked[d][m] <= posted[d]
        /\ \A m, n \in 1 .. Len(asked[d]) : m < n => asked[d][m] < asked[d][n]
        /\ Waiting(d) <= IF d = Main THEN 1 ELSE Outstanding
    BY <1>0, Numbers DEF AskedInv
  <2>3. answered'[d] = answered[d]
    BY <1>1
  <2>4. CASE d # c \/ tag = 0
    <3>1. asked'[d] = asked[d]
      BY <1>3, <2>4
    <3>2. \A m, n \in 1 .. Len(asked'[d]) : m < n => asked'[d][m] < asked'[d][n]
      BY <2>2, <3>1
    <3>3. ASSUME NEW m \in 1 .. Len(asked'[d]) PROVE asked'[d][m] <= posted'[d]
      <4>1. asked'[d][m] = asked[d][m] /\ asked[d][m] \in Nat /\ asked[d][m] <= posted[d]
        BY <2>2, <3>1
      <4> QED
        BY <2>1, <4>1
    <3>4. Waiting(d)' = Waiting(d)
      BY <2>3, <3>1 DEF Waiting
    <3> QED
      BY <2>2, <3>2, <3>3, <3>4
  <2>5. CASE d = c /\ tag # 0
    <3>1. asked'[d] = Append(asked[d], posted[d] + 1) /\ posted[d] + 1 \in 1 .. MaxRequests
      <4>1. asked \in [Everyone -> Seq(1 .. MaxRequests)] /\ tag = posted[c] + 1
        BY <1>p, <2>5, Typed
      <4>2. asked'[d] = Append(asked[d], tag)
        BY <1>1, <2>5, <4>1
      <4> QED
        BY <1>p, <2>1, <2>5, <4>1, <4>2, Typed
    <3>2. /\ \A m, n \in 1 .. Len(asked'[d]) : m < n => asked'[d][m] < asked'[d][n]
          /\ \A m \in 1 .. Len(asked'[d]) : asked'[d][m] <= posted[d] + 1
      <4>1. asked[d] \in Seq(1 .. MaxRequests) /\ MaxRequests \in Nat
        BY <1>0, Typed
      <4>2. /\ \A m, n \in 1 .. Len(asked[d]) : m < n => asked[d][m] < asked[d][n]
            /\ \A m \in 1 .. Len(asked[d]) : asked[d][m] <= posted[d]
        BY <2>2
      <4>3. posted[d] \in Nat
        BY <2>1
      <4> QED
        BY <3>1, <4>1, <4>2, <4>3, IncreasingAppend
    <3>3. posted'[d] = posted[d] + 1
      BY <2>1, <2>5
    <3>4. Waiting(d)' = Waiting(d) + 1 /\ Waiting(d) \in Int
      <4>1. Len(asked'[d]) = Len(asked[d]) + 1
        BY <1>3, <2>5
      <4> QED
        BY <2>2, <2>3, <4>1 DEF Waiting
    <3>5. Waiting(d)' <= IF d = Main THEN 1 ELSE Outstanding
      BY <2>0, <2>5, <3>4 DEF Posting
    <3> QED
      BY <3>2, <3>3, <3>5
  <2> QED
    BY <2>4, <2>5
<1>7. RepliesInv'
  <2> SUFFICES ASSUME NEW d \in Everyone
               PROVE  /\ Responses(d)' <= Len(asked'[d])
                      /\ \A m \in 1 .. Len(answered'[d]) : answered'[d][m] = asked'[d][m]
                      /\ \A m \in 1 .. Len(replies'[d]) :
                            replies'[d][m] = asked'[d][Len(answered'[d]) + m]
    BY DEF RepliesInv
  <2>1. Len(asked[d]) \in Nat /\ Len(answered[d]) \in Nat /\ Len(replies[d]) \in Nat
    BY <1>0, Numbers
  <2>2. Responses(d) \in Nat /\ Responses(d) = Len(answered[d]) + Len(replies[d])
    BY <2>1 DEF Responses
  <2>3. answered'[d] = answered[d] /\ replies'[d] = replies[d] /\ Responses(d)' = Responses(d)
    BY <1>1 DEF Responses
  <2>4. Len(asked[d]) <= Len(asked'[d]) /\ Len(asked'[d]) \in Nat
    BY <1>3, <2>1
  <2>5. Responses(d) <= Len(asked[d])
    BY <1>0 DEF RepliesInv
  <2>6. Responses(d)' <= Len(asked'[d])
    BY <2>1, <2>2, <2>3, <2>4, <2>5
  <2>7. ASSUME NEW m \in 1 .. Len(answered'[d]) PROVE answered'[d][m] = asked'[d][m]
    <3>1. m \in 1 .. Len(answered[d])
      BY <2>3
    <3>2. m \in 1 .. Len(asked[d])
      BY <2>1, <2>2, <2>5, <3>1
    <3>3. asked'[d][m] = asked[d][m]
      BY <1>3, <3>2
    <3>4. answered[d][m] = asked[d][m]
      BY <1>0, <3>1 DEF RepliesInv
    <3> QED
      BY <2>3, <3>3, <3>4
  <2>8. ASSUME NEW m \in 1 .. Len(replies'[d])
        PROVE  replies'[d][m] = asked'[d][Len(answered'[d]) + m]
    <3>1. m \in 1 .. Len(replies[d])
      BY <2>3
    <3>2. Len(answered[d]) + m \in 1 .. Len(asked[d])
      BY <2>1, <2>2, <2>5, <3>1
    <3>3. asked'[d][Len(answered[d]) + m] = asked[d][Len(answered[d]) + m]
      BY <1>3, <3>2
    <3>4. replies[d][m] = asked[d][Len(answered[d]) + m]
      BY <1>0, <3>1 DEF RepliesInv
    <3> QED
      BY <2>3, <3>3, <3>4
  <2> QED
    BY <2>6, <2>7, <2>8
<1>8. DueInv'
  <2> SUFFICES ASSUME NEW d \in Everyone
               PROVE  /\ DueIsKept(d)' /\ HeldIsDue(d)' /\ QueuedIsDue(d)'
                      /\ OneHeld(d)' /\ HeldFirst(d)' /\ QueueInOrder(d)'
    BY DEF DueInv
  <2>0. /\ DueIsKept(d) /\ HeldIsDue(d) /\ QueuedIsDue(d)
        /\ OneHeld(d) /\ HeldFirst(d) /\ QueueInOrder(d)
    BY <1>0 DEF DueInv
  <2>1. /\ Len(requests) \in Nat /\ Len(asked[d]) \in Nat /\ Responses(d) \in Nat
        /\ Responses(d) <= Len(asked[d]) /\ posted[d] \in Nat
        /\ \A m \in 1 .. Len(asked[d]) : asked[d][m] \in Nat /\ asked[d][m] <= posted[d]
    BY <1>0, Numbers DEF Responses, RepliesInv, AskedInv
  <2>2. /\ \A k \in Tasks : Holds(k, d)' <=> Holds(k, d)
        /\ \A k \in Tasks : current'[k] = current[k]
    BY <1>1 DEF Holds
  <2>3. /\ \A i \in 1 .. Len(requests) : /\ i \in 1 .. Len(requests')
                                         /\ Queued(i, d)' <=> Queued(i, d)
                                         /\ requests'[i] = requests[i]
        /\ \A i \in 1 .. Len(requests') : i \in 1 .. Len(requests) \/ i = Len(requests) + 1
        /\ Len(requests) + 1 \in 1 .. Len(requests')
        /\ \A i \in 1 .. Len(requests') :
              i = Len(requests) + 1 => (Queued(i, d)' <=> (d = c /\ tag # 0))
        /\ requests'[Len(requests) + 1].tag = tag
    <3>1. \A i \in 1 .. Len(requests) : i \in 1 .. Len(requests')
      BY <1>2, <2>1
    <3>2. \A i \in 1 .. Len(requests) : Queued(i, d)' <=> Queued(i, d)
      BY <1>2 DEF Queued
    <3>3. \A i \in 1 .. Len(requests') : i \in 1 .. Len(requests) \/ i = Len(requests) + 1
      BY <1>2, <2>1
    <3>4. Len(requests) + 1 \in 1 .. Len(requests')
      BY <1>2, <2>1
    <3>5. \A i \in 1 .. Len(requests') :
             i = Len(requests) + 1 => (Queued(i, d)' <=> (d = c /\ tag # 0))
      BY <1>2 DEF Queued
    <3>6. requests'[Len(requests) + 1].tag = tag
      BY <1>2
    <3> QED
      BY <1>2, <3>1, <3>2, <3>3, <3>4, <3>5, <3>6
  <2>4. /\ \A m \in Due(d) : /\ m \in 1 .. Len(asked[d]) /\ asked'[d][m] = asked[d][m]
                             /\ m \in Due(d)'
        /\ \A m \in Due(d)' : m \in Due(d) \/ (m = Len(asked[d]) + 1 /\ d = c /\ tag # 0)
        /\ d = c /\ tag # 0 => /\ Len(asked[d]) + 1 \in Due(d)'
                               /\ asked'[d][Len(asked[d]) + 1] = tag
    <3>0. Responses(d)' = Responses(d)
      BY <1>1 DEF Responses
    <3>1. \A m \in Due(d) : m \in 1 .. Len(asked[d])
      BY <2>1 DEF Due
    <3>2. CASE d # c \/ tag = 0
      <4>1. asked'[d] = asked[d]
        BY <1>3, <3>2
      <4>2. Due(d)' = Due(d)
        BY <3>0, <4>1, Zenon DEF Due
      <4> QED
        BY <3>1, <3>2, <4>1, <4>2
    <3>3. CASE d = c /\ tag # 0
      <4>1. Len(asked'[d]) = Len(asked[d]) + 1
        BY <1>3, <3>3
      <4>2. Due(d)' = Responses(d) + 1 .. Len(asked[d]) + 1
        BY <3>0, <4>1, Zenon DEF Due
      <4>3. Due(d)' = Due(d) \cup {Len(asked[d]) + 1}
        <5>1. \A a, b \in Nat : a <= b => a + 1 .. b + 1 = (a + 1 .. b) \cup {b + 1}
          OBVIOUS
        <5> QED
          BY <2>1, <4>2, <5>1, Zenon DEF Due
      <4>4. \A m \in Due(d) : asked'[d][m] = asked[d][m]
        BY <1>3, <3>1, <3>3
      <4>5. asked'[d][Len(asked[d]) + 1] = tag
        BY <1>3, <3>3
      <4> QED
        BY <3>1, <3>3, <4>3, <4>4, <4>5
    <3> QED
      BY <3>2, <3>3
  <2>5. d = c /\ tag # 0 => tag > posted[d] /\ tag \in Nat
    BY <1>p, <2>1
  <2>6. \A m \in Due(d) : asked[d][m] \in Nat /\ asked[d][m] <= posted[d]
    BY <2>1, <2>4
  <2>7. DueIsKept(d)'
    BY <2>0, <2>2, <2>3, <2>4 DEF DueIsKept
  <2>8. HeldIsDue(d)' /\ OneHeld(d)'
    BY <2>0, <2>2, <2>4 DEF HeldIsDue, OneHeld
  <2>9. QueuedIsDue(d)'
    BY <2>0, <2>3, <2>4 DEF QueuedIsDue
  <2>10. HeldFirst(d)'
    <3> SUFFICES ASSUME NEW k \in Tasks, NEW i \in 1 .. Len(requests'), Holds(k, d), Queued(i, d)'
                 PROVE  current[k].tag < requests'[i].tag
      BY <2>2 DEF HeldFirst
    <3>1. CASE i \in 1 .. Len(requests)
      BY <2>0, <2>3, <3>1 DEF HeldFirst
    <3>2. CASE i = Len(requests) + 1
      <4>1. d = c /\ tag # 0 /\ requests'[i].tag = tag
        BY <2>3, <3>2
      <4>2. PICK m \in Due(d) : current[k].tag = asked[d][m]
        BY <2>0 DEF HeldIsDue
      <4> QED
        BY <2>1, <2>5, <2>6, <4>1, <4>2
    <3> QED
      BY <2>3, <3>1, <3>2
  <2>11. QueueInOrder(d)'
    <3> SUFFICES ASSUME NEW i \in 1 .. Len(requests'), NEW j \in 1 .. Len(requests'),
                        i < j, Queued(i, d)', Queued(j, d)'
                 PROVE  requests'[i].tag < requests'[j].tag
      BY DEF QueueInOrder
    <3>0. i \in 1 .. Len(requests)
      BY <1>2, <2>1
    <3>1. CASE j \in 1 .. Len(requests)
      BY <2>0, <2>3, <3>0, <3>1 DEF QueueInOrder
    <3>2. CASE j = Len(requests) + 1
      <4>1. d = c /\ tag # 0 /\ requests'[j].tag = tag
        BY <2>3, <3>2
      <4>2. PICK m \in Due(d) : requests[i].tag = asked[d][m]
        BY <2>0, <2>3, <3>0 DEF QueuedIsDue
      <4> QED
        BY <2>1, <2>3, <2>5, <2>6, <3>0, <4>1, <4>2
    <3> QED
      BY <2>3, <3>1, <3>2
  <2> QED
    BY <2>7, <2>8, <2>9, <2>10, <2>11
<1> QED
  BY <1>4, <1>5, <1>6, <1>7, <1>8 DEF TaskInv

(* A task that goes on with its own work.                                  *)
LEMMA OwnStepInv ==
    ASSUME TaskInv, NEW k \in Tasks, NEW p \in {"receive", "reply"},
           pc[k] \in {"mount", "handle"}, pc' = [pc EXCEPT ![k] = p],
           pc[k] = "mount" => p = "receive",
           pc[k] = "handle" => (p = "receive" <=> current[k].tag = 0),
           UNCHANGED <<requests, replies, running, starts, current, posted, asked, answered>>
    PROVE  TaskInv'
<1>0. TypeOK /\ TasksInv /\ AskedInv /\ RepliesInv /\ DueInv
  BY DEF TaskInv
<1>1. \A j \in Tasks : pc'[j] = IF j = k THEN p ELSE pc[j]
  BY <1>0, Typed
<1>2. TypeOK'
  <2>1. pc' \in [Tasks -> PCs]
    BY <1>0, Typed DEF PCs
  <2> QED
    BY <1>0, <2>1 DEF TypeOK, PCs
<1>3. TasksInv'
  <2>1. \A j \in Tasks : Active(j)' <=> Active(j)
    BY <1>1 DEF Active
  <2>2. \A j \in Tasks : j > starts' => pc'[j] = "none"
    BY <1>0, <1>1 DEF TasksInv
  <2>3. \A j \in Tasks : /\ pc'[j] \in {"handle", "reply"} => current'[j].client # Main
                         /\ pc'[j] = "stopping" => current'[j].client = Main
                         /\ pc'[j] \in {"reply", "stopping"} => current'[j].tag # 0
    BY <1>0, <1>1 DEF TasksInv
  <2>4. /\ \A i, j \in Tasks : Active(i)' /\ Active(j)' => i = j
        /\ \A j \in Tasks : Active(j)' => running'
    BY <1>0, <2>1 DEF TasksInv
  <2>5. \A i \in 1 .. Len(requests') :
           /\ requests'[i].type = "stop" <=> requests'[i].client = Main
           /\ requests'[i].type = "stop" => requests'[i].tag # 0
    BY <1>0 DEF TasksInv
  <2> QED
    BY <2>2, <2>3, <2>4, <2>5 DEF TasksInv
<1>4. AskedInv' /\ RepliesInv'
  BY <1>0 DEF AskedInv, RepliesInv, Waiting, Responses
<1>5. DueInv'
  <2>1. \A j \in Tasks, c \in Everyone : Holds(j, c)' <=> Holds(j, c)
    BY <1>1 DEF Holds
  <2>2. \A c \in Everyone : Responses(c)' = Responses(c)
    BY DEF Responses
  <2> QED
    BY <1>0, <2>1, <2>2, DueUnchanged
<1> QED
  BY <1>2, <1>3, <1>4, <1>5 DEF TaskInv

LEMMA MountInv == ASSUME TaskInv, NEW k \in Tasks, Mount(k) PROVE TaskInv'
  BY OwnStepInv DEF Mount

LEMMA HandleInv == ASSUME TaskInv, NEW k \in Tasks, Handle(k) PROVE TaskInv'
  BY OwnStepInv DEF Handle

(* A client takes the response at the front of its queue.                  *)
LEMMA TakeReplyInv == ASSUME TaskInv, NEW c \in Everyone, TakeReply(c) PROVE TaskInv'
<1>0. TypeOK /\ TasksInv /\ AskedInv /\ RepliesInv /\ DueInv
  BY DEF TaskInv
<1>1. /\ replies[c] # <<>>
      /\ answered' = [answered EXCEPT ![c] = Append(@, Head(replies[c]))]
      /\ replies' = [replies EXCEPT ![c] = Tail(@)]
      /\ UNCHANGED <<requests, running, starts, pc, current, posted, asked>>
  BY DEF TakeReply
<1>2. /\ replies[c] \in Seq(1 .. MaxRequests) /\ answered[c] \in Seq(1 .. MaxRequests)
      /\ answered'[c] = Append(answered[c], Head(replies[c])) /\ replies'[c] = Tail(replies[c])
      /\ Head(replies[c]) \in 1 .. MaxRequests
      /\ \A d \in Everyone : d # c => answered'[d] = answered[d] /\ replies'[d] = replies[d]
  BY <1>0, <1>1, Typed
<1>3. TypeOK'
  <2>1. answered' \in [Everyone -> Seq(1 .. MaxRequests)]
    BY <1>0, <1>1, <1>2, Typed
  <2>2. replies' \in [Everyone -> Seq(1 .. MaxRequests)]
    BY <1>0, <1>1, <1>2, Typed
  <2>3. ASSUME NEW d \in Everyone PROVE Len(replies'[d]) <= ReplySize
    <3>1. Len(replies[d]) <= ReplySize
      BY <1>0 DEF TypeOK
    <3>2. CASE d # c
      BY <1>2, <3>1, <3>2
    <3>3. CASE d = c
      BY <1>1, <1>2, <3>1, <3>3, DbTaskAssumption
    <3> QED
      BY <3>2, <3>3
  <2> QED
    BY <1>0, <1>1, <2>1, <2>2, <2>3 DEF TypeOK
<1> USE <1>0, <1>3, Domains, DomainsNext
<1>4. /\ Len(replies'[c]) = Len(replies[c]) - 1 /\ Len(answered'[c]) = Len(answered[c]) + 1
      /\ Len(replies[c]) \in Nat \ {0} /\ Len(answered[c]) \in Nat
      /\ \A m \in 1 .. Len(answered[c]) : answered'[c][m] = answered[c][m]
      /\ answered'[c][Len(answered[c]) + 1] = replies[c][1]
      /\ \A m \in 1 .. Len(replies'[c]) : replies'[c][m] = replies[c][m + 1]
  BY <1>1, <1>2
<1>5. TasksInv'
  BY <1>1 DEF TasksInv, Active
<1>6. AskedInv'
  <2>1. ASSUME NEW d \in Everyone PROVE Waiting(d)' <= IF d = Main THEN 1 ELSE Outstanding
    <3>0. /\ Len(asked[d]) \in Nat /\ Len(answered[d]) \in Nat /\ asked'[d] = asked[d]
          /\ Outstanding \in Nat
      BY <1>1, Numbers, DbTaskAssumption
    <3>1. Waiting(d) <= IF d = Main THEN 1 ELSE Outstanding
      BY DEF AskedInv
    <3>2. Len(answered'[d]) \in {Len(answered[d]), Len(answered[d]) + 1}
      BY <1>2, <1>4
    <3>3. Waiting(d)' \in {Waiting(d), Waiting(d) - 1} /\ Waiting(d) \in Int
      BY <3>0, <3>2 DEF Waiting
    <3> QED
      BY <3>0, <3>1, <3>3
  <2> QED
    BY <1>1, <2>1 DEF AskedInv
<1>7. \A d \in Everyone : Responses(d)' = Responses(d)
  <2> SUFFICES ASSUME NEW d \in Everyone PROVE Responses(d)' = Responses(d)
    OBVIOUS
  <2>1. CASE d # c
    BY <1>2, <2>1 DEF Responses
  <2>2. CASE d = c
    <3>1. \A a \in Nat, b \in Nat \ {0} : (a + 1) + (b - 1) = a + b
      OBVIOUS
    <3> QED
      BY <1>4, <2>2, <3>1, Zenon DEF Responses
  <2> QED
    BY <2>1, <2>2
<1>8. RepliesInv'
  <2> SUFFICES ASSUME NEW d \in Everyone
               PROVE  /\ Responses(d)' <= Len(asked'[d])
                      /\ \A m \in 1 .. Len(answered'[d]) : answered'[d][m] = asked'[d][m]
                      /\ \A m \in 1 .. Len(replies'[d]) :
                            replies'[d][m] = asked'[d][Len(answered'[d]) + m]
    BY DEF RepliesInv
  <2>1. Responses(d)' <= Len(asked'[d])
    BY <1>1, <1>7 DEF RepliesInv
  <2>2. /\ \A m \in 1 .. Len(answered[d]) : answered[d][m] = asked[d][m]
        /\ \A m \in 1 .. Len(replies[d]) : replies[d][m] = asked[d][Len(answered[d]) + m]
    BY DEF RepliesInv
  <2>3. CASE d # c
    BY <1>1, <1>2, <2>1, <2>2, <2>3
  <2>4. CASE d = c
    <3>1. ASSUME NEW m \in 1 .. Len(answered'[d]) PROVE answered'[d][m] = asked'[d][m]
      <4>1. CASE m \in 1 .. Len(answered[d])
        BY <1>1, <1>4, <2>2, <2>4, <4>1
      <4>2. CASE m = Len(answered[d]) + 1
        <5>1. 1 \in 1 .. Len(replies[d])
          BY <1>4, <2>4
        <5>2. replies[d][1] = asked[d][Len(answered[d]) + 1]
          BY <2>2, <5>1
        <5> QED
          BY <1>1, <1>4, <2>4, <4>2, <5>2
      <4> QED
        BY <1>4, <2>4, <4>1, <4>2
    <3>2. ASSUME NEW m \in 1 .. Len(replies'[d])
          PROVE  replies'[d][m] = asked'[d][Len(answered'[d]) + m]
      <4>1. m + 1 \in 1 .. Len(replies[d])
        BY <1>4, <2>4
      <4>2. replies[d][m + 1] = asked[d][Len(answered[d]) + (m + 1)]
        BY <2>2, <4>1
      <4>3. Len(answered'[d]) + m = Len(answered[d]) + (m + 1)
        <5>1. \A a, b \in Int : (a + 1) + b = a + (b + 1)
          OBVIOUS
        <5>2. m \in Int /\ Len(answered[c]) \in Int /\ Len(answered'[c]) = Len(answered[c]) + 1
          BY <1>4
        <5> QED
          BY <2>4, <5>1, <5>2, Zenon
      <4>4. replies'[d][m] = replies[d][m + 1]
        BY <1>4, <2>4
      <4> QED
        BY <1>1, <4>2, <4>3, <4>4, Zenon
    <3> QED
      BY <2>1, <3>1, <3>2
  <2> QED
    BY <2>3, <2>4
<1>9. DueInv'
  <2>1. \A j \in Tasks, d \in Everyone : Holds(j, d)' <=> Holds(j, d)
    BY <1>1 DEF Holds
  <2> QED
    BY <1>1, <1>7, <2>1, DueUnchanged
<1> QED
  BY <1>3, <1>5, <1>6, <1>8, <1>9 DEF TaskInv

(* The task takes the request at the front of the queue.                   *)
LEMMA ReceiveInv == ASSUME TaskInv, NEW k \in Tasks, Receive(k) PROVE TaskInv'
<1> DEFINE p == IF requests[1].type = "stop" THEN "stopping" ELSE "handle"
<1>0. TypeOK /\ TasksInv /\ AskedInv /\ RepliesInv /\ DueInv
  BY DEF TaskInv
<1>1. /\ pc[k] = "receive" /\ requests # <<>> /\ requests' = Tail(requests)
      /\ UNCHANGED <<replies, starts, posted, asked, answered>>
  BY DEF Receive
<1>2. /\ Len(requests) \in Nat \ {0} /\ Len(requests') = Len(requests) - 1
      /\ Head(requests) = requests[1] /\ requests[1] \in Requests
      /\ \A i \in 1 .. Len(requests') : requests'[i] = requests[i + 1]
      /\ requests' \in Seq(Requests)
  BY <1>0, <1>1, Typed
<1>3. /\ current' = [current EXCEPT ![k] = requests[1]]
      /\ pc' = [pc EXCEPT ![k] = p]
      /\ running' = (running /\ requests[1].type # "stop")
  BY <1>2 DEF Receive
<1>4. /\ \A j \in Tasks : j # k => pc'[j] = pc[j] /\ current'[j] = current[j]
      /\ pc'[k] = p /\ current'[k] = requests[1]
  BY <1>0, <1>3, Typed
<1>5. 1 \in 1 .. Len(requests) /\ \A i \in 1 .. Len(requests') : i + 1 \in 1 .. Len(requests)
  BY <1>2
<1>6. /\ requests[1].type = "stop" <=> requests[1].client = Main
      /\ requests[1].type = "stop" => requests[1].tag # 0
  BY <1>0, <1>5 DEF TasksInv
<1>7. Active(k) /\ \A j \in Tasks : Active(j) => j = k
  BY <1>0, <1>1 DEF TasksInv, Active
<1>8. TypeOK'
  <2>1. pc' \in [Tasks -> PCs]
    BY <1>0, <1>3, Typed DEF PCs
  <2>2. current' \in [Tasks -> Requests]
    BY <1>0, <1>2, <1>3, Typed
  <2>3. Len(requests') <= QueueSize
    <3>1. Len(requests) <= QueueSize /\ QueueSize \in Nat
      BY <1>0, DbTaskAssumption DEF TypeOK
    <3> QED
      BY <1>2, <3>1
  <2>4. running' \in BOOLEAN
    BY <1>3
  <2> QED
    BY <1>0, <1>1, <1>2, <2>1, <2>2, <2>3, <2>4 DEF TypeOK, PCs
<1>9. TasksInv'
  <2>1. \A j \in Tasks : Active(j)' => j = k /\ requests[1].type # "stop"
    BY <1>4, <1>7 DEF Active
  <2>2. \A j \in Tasks : Active(j)' => running'
    <3>1. running
      BY <1>0, <1>7 DEF TasksInv
    <3> QED
      BY <1>3, <2>1, <3>1
  <2>3. \A i, j \in Tasks : Active(i)' /\ Active(j)' => i = j
    BY <2>1
  <2>4. \A j \in Tasks : j > starts' => pc'[j] = "none"
    <3>1. ~(k > starts)
      BY <1>0, <1>1 DEF TasksInv
    <3> QED
      BY <1>0, <1>1, <1>4, <3>1 DEF TasksInv
  <2>5. \A j \in Tasks : /\ pc'[j] \in {"handle", "reply"} => current'[j].client # Main
                         /\ pc'[j] = "stopping" => current'[j].client = Main
                         /\ pc'[j] \in {"reply", "stopping"} => current'[j].tag # 0
    <3> SUFFICES ASSUME NEW j \in Tasks
                 PROVE  /\ pc'[j] \in {"handle", "reply"} => current'[j].client # Main
                        /\ pc'[j] = "stopping" => current'[j].client = Main
                        /\ pc'[j] \in {"reply", "stopping"} => current'[j].tag # 0
      OBVIOUS
    <3>1. CASE j = k
      BY <1>4, <1>6, <3>1
    <3>2. CASE j # k
      BY <1>0, <1>4, <3>2 DEF TasksInv
    <3> QED
      BY <3>1, <3>2
  <2>6. \A i \in 1 .. Len(requests') :
           /\ requests'[i].type = "stop" <=> requests'[i].client = Main
           /\ requests'[i].type = "stop" => requests'[i].tag # 0
    BY <1>0, <1>2, <1>5 DEF TasksInv
  <2> QED
    BY <2>2, <2>3, <2>4, <2>5, <2>6 DEF TasksInv
<1> USE <1>0, <1>8, Domains, DomainsNext
<1>10. AskedInv' /\ RepliesInv'
  BY <1>1 DEF AskedInv, RepliesInv, Waiting, Responses
<1>11. DueInv'
  <2> SUFFICES ASSUME NEW d \in Everyone
               PROVE  /\ DueIsKept(d)' /\ HeldIsDue(d)' /\ QueuedIsDue(d)'
                      /\ OneHeld(d)' /\ HeldFirst(d)' /\ QueueInOrder(d)'
    BY DEF DueInv
  <2>0. /\ DueIsKept(d) /\ HeldIsDue(d) /\ QueuedIsDue(d)
        /\ OneHeld(d) /\ HeldFirst(d) /\ QueueInOrder(d)
    BY DEF DueInv
  <2>1. Due(d)' = Due(d) /\ asked' = asked
    <3>1. Responses(d)' = Responses(d) /\ asked' = asked
      BY <1>1 DEF Responses
    <3> QED
      BY <3>1, Zenon DEF Due
  <2>2. /\ \A j \in Tasks : j # k => (Holds(j, d)' <=> Holds(j, d)) /\ current'[j] = current[j]
        /\ Holds(k, d)' <=> Queued(1, d)
        /\ ~Holds(k, d)
        /\ current'[k] = requests[1]
    <3>1. \A j \in Tasks : j # k => (Holds(j, d)' <=> Holds(j, d)) /\ current'[j] = current[j]
      BY <1>4 DEF Holds
    <3>2. Holds(k, d)' <=> Queued(1, d)
      BY <1>4 DEF Holds, Queued
    <3>3. ~Holds(k, d)
      BY <1>1 DEF Holds
    <3> QED
      BY <1>4, <3>1, <3>2, <3>3
  <2>3. \A i \in 1 .. Len(requests') :
           /\ i + 1 \in 1 .. Len(requests)
           /\ Queued(i, d)' <=> Queued(i + 1, d)
           /\ requests'[i] = requests[i + 1]
    BY <1>2, <1>5 DEF Queued
  <2>4. DueIsKept(d)'
    <3> SUFFICES ASSUME NEW m \in Due(d)
                 PROVE  \/ \E j \in Tasks : Holds(j, d)' /\ current'[j].tag = asked[d][m]
                        \/ \E i \in 1 .. Len(requests') :
                              Queued(i, d)' /\ requests'[i].tag = asked[d][m]
      BY <2>1 DEF DueIsKept
    <3>1. CASE \E j \in Tasks : Holds(j, d) /\ current[j].tag = asked[d][m]
      BY <2>2, <3>1
    <3>2. CASE \E i \in 1 .. Len(requests) : Queued(i, d) /\ requests[i].tag = asked[d][m]
      <4>1. PICK i \in 1 .. Len(requests) : Queued(i, d) /\ requests[i].tag = asked[d][m]
        BY <3>2
      <4>2. CASE i = 1
        BY <2>2, <4>1, <4>2
      <4>3. CASE i # 1
        <5>1. i - 1 \in 1 .. Len(requests') /\ (i - 1) + 1 = i
          BY <1>2, <4>3
        <5>2. PICK h \in 1 .. Len(requests') : h + 1 = i
          BY <5>1
        <5> QED
          BY <2>3, <4>1, <5>2
      <4> QED
        BY <4>2, <4>3
    <3> QED
      BY <2>0, <3>1, <3>2 DEF DueIsKept
  <2>5. HeldIsDue(d)'
    <3> SUFFICES ASSUME NEW j \in Tasks, Holds(j, d)'
                 PROVE  \E m \in Due(d) : current'[j].tag = asked[d][m]
      BY <2>1 DEF HeldIsDue
    <3>1. CASE j = k
      BY <1>5, <2>0, <2>2, <3>1 DEF QueuedIsDue
    <3>2. CASE j # k
      BY <2>0, <2>2, <3>2 DEF HeldIsDue
    <3> QED
      BY <3>1, <3>2
  <2>6. QueuedIsDue(d)'
    <3> SUFFICES ASSUME NEW i \in 1 .. Len(requests'), Queued(i, d)'
                 PROVE  \E m \in Due(d) : requests'[i].tag = asked[d][m]
      BY <2>1 DEF QueuedIsDue
    <3>1. Queued(i + 1, d) /\ i + 1 \in 1 .. Len(requests) /\ requests'[i] = requests[i + 1]
      BY <2>3
    <3> QED
      BY <2>0, <3>1 DEF QueuedIsDue
  <2>7. OneHeld(d)'
    <3>1. ASSUME NEW j \in Tasks, j # k, Holds(j, d), Queued(1, d)
          PROVE  FALSE
      <4>1. ~Active(j)
        BY <1>7, <3>1
      <4>2. d = Main
        BY <3>1, <4>1 DEF Holds, TasksInv, Active
      <4>3. PICK m \in Due(d) : current[j].tag = asked[d][m]
        BY <2>0, <3>1 DEF HeldIsDue
      <4>4. PICK n \in Due(d) : requests[1].tag = asked[d][n]
        BY <1>5, <2>0, <3>1 DEF QueuedIsDue
      <4>5. m = n
        <5>1. Len(asked[d]) - Len(answered[d]) <= 1
          BY <4>2 DEF AskedInv, Waiting
        <5>2. m \in Len(answered[d]) + Len(replies[d]) + 1 .. Len(asked[d])
          BY DEF Due, Responses
        <5>3. n \in Len(answered[d]) + Len(replies[d]) + 1 .. Len(asked[d])
          BY DEF Due, Responses
        <5>4. \A a, b, c \in Nat : \A x, y \in b + c + 1 .. a : a - b <= 1 => x = y
          OBVIOUS
        <5>5. Len(asked[d]) \in Nat /\ Len(answered[d]) \in Nat /\ Len(replies[d]) \in Nat
          BY Numbers
        <5> QED
          BY <5>1, <5>2, <5>3, <5>4, <5>5, Zenon
      <4>6. current[j].tag < requests[1].tag
        BY <1>5, <2>0, <3>1 DEF HeldFirst
      <4>7. requests[1].tag \in Nat
        BY <1>2, DbTaskAssumption DEF Requests
      <4> QED
        BY <4>3, <4>4, <4>5, <4>6, <4>7
    <3> QED
      BY <2>0, <2>2, <3>1 DEF OneHeld
  <2>8. HeldFirst(d)'
    <3> SUFFICES ASSUME NEW j \in Tasks, NEW i \in 1 .. Len(requests'),
                        Holds(j, d)', Queued(i, d)'
                 PROVE  current'[j].tag < requests'[i].tag
      BY DEF HeldFirst
    <3>0. Queued(i + 1, d) /\ i + 1 \in 1 .. Len(requests) /\ requests'[i] = requests[i + 1]
      BY <2>3
    <3>1. CASE j = k
      <4>1. 1 < i + 1
        BY <1>2
      <4> QED
        BY <1>5, <2>0, <2>2, <3>0, <3>1, <4>1 DEF QueueInOrder
    <3>2. CASE j # k
      BY <2>0, <2>2, <3>0, <3>2 DEF HeldFirst
    <3> QED
      BY <3>1, <3>2
  <2>9. QueueInOrder(d)'
    <3> SUFFICES ASSUME NEW i \in 1 .. Len(requests'), NEW j \in 1 .. Len(requests'),
                        i < j, Queued(i, d)', Queued(j, d)'
                 PROVE  requests'[i].tag < requests'[j].tag
      BY DEF QueueInOrder
    <3>1. i + 1 < j + 1
      BY <1>2
    <3> QED
      BY <2>0, <2>3, <3>1 DEF QueueInOrder
  <2> QED
    BY <2>4, <2>5, <2>6, <2>7, <2>8, <2>9
<1> QED
  BY <1>8, <1>9, <1>10, <1>11 DEF TaskInv

(* The request that a task has taken is the oldest one that is due.        *)
LEMMA HeldIsOldest ==
    ASSUME TypeOK, AskedInv, RepliesInv, DueInv,
           NEW c \in Everyone, NEW k \in Tasks, Holds(k, c)
    PROVE  /\ Responses(c) + 1 \in Due(c)
           /\ current[k].tag = asked[c][Responses(c) + 1]
<1> USE Domains
<1>0. /\ DueIsKept(c) /\ HeldIsDue(c) /\ OneHeld(c) /\ HeldFirst(c)
  BY DEF DueInv
<1>1. Responses(c) \in Nat /\ Len(asked[c]) \in Nat
  BY Numbers DEF Responses
<1>2. PICK m \in Due(c) : current[k].tag = asked[c][m]
  BY <1>0 DEF HeldIsDue
<1>3. m \in Int /\ Responses(c) + 1 <= m /\ m <= Len(asked[c])
  BY <1>1, <1>2 DEF Due
<1>4. Responses(c) + 1 \in Due(c)
  BY <1>1, <1>3 DEF Due
<1>5. ASSUME Responses(c) + 1 # m PROVE FALSE
  <2> DEFINE f == Responses(c) + 1
  <2>1. f \in 1 .. Len(asked[c]) /\ m \in 1 .. Len(asked[c]) /\ f < m
    BY <1>1, <1>3, <1>5
  <2>2. f \in Due(c)
    BY <1>4
  <2> HIDE DEF f
  <2>3. asked[c][f] < asked[c][m]
    BY <2>1 DEF AskedInv
  <2>4. asked[c][f] \in Nat /\ asked[c][m] \in Nat
    BY <2>1, Numbers
  <2>5. CASE \E j \in Tasks : Holds(j, c) /\ current[j].tag = asked[c][f]
    <3>1. current[k].tag = asked[c][f]
      BY <1>0, <2>5 DEF OneHeld
    <3> QED
      BY <1>2, <2>3, <2>4, <3>1
  <2>6. CASE \E i \in 1 .. Len(requests) : Queued(i, c) /\ requests[i].tag = asked[c][f]
    <3>1. current[k].tag < asked[c][f]
      BY <1>0, <2>6 DEF HeldFirst
    <3> QED
      BY <1>2, <2>3, <2>4, <3>1
  <2> QED
    BY <1>0, <2>2, <2>5, <2>6 DEF DueIsKept
<1> QED
  BY <1>2, <1>4, <1>5

(* The task sends the response and goes on, or ends after a STOP.          *)
LEMMA ReplyInv == ASSUME TaskInv, NEW k \in Tasks, Reply(k) PROVE TaskInv'
<1>0. TypeOK /\ TasksInv /\ AskedInv /\ RepliesInv /\ DueInv
  BY DEF TaskInv
<1>t. current[k] \in Requests /\ current[k].tag # 0 /\ MaxRequests \in Nat
  BY <1>0, Typed DEF TasksInv, Reply
<1>c. PICK c \in Everyone : c = current[k].client
  BY <1>t DEF Requests
<1>2. PICK tag \in 1 .. MaxRequests : tag = current[k].tag
  BY <1>t DEF Requests
<1>1. /\ pc[k] \in {"reply", "stopping"} /\ Len(replies[c]) < ReplySize
      /\ replies' = [replies EXCEPT ![c] = Append(@, tag)]
      /\ pc' = [pc EXCEPT ![k] = AfterReply(k)]
      /\ UNCHANGED <<requests, running, starts, current, posted, asked, answered>>
  BY <1>c, <1>2 DEF Reply, CanSend
<1>3. Holds(k, c)
  BY <1>c, <1>t, <1>1 DEF Holds
<1>4. /\ AfterReply(k) \in {"receive", "ended"}
      /\ AfterReply(k) = "receive" => pc[k] = "reply"
  BY <1>1 DEF AfterReply
<1>5. PICK f \in Due(c) : f = Responses(c) + 1 /\ tag = asked[c][f]
  BY <1>0, <1>2, <1>3, HeldIsOldest
<1>6. /\ replies'[c] = Append(replies[c], tag)
      /\ \A d \in Everyone : d # c => replies'[d] = replies[d]
      /\ pc'[k] = AfterReply(k)
      /\ \A j \in Tasks : j # k => pc'[j] = pc[j]
  BY <1>0, <1>1, <1>2, Typed
<1>7. /\ Len(replies[c]) \in Nat /\ Len(replies'[c]) = Len(replies[c]) + 1
      /\ \A m \in 1 .. Len(replies[c]) : replies'[c][m] = replies[c][m]
      /\ replies'[c][Len(replies[c]) + 1] = tag
  BY <1>0, <1>2, <1>6, Typed
<1>8. TypeOK'
  <2>1. replies' \in [Everyone -> Seq(1 .. MaxRequests)]
    BY <1>0, <1>1, <1>2, Typed
  <2>2. ASSUME NEW d \in Everyone PROVE Len(replies'[d]) <= ReplySize
    <3>1. CASE d # c
      BY <1>0, <1>6, <3>1 DEF TypeOK
    <3>2. CASE d = c
      BY <1>1, <1>7, <3>2, DbTaskAssumption
    <3> QED
      BY <3>1, <3>2
  <2>3. pc' \in [Tasks -> PCs]
    BY <1>0, <1>1, <1>4, Typed DEF PCs
  <2> QED
    BY <1>0, <1>1, <2>1, <2>2, <2>3 DEF TypeOK, PCs
<1> USE <1>0, <1>8, Domains, DomainsNext
<1>9. TasksInv'
  <2>1. \A j \in Tasks : Active(j)' => Active(j)
    BY <1>4, <1>6 DEF Active
  <2>2. /\ \A i, j \in Tasks : Active(i)' /\ Active(j)' => i = j
        /\ \A j \in Tasks : Active(j)' => running'
    BY <1>1, <2>1 DEF TasksInv
  <2>3. \A j \in Tasks : j > starts' => pc'[j] = "none"
    <3>1. ~(k > starts)
      BY <1>1 DEF TasksInv
    <3> QED
      BY <1>1, <1>6, <3>1 DEF TasksInv
  <2>4. \A j \in Tasks : /\ pc'[j] \in {"handle", "reply"} => current'[j].client # Main
                         /\ pc'[j] = "stopping" => current'[j].client = Main
                         /\ pc'[j] \in {"reply", "stopping"} => current'[j].tag # 0
    BY <1>1, <1>4, <1>6 DEF TasksInv
  <2>5. \A i \in 1 .. Len(requests') :
           /\ requests'[i].type = "stop" <=> requests'[i].client = Main
           /\ requests'[i].type = "stop" => requests'[i].tag # 0
    BY <1>1 DEF TasksInv
  <2> QED
    BY <2>2, <2>3, <2>4, <2>5 DEF TasksInv
<1>10. AskedInv'
  BY <1>1 DEF AskedInv, Waiting
<1>11. /\ Responses(c)' = Responses(c) + 1
       /\ \A d \in Everyone : d # c => Responses(d)' = Responses(d)
       /\ \A d \in Everyone : Responses(d) \in Nat /\ Len(asked[d]) \in Nat
  <2>1. \A d \in Everyone : /\ Len(answered[d]) \in Nat /\ Len(replies[d]) \in Nat
                            /\ Len(asked[d]) \in Nat
    BY Numbers
  <2>2. \A d \in Everyone : d # c => Responses(d)' = Responses(d)
    BY <1>1, <1>6 DEF Responses
  <2>3. Responses(c)' = Responses(c) + 1
    <3>1. \A a, b \in Nat : a + (b + 1) = (a + b) + 1
      OBVIOUS
    <3>2. Len(answered[c]) \in Nat /\ answered' = answered
      BY <1>1, <1>2, <2>1
    <3> QED
      BY <1>7, <3>1, <3>2, Zenon DEF Responses
  <2>4. \A d \in Everyone : Responses(d) \in Nat
    BY <2>1 DEF Responses
  <2> QED
    BY <1>2, <2>1, <2>2, <2>3, <2>4
<1>12. RepliesInv'
  <2> SUFFICES ASSUME NEW d \in Everyone
               PROVE  /\ Responses(d)' <= Len(asked'[d])
                      /\ \A m \in 1 .. Len(answered'[d]) : answered'[d][m] = asked'[d][m]
                      /\ \A m \in 1 .. Len(replies'[d]) :
                            replies'[d][m] = asked'[d][Len(answered'[d]) + m]
    BY DEF RepliesInv
  <2>1. /\ Responses(d) <= Len(asked[d])
        /\ \A m \in 1 .. Len(answered[d]) : answered[d][m] = asked[d][m]
        /\ \A m \in 1 .. Len(replies[d]) : replies[d][m] = asked[d][Len(answered[d]) + m]
    BY DEF RepliesInv
  <2>2. asked' = asked /\ answered' = answered
    BY <1>1
  <2>3. CASE d # c
    BY <1>6, <1>11, <2>1, <2>2, <2>3
  <2>4. CASE d = c
    <3>1. Responses(d)' <= Len(asked'[d])
      <4>1. Responses(c) + 1 <= Len(asked[c])
        BY <1>2, <1>5, <1>11 DEF Due
      <4> QED
        BY <1>11, <2>2, <2>4, <4>1
    <3>2. ASSUME NEW m \in 1 .. Len(replies'[d])
          PROVE  replies'[d][m] = asked'[d][Len(answered'[d]) + m]
      <4>1. CASE m \in 1 .. Len(replies[d])
        BY <1>7, <2>1, <2>2, <2>4, <4>1
      <4>2. CASE m = Len(replies[d]) + 1
        <5>1. replies'[d][m] = asked[d][f]
          BY <1>5, <1>7, <2>4, <4>2
        <5>2. f = Len(answered[d]) + m
          <6>1. \A a, b \in Nat : (a + b) + 1 = a + (b + 1)
            OBVIOUS
          <6>2. Len(answered[d]) \in Nat /\ Len(replies[d]) \in Nat
            BY Numbers
          <6> QED
            BY <1>5, <2>4, <4>2, <6>1, <6>2, Zenon DEF Responses
        <5> QED
          BY <2>2, <5>1, <5>2, Zenon
      <4> QED
        BY <1>7, <2>4, <4>1, <4>2
    <3> QED
      BY <2>1, <2>2, <3>1, <3>2
  <2> QED
    BY <2>3, <2>4
<1>13. DueInv'
  <2> SUFFICES ASSUME NEW d \in Everyone
               PROVE  /\ DueIsKept(d)' /\ HeldIsDue(d)' /\ QueuedIsDue(d)'
                      /\ OneHeld(d)' /\ HeldFirst(d)' /\ QueueInOrder(d)'
    BY DEF DueInv
  <2>0. /\ DueIsKept(d) /\ HeldIsDue(d) /\ QueuedIsDue(d)
        /\ OneHeld(d) /\ HeldFirst(d) /\ QueueInOrder(d)
    BY DEF DueInv
  <2>1. /\ asked' = asked /\ requests' = requests /\ current' = current
        /\ \A i \in 1 .. Len(requests) : Queued(i, d)' <=> Queued(i, d)
    BY <1>1 DEF Queued
  <2>2. \A j \in Tasks : Holds(j, d)' <=> (Holds(j, d) /\ j # k)
    <3>1. ~Holds(k, d)'
      BY <1>4, <1>6 DEF Holds
    <3>2. \A j \in Tasks : j # k => (Holds(j, d)' <=> Holds(j, d))
      BY <1>1, <1>6 DEF Holds
    <3> QED
      BY <3>1, <3>2
  <2>3. OneHeld(d)' /\ HeldFirst(d)' /\ QueueInOrder(d)'
    BY <2>0, <2>1, <2>2 DEF OneHeld, HeldFirst, QueueInOrder
  <2>4. CASE d # c
    <3>1. ~Holds(k, d)
      BY <1>c, <2>4 DEF Holds
    <3>2. Due(d)' = Due(d)
      BY <1>11, <2>1, <2>4, Zenon DEF Due
    <3>3. DueIsKept(d)' /\ HeldIsDue(d)' /\ QueuedIsDue(d)'
      BY <2>0, <2>1, <2>2, <3>1, <3>2 DEF DueIsKept, HeldIsDue, QueuedIsDue
    <3> QED
      BY <2>3, <3>3
  <2>5. CASE d = c
    <3>1. \A m \in Due(d)' : m \in Due(d) /\ f < m
      BY <1>5, <1>11, <2>1, <2>5 DEF Due
    <3>2. \A m \in Due(d) : m = f \/ m \in Due(d)'
      BY <1>5, <1>11, <2>1, <2>5 DEF Due
    <3>3. \A m \in Due(d)' : asked[d][f] # asked[d][m]
      <4> SUFFICES ASSUME NEW m \in Due(d)' PROVE asked[d][f] # asked[d][m]
        OBVIOUS
      <4>1. m \in 1 .. Len(asked[d]) /\ f \in 1 .. Len(asked[d]) /\ f < m
        BY <1>5, <1>11, <2>5, <3>1 DEF Due
      <4>2. asked[d][f] < asked[d][m]
        BY <4>1 DEF AskedInv
      <4>3. asked[d][f] \in Nat
        BY <4>1, Numbers
      <4> QED
        BY <4>2, <4>3
    <3>4. DueIsKept(d)'
      <4> SUFFICES ASSUME NEW m \in Due(d)'
                   PROVE  \/ \E j \in Tasks : Holds(j, d)' /\ current[j].tag = asked[d][m]
                          \/ \E i \in 1 .. Len(requests) :
                                Queued(i, d) /\ requests[i].tag = asked[d][m]
        BY <2>1 DEF DueIsKept
      <4>1. CASE \E j \in Tasks : Holds(j, d) /\ current[j].tag = asked[d][m]
        <5>1. PICK j \in Tasks : Holds(j, d) /\ current[j].tag = asked[d][m]
          BY <4>1
        <5>2. j # k
          BY <1>2, <1>5, <2>5, <3>3, <5>1
        <5> QED
          BY <2>2, <5>1, <5>2
      <4> QED
        BY <2>0, <3>1, <4>1 DEF DueIsKept
    <3>5. HeldIsDue(d)'
      <4>1. \A j \in Tasks : ~Holds(j, d)'
        BY <1>3, <2>0, <2>2, <2>5 DEF OneHeld
      <4> QED
        BY <4>1 DEF HeldIsDue
    <3>6. QueuedIsDue(d)'
      <4> SUFFICES ASSUME NEW i \in 1 .. Len(requests), Queued(i, d)
                   PROVE  \E m \in Due(d)' : requests[i].tag = asked[d][m]
        BY <2>1 DEF QueuedIsDue
      <4>1. PICK m \in Due(d) : requests[i].tag = asked[d][m]
        BY <2>0 DEF QueuedIsDue
      <4>2. asked[d][f] < requests[i].tag
        BY <1>2, <1>3, <1>5, <2>0, <2>5 DEF HeldFirst
      <4>3. m # f
        <5>1. asked[d][f] \in Nat
          BY <1>2, <1>5, <2>5, DbTaskAssumption
        <5> QED
          BY <4>1, <4>2, <5>1
      <4> QED
        BY <3>2, <4>1, <4>3
    <3> QED
      BY <2>3, <3>4, <3>5, <3>6
  <2> QED
    BY <2>4, <2>5
<1> QED
  BY <1>8, <1>9, <1>10, <1>12, <1>13 DEF TaskInv

LEMMA PostStepsInv ==
    ASSUME TaskInv, PostStop \/ \E c \in Clients : PostCall(c) \/ PostSilent(c)
    PROVE  TaskInv'
<1>0. TypeOK /\ Main \notin Clients
  BY DbTaskAssumption DEF TaskInv
<1>1. CASE PostStop
  <2>1. /\ Main \in Everyone /\ posted[Main] \in Nat /\ posted[Main] < MaxRequests
        /\ posted[Main] + 1 \in 1 .. MaxRequests
    <3>1. posted[Main] \in 0 .. MaxRequests /\ starts \in 0 .. MaxStarts
      BY <1>0, Typed DEF Everyone
    <3>2. posted[Main] < starts /\ starts < MaxStarts
      BY <1>1 DEF PostStop
    <3>3. MaxStarts \in 1 .. MaxRequests + 1 /\ MaxRequests \in Nat
      BY DbTaskAssumption
    <3> QED
      BY <3>1, <3>2, <3>3 DEF Everyone
  <2>2. Posting(Main, posted[Main] + 1, "stop")
    BY <1>1, <2>1 DEF PostStop, Posting
  <2>3. posted[Main] + 1 \in 0 .. MaxRequests
    BY <2>1
  <2> QED
    BY <2>1, <2>2, <2>3, PostInv
<1>2. ASSUME NEW c \in Clients, PostCall(c) \/ PostSilent(c)
      PROVE  TaskInv'
  <2>1. c \in Everyone /\ c # Main
    BY <1>0 DEF Everyone
  <2>2. posted[c] \in 0 .. MaxRequests /\ posted[c] < MaxRequests
        /\ Waiting(c) < Outstanding /\ MaxRequests \in Nat
    BY <1>0, <1>2, <2>1, Typed DEF PostCall, PostSilent, MayPost
  <2>3. posted[c] + 1 \in 0 .. MaxRequests /\ 0 \in 0 .. MaxRequests
    BY <2>2
  <2>4. CASE PostCall(c)
    <3>1. Posting(c, posted[c] + 1, "work")
      BY <2>1, <2>2, <2>4 DEF PostCall, Posting
    <3> QED
      BY <2>1, <2>3, <3>1, PostInv
  <2>5. CASE PostSilent(c)
    <3>1. Posting(c, 0, "work")
      BY <2>1, <2>2, <2>5 DEF PostSilent, Posting
    <3> QED
      BY <2>1, <2>3, <3>1, PostInv
  <2> QED
    BY <1>2, <2>4, <2>5
<1> QED
  BY <1>1, <1>2

LEMMA NextInv == TaskInv /\ [Next]_vars => TaskInv'
<1> SUFFICES ASSUME TaskInv, [Next]_vars PROVE TaskInv'
  OBVIOUS
<1>1. CASE Start
  BY <1>1, StartInv
<1>2. CASE PostStop \/ \E c \in Clients : PostCall(c) \/ PostSilent(c)
  BY <1>2, PostStepsInv
<1>3. ASSUME NEW c \in Everyone, TakeReply(c) PROVE TaskInv'
  BY <1>3, TakeReplyInv
<1>4. ASSUME NEW k \in Tasks, TaskStep(k) PROVE TaskInv'
  <2>1. CASE Mount(k)
    BY <2>1, MountInv
  <2>2. CASE Receive(k)
    BY <2>2, ReceiveInv
  <2>3. CASE Handle(k)
    BY <2>3, HandleInv
  <2>4. CASE Reply(k)
    BY <2>4, ReplyInv
  <2> QED
    BY <1>4, <2>1, <2>2, <2>3, <2>4 DEF TaskStep
<1>5. CASE UNCHANGED vars
  BY <1>5, StutterInv
<1> QED
  BY <1>1, <1>2, <1>3, <1>4, <1>5 DEF Next

-----------------------------------------------------------------------------
(* The inductive invariant of the database task: what each task holds,     *)
(* what is queued and what each client waits for fit together.             *)
THEOREM TaskInvariant == Spec => []TaskInv
<1> QED
  BY InitInv, NextInv, PTL DEF Spec

(* The queues and the task's state keep their types: no queue is ever over *)
(* its length.                                                             *)
THEOREM TypeCorrect == Spec => []TypeOK
<1>1. TaskInv => TypeOK
  BY DEF TaskInv
<1> QED
  BY <1>1, TaskInvariant, PTL

(* Never do two tasks mount or use the database at once, however db_init   *)
(* and STOP requests interleave.                                           *)
LEMMA AtMostOneActive == TaskInv => OneTaskOnDatabase
<1> SUFFICES ASSUME TaskInv PROVE OneTaskOnDatabase
  OBVIOUS
<1> DEFINE A == {k \in Tasks : pc[k] \in {"mount", "receive", "handle", "reply"}}
<1>1. \A j, k \in A : j = k
  BY DEF TaskInv, TasksInv, Active
<1>2. CASE A = {}
  <2>1. Cardinality(A) = 0
    BY <1>2, FS_EmptySet
  <2> QED
    BY <2>1 DEF OneTaskOnDatabase
<1>3. CASE A # {}
  <2>1. PICK k : A = {k}
    BY <1>1, <1>3
  <2>2. Cardinality(A) = 1
    BY <2>1, FS_Singleton
  <2> QED
    BY <2>2 DEF OneTaskOnDatabase
<1> QED
  BY <1>2, <1>3

THEOREM OneTask == Spec => []OneTaskOnDatabase
  BY AtMostOneActive, TaskInvariant, PTL

(* Two sequences whose items are, in order, the first ones of a third.     *)
LEMMA ConcatIsPrefix ==
    ASSUME NEW N, NEW s \in Seq(N), NEW t \in Seq(N), NEW u \in Seq(N),
           Len(s) + Len(t) <= Len(u),
           \A m \in 1 .. Len(s) : s[m] = u[m],
           \A m \in 1 .. Len(t) : t[m] = u[Len(s) + m]
    PROVE  IsPrefix(s \o t, u)
<1>1. /\ s \o t \in Seq(N) /\ Len(s \o t) = Len(s) + Len(t)
      /\ \A i \in 1 .. Len(s) + Len(t) :
            (s \o t)[i] = IF i <= Len(s) THEN s[i] ELSE t[i - Len(s)]
  BY ConcatProperties
<1> DEFINE v == s \o t
<1> HIDE DEF v
<1>2. /\ v \in Seq(N) /\ Len(v) = Len(s) + Len(t) /\ Len(s) \in Nat /\ Len(t) \in Nat
      /\ Len(u) \in Nat
      /\ \A i \in 1 .. Len(v) : v[i] = IF i <= Len(s) THEN s[i] ELSE t[i - Len(s)]
  BY <1>1 DEF v
<1>3. ASSUME NEW i \in 1 .. Len(v) PROVE v[i] = u[i]
  <2>1. CASE i <= Len(s)
    BY <1>2, <2>1
  <2>2. CASE ~(i <= Len(s))
    <3>1. i - Len(s) \in 1 .. Len(t) /\ Len(s) + (i - Len(s)) = i
      BY <1>2, <2>2
    <3>2. v[i] = t[i - Len(s)]
      BY <1>2, <2>2
    <3> QED
      BY <3>1, <3>2
  <2> QED
    BY <2>1, <2>2
<1>4. SubSeq(v, 1, Len(v)) = v
  BY <1>2, SubSeqFull
<1>5. /\ SubSeq(u, 1, Len(v)) \in Seq(N)
      /\ Len(SubSeq(u, 1, Len(v))) = Len(v)
      /\ \A i \in 1 .. Len(v) : SubSeq(u, 1, Len(v))[i] = u[i]
  <2>1. \A i \in 1 .. Len(v) : u[i] \in N
    BY <1>2
  <2>2. /\ SubSeq(u, 1, Len(v)) \in Seq(N)
        /\ Len(SubSeq(u, 1, Len(v))) = IF 1 <= Len(v) THEN Len(v) - 1 + 1 ELSE 0
        /\ \A i \in 1 .. Len(v) - 1 + 1 : SubSeq(u, 1, Len(v))[i] = u[1 + i - 1]
    BY <1>2, <2>1, SubSeqProperties
  <2>3. Len(v) - 1 + 1 = Len(v) /\ \A i \in 1 .. Len(v) : 1 + i - 1 = i
    BY <1>2
  <2>4. Len(SubSeq(u, 1, Len(v))) = Len(v)
    BY <1>2, <2>2
  <2> QED
    BY <2>2, <2>3, <2>4
<1>6. v = SubSeq(u, 1, Len(v))
  BY <1>2, <1>3, <1>5, SeqEqual
<1>7. IsPrefix(v, u)
  BY <1>2, <1>4, <1>6 DEF IsPrefix
<1> QED
  BY <1>7 DEF v

(* Responses come in the order of the requests, one for each.              *)
LEMMA RepliesInOrder == TaskInv => RepliesMatchRequests
<1> SUFFICES ASSUME TaskInv, NEW c \in Everyone
             PROVE  IsPrefix(answered[c] \o replies[c], asked[c])
  BY DEF RepliesMatchRequests
<1>1. /\ asked[c] \in Seq(1 .. MaxRequests) /\ answered[c] \in Seq(1 .. MaxRequests)
      /\ replies[c] \in Seq(1 .. MaxRequests)
  BY Typed DEF TaskInv
<1>2. /\ Len(answered[c]) + Len(replies[c]) <= Len(asked[c])
      /\ \A m \in 1 .. Len(answered[c]) : answered[c][m] = asked[c][m]
      /\ \A m \in 1 .. Len(replies[c]) : replies[c][m] = asked[c][Len(answered[c]) + m]
  BY Zenon DEF TaskInv, RepliesInv, Responses
<1> QED
  BY <1>1, <1>2, ConcatIsPrefix

THEOREM RepliesMatch == Spec => []RepliesMatchRequests
  BY RepliesInOrder, TaskInvariant, PTL

(* When the task has a response to send, the client's queue has room.      *)
LEMMA RoomForReply == TaskInv => TaskNeverWaitsForClient
<1> SUFFICES ASSUME TaskInv, NEW k \in Tasks, pc[k] \in {"reply", "stopping"}
             PROVE  Len(replies[current[k].client]) < ReplySize
  BY DEF TaskNeverWaitsForClient, CanSend
<1>0. TypeOK /\ TasksInv /\ AskedInv /\ RepliesInv /\ DueInv
  BY DEF TaskInv
<1>1. current[k] \in Requests /\ current[k].tag # 0
  BY <1>0, Typed DEF TasksInv
<1>2. PICK c \in Everyone : c = current[k].client
  BY <1>1 DEF Requests
<1>3. Responses(c) + 1 \in Due(c)
  BY <1>0, <1>1, <1>2, HeldIsOldest DEF Holds
<1>4. PICK a \in Nat, b \in Nat, d \in Nat :
         a = Len(answered[c]) /\ b = Len(replies[c]) /\ d = Len(asked[c])
  BY <1>0, Numbers
<1>5. a + b + 1 <= d
  <2>1. a + b + 1 \in a + b + 1 .. d
    BY <1>3, <1>4, Zenon DEF Due, Responses
  <2> QED
    BY <2>1
<1>6. d - a <= IF c = Main THEN 1 ELSE Outstanding
  <2>1. Waiting(c) <= IF c = Main THEN 1 ELSE Outstanding
    BY <1>0 DEF AskedInv
  <2> QED
    BY <1>4, <2>1, Zenon DEF Waiting
<1>7. b < ReplySize
  BY <1>5, <1>6, DbTaskAssumption
<1> QED
  BY <1>2, <1>4, <1>7

THEOREM NeverWaits == Spec => []TaskNeverWaitsForClient
  BY RoomForReply, TaskInvariant, PTL

-----------------------------------------------------------------------------
(* A set of pairs that orders the elements of a set, and a list of them in *)
(* that order.                                                             *)
Orders(R, X) ==
    /\ \A p \in X : <<p, p>> \notin R
    /\ \A p, q \in X : <<p, q>> \in R \/ <<q, p>> \in R \/ p = q
    /\ \A p, q, r \in X : <<p, q>> \in R /\ <<q, r>> \in R => <<p, r>> \in R

Lists(s, X, R) ==
    /\ s \in Seq(X)
    /\ \A x \in X : \E k \in 1 .. Len(s) : s[k] = x
    /\ \A j, k \in 1 .. Len(s) : j < k => <<s[j], s[k]>> \in R

(* There are n numbers up to n, and n below n.                             *)
LEMMA UpTo ==
    ASSUME NEW n \in Nat
    PROVE  /\ IsFiniteSet(1 .. n) /\ Cardinality(1 .. n) = n
           /\ IsFiniteSet(0 .. n - 1) /\ Cardinality(0 .. n - 1) = n
<1>1. ASSUME NEW a \in Int, NEW b \in Int, b - a + 1 = n
      PROVE  IsFiniteSet(a .. b) /\ Cardinality(a .. b) = n
  <2>1. IsFiniteSet(a .. b) /\ Cardinality(a .. b) = IF a > b THEN 0 ELSE b - a + 1
    BY FS_Interval
  <2>2. a > b => n = 0
    BY <1>1
  <2> QED
    BY <1>1, <2>1, <2>2
<1>2. 0 \in Int /\ 1 \in Int /\ n \in Int /\ n - 1 \in Int /\ n - 1 + 1 = n /\ n - 1 - 0 + 1 = n
  OBVIOUS
<1> QED
  BY <1>1, <1>2

(* How many come before an element tells its place.                        *)
LEMMA Ranks ==
    ASSUME NEW X, NEW R, IsFiniteSet(X), Orders(R, X)
    PROVE  /\ Cardinality(X) \in Nat
           /\ \A x \in X : Cardinality({a \in X : <<a, x>> \in R}) \in 0 .. Cardinality(X) - 1
           /\ \A x, y \in X : <<x, y>> \in R =>
                 Cardinality({a \in X : <<a, x>> \in R}) < Cardinality({a \in X : <<a, y>> \in R})
<1> DEFINE below(x) == {a \in X : <<a, x>> \in R}
<1>1. Cardinality(X) \in Nat
  BY FS_CardinalityType
<1>2. ASSUME NEW A \in SUBSET X, NEW B \in SUBSET X, A \subseteq B, NEW b \in B, b \notin A
      PROVE  /\ Cardinality(A) \in Nat /\ Cardinality(B) \in Nat
             /\ Cardinality(A) < Cardinality(B)
  <2>1. IsFiniteSet(A) /\ IsFiniteSet(B)
    BY FS_Subset
  <2>2. Cardinality(A) \in Nat /\ Cardinality(B) \in Nat
    BY <2>1, FS_CardinalityType
  <2>3. Cardinality(A) <= Cardinality(B) /\ (Cardinality(A) = Cardinality(B) => A = B)
    BY <1>2, <2>1, FS_Subset
  <2> QED
    BY <1>2, <2>2, <2>3
<1>3. ASSUME NEW x \in X PROVE Cardinality(below(x)) \in 0 .. Cardinality(X) - 1
  <2>1. below(x) \in SUBSET X /\ x \notin below(x)
    BY DEF Orders
  <2> HIDE DEF below
  <2>2. Cardinality(below(x)) \in Nat /\ Cardinality(below(x)) < Cardinality(X)
    BY <1>2, <2>1
  <2> QED
    BY <1>1, <2>2
<1>4. ASSUME NEW x \in X, NEW y \in X, <<x, y>> \in R PROVE Cardinality(below(x)) < Cardinality(below(y))
  <2>1. below(x) \in SUBSET X /\ below(y) \in SUBSET X /\ below(x) \subseteq below(y)
        /\ x \in below(y) /\ x \notin below(x)
    BY <1>4 DEF Orders
  <2> HIDE DEF below
  <2> QED
    BY <1>2, <2>1
<1> QED
  BY <1>1, <1>3, <1>4

(* InOrder lists the set in its order.                                     *)
LEMMA InOrderIs ==
    ASSUME NEW X, NEW R, IsFiniteSet(X), Orders(R, X)
    PROVE  Lists(InOrder(X, R), X, R)
<1> DEFINE c == Cardinality(X)  T == 0 .. c - 1
           rank == [x \in X |-> Cardinality({a \in X : <<a, x>> \in R})]
           nth(k) == CHOOSE b \in X : Cardinality({a \in X : <<a, b>> \in R}) = k
           s == InOrder(X, R)
<1>1. /\ c \in Nat /\ \A x \in X : rank[x] \in T
      /\ \A x, y \in X : <<x, y>> \in R => rank[x] < rank[y]
  BY Ranks
<1>2. s = [k \in 1 .. c |-> nth(k - 1)]
  BY DEF InOrder
<1>3. rank \in [X -> T] /\ \A k : (\E x \in X : rank[x] = k) => nth(k) \in X /\ rank[nth(k)] = k
  BY <1>1
<1> HIDE DEF rank, T, s, nth
<1>4. ASSUME NEW x \in X, NEW y \in X, rank[x] = rank[y] PROVE x = y
  <2>1. rank[x] \in Int /\ rank[y] \in Int
    BY <1>1 DEF T
  <2>2. <<x, y>> \notin R /\ <<y, x>> \notin R
    BY <1>1, <1>4, <2>1
  <2> QED
    BY <2>2 DEF Orders
<1>5. \A k \in T : \E x \in X : rank[x] = k
  <2>1. IsFiniteSet(T) /\ Cardinality(T) = c
    BY <1>1, UpTo DEF T
  <2>2. rank \in Injection(X, T)
    BY <1>3, <1>4 DEF Injection, IsInjective
  <2>3. rank \in Surjection(X, T)
    BY <2>1, <2>2, FS_Injection
  <2> QED
    BY <2>3 DEF Surjection
<1>6. \A k \in T : nth(k) \in X /\ rank[nth(k)] = k
  BY <1>3, <1>5
<1>7. \A k \in 1 .. c : s[k] \in X /\ rank[s[k]] = k - 1
  <2>1. \A k \in 1 .. c : k - 1 \in T
    BY <1>1 DEF T
  <2> HIDE DEF c
  <2> QED
    BY <1>2, <1>6, <2>1
<1> HIDE DEF c
<1>8. s \in Seq(X) /\ Len(s) = c
  <2>1. s \in [1 .. c -> X]
    BY <1>2, <1>7
  <2> QED
    BY <1>1, <2>1, FunctionIsSeq
<1>9. \A x \in X : \E k \in 1 .. c : s[k] = x
  <2> TAKE x \in X
  <2>1. rank[x] \in T /\ rank[x] + 1 \in 1 .. c /\ (rank[x] + 1) - 1 = rank[x]
    BY <1>1 DEF T
  <2>2. s[rank[x] + 1] = x
    BY <1>4, <1>7, <2>1
  <2> QED
    BY <2>1, <2>2
<1>10. ASSUME NEW j \in 1 .. c, NEW k \in 1 .. c, j < k PROVE <<s[j], s[k]>> \in R
  <2>1. /\ s[j] \in X /\ s[k] \in X /\ rank[s[j]] = j - 1 /\ rank[s[k]] = k - 1
        /\ j \in Int /\ k \in Int
    BY <1>1, <1>7
  <2>2. ~ (rank[s[k]] < rank[s[j]]) /\ s[j] # s[k]
    BY <1>10, <2>1
  <2> QED
    BY <1>1, <2>1, <2>2 DEF Orders
<1> QED
  BY <1>8, <1>9, <1>10 DEF Lists, s

(* There is one such list.                                                 *)
LEMMA OneList ==
    ASSUME NEW X, NEW R, IsFiniteSet(X), Orders(R, X), NEW s, Lists(s, X, R)
    PROVE  s = InOrder(X, R)
<1> DEFINE t == InOrder(X, R)
           rank == [x \in X |-> Cardinality({a \in X : <<a, x>> \in R})]
<1>1. /\ Cardinality(X) \in Nat
      /\ \A x \in X : rank[x] \in Int
      /\ \A x, y \in X : <<x, y>> \in R => rank[x] < rank[y]
  BY Ranks
<1> HIDE DEF rank
<1>2. ASSUME NEW u, Lists(u, X, R)
      PROVE  /\ u \in Seq(X) /\ Len(u) = Cardinality(X) /\ Increases(Cardinality(X), rank, u)
             /\ \A x \in X : \E k \in 1 .. Len(u) : u[k] = x
  <2>1. /\ u \in Seq(X) /\ Len(u) \in Nat /\ u \in [1 .. Len(u) -> X]
        /\ \A k \in 1 .. Len(u) : u[k] \in X
    BY <1>2, LenProperties DEF Lists
  <2>2. \A j, k \in 1 .. Len(u) : j < k => rank[u[j]] < rank[u[k]]
    BY <1>1, <1>2, <2>1 DEF Lists
  <2>3. ASSUME NEW j \in 1 .. Len(u), NEW k \in 1 .. Len(u), u[j] = u[k] PROVE j = k
    <3>1. rank[u[j]] \in Int /\ j \in Int /\ k \in Int
      BY <1>1, <2>1
    <3> QED
      BY <2>2, <2>3, <3>1
  <2>4. IsFiniteSet(1 .. Len(u)) /\ Cardinality(1 .. Len(u)) = Len(u)
    BY <2>1, UpTo
  <2>5. \A x \in X : \E k \in 1 .. Len(u) : u[k] = x
    BY <1>2 DEF Lists
  <2>6. Cardinality(X) = Len(u)
    <3> DEFINE T == 1 .. Len(u)
    <3>1. IsFiniteSet(T) /\ u \in [T -> X] /\ (\A j, k \in T : u[j] = u[k] => j = k)
          /\ (\A x \in X : \E k \in T : u[k] = x) /\ Cardinality(T) = Len(u)
      BY <2>1, <2>3, <2>4, <2>5
    <3> HIDE DEF T
    <3> QED
      BY <3>1, SameSize
  <2>7. Increases(Len(u), rank, u)
    BY <1>1, <2>1, <2>2 DEF Increases
  <2> QED
    BY <2>1, <2>5, <2>6, <2>7
<1>3. Lists(t, X, R)
  BY InOrderIs
<1> HIDE DEF t
<1> DEFINE n == Cardinality(X)
<1>4. /\ n \in Nat /\ s \in Seq(X) /\ t \in Seq(X) /\ Len(s) = n /\ Len(t) = n
      /\ Increases(n, rank, s) /\ Increases(n, rank, t)
      /\ (\A x \in X : \E k \in 1 .. n : s[k] = x) /\ (\A x \in X : \E k \in 1 .. n : t[k] = x)
  <2>1. /\ s \in Seq(X) /\ Len(s) = n /\ Increases(n, rank, s)
        /\ \A x \in X : \E k \in 1 .. Len(s) : s[k] = x
    BY <1>2
  <2>2. /\ t \in Seq(X) /\ Len(t) = n /\ Increases(n, rank, t)
        /\ \A x \in X : \E k \in 1 .. Len(t) : t[k] = x
    BY <1>2, <1>3
  <2> QED
    BY <1>1, <2>1, <2>2
<1> HIDE DEF n
<1>5. Within(n, s, t) /\ Within(n, t, s)
  <2>1. (\A k \in 1 .. n : s[k] \in X) /\ (\A k \in 1 .. n : t[k] \in X)
    BY <1>4, ElementOfSeq
  <2> QED
    BY <1>4, <2>1 DEF Within
<1>6. \A k \in 1 .. n : s[k] = t[k]
  <2>1. n \in Nat
    BY <1>4
  <2>2. Increases(n, rank, s) /\ Increases(n, rank, t)
    BY <1>4
  <2>3. Within(n, s, t)
    BY <1>5
  <2>4. Within(n, t, s)
    BY <1>5
  <2> QED
    BY <2>1, <2>2, <2>3, <2>4, OneOrder, SMT
<1>7. s = t
  BY <1>4, <1>6, SeqEqual
<1> QED
  BY <1>7 DEF t

(* A list without one of its members, which it has once.                   *)
LEMMA ListLess ==
    ASSUME NEW X, NEW R, Orders(R, X), NEW s, Lists(s, X, R), NEW p,
           NEW R2, \A a, b \in X \ {p} : <<a, b>> \in R => <<a, b>> \in R2
    PROVE  Lists(Without(s, p), X \ {p}, R2)
<1>1. /\ s \in Seq(X) /\ Len(s) \in Nat /\ DOMAIN s = 1 .. Len(s)
      /\ \A k \in 1 .. Len(s) : s[k] \in X
  BY LenProperties DEF Lists
<1>2. p \in ToSet(s) <=> p \in X
  BY <1>1 DEF ToSet, Lists
<1>3. CASE p \notin X
  <2>1. Without(s, p) = s /\ X \ {p} = X
    BY <1>2, <1>3 DEF Without
  <2>2. \A j, k \in 1 .. Len(s) : j < k => <<s[j], s[k]>> \in R2
    BY <1>1, <1>3 DEF Lists
  <2> QED
    BY <2>1, <2>2 DEF Lists
<1>4. CASE p \in X
  <2> DEFINE i == CHOOSE k \in 1 .. Len(s) : s[k] = p  t == RemoveAt(s, i)  n == Len(s) - 1
             old == [k \in 1 .. n |-> IF k < i THEN k ELSE k + 1]
  <2>1. i \in 1 .. Len(s) /\ s[i] = p
    BY <1>4 DEF Lists
  <2>2. Without(s, p) = t
    BY <1>1, <1>2, <1>4 DEF Without
  <2> HIDE DEF i
  <2>3. t \in Seq(X) /\ Len(t) = n /\ \A k \in 1 .. n : t[k] = IF k < i THEN s[k] ELSE s[k + 1]
    BY <1>1, <2>1, RemovedAt
  <2> HIDE DEF t
  <2>4. n \in Nat /\ i \in Int /\ i <= n + 1
    BY <1>1, <2>1
  <2>5. \A k \in 1 .. n : old[k] \in 1 .. Len(s) /\ old[k] # i /\ t[k] = s[old[k]]
    BY <1>1, <2>1, <2>3
  <2>6. \A j, k \in 1 .. n : j < k => old[j] < old[k]
    BY <2>4
  <2>7. \A m \in 1 .. Len(s) : m # i => \E k \in 1 .. n : old[k] = m
    <3> TAKE m \in 1 .. Len(s)
    <3> HAVE m # i
    <3>1. CASE m < i
      <4>1. m \in 1 .. n /\ old[m] = m
        BY <2>1, <2>4, <3>1
      <4> QED
        BY <4>1
    <3>2. CASE i < m
      <4>1. m - 1 \in 1 .. n /\ ~ (m - 1 < i) /\ (m - 1) + 1 = m
        BY <1>1, <2>1, <2>4, <3>2
      <4> QED
        BY <4>1
    <3> QED
      BY <2>4, <3>1, <3>2
  <2> HIDE DEF n, old
  <2>8. ASSUME NEW j \in 1 .. Len(s), NEW k \in 1 .. Len(s), s[j] = s[k] PROVE j = k
    <3>1. j \in Int /\ k \in Int /\ s[j] \in X
      BY <1>1
    <3>2. <<s[j], s[j]>> \notin R
      BY <3>1 DEF Orders
    <3>3. ~ (j < k) /\ ~ (k < j)
      BY <2>8, <3>2 DEF Lists
    <3> QED
      BY <3>1, <3>3
  <2>9. \A k \in 1 .. n : t[k] \in X \ {p}
    BY <1>1, <2>1, <2>5, <2>8
  <2>10. t \in Seq(X \ {p})
    <3>1. t \in [1 .. n -> X \ {p}]
      <4>1. DOMAIN t = 1 .. n /\ t \in [1 .. n -> X]
        BY <2>3, LenProperties
      <4> QED
        BY <2>9, <4>1
    <3> QED
      BY <2>4, <3>1, FunctionIsSeq
  <2>11. \A x \in X \ {p} : \E k \in 1 .. n : t[k] = x
    <3> TAKE x \in X \ {p}
    <3>1. PICK m \in 1 .. Len(s) : s[m] = x
      BY DEF Lists
    <3>2. PICK k \in 1 .. n : old[k] = m
      BY <2>1, <2>7, <3>1
    <3> QED
      BY <2>5, <3>1, <3>2
  <2>12. ASSUME NEW j \in 1 .. n, NEW k \in 1 .. n, j < k PROVE <<t[j], t[k]>> \in R2
    <3>1. old[j] \in 1 .. Len(s) /\ old[k] \in 1 .. Len(s) /\ old[j] < old[k]
          /\ t[j] = s[old[j]] /\ t[k] = s[old[k]]
      BY <2>5, <2>6, <2>12
    <3>2. <<t[j], t[k]>> \in R
      BY <3>1 DEF Lists
    <3> QED
      BY <2>9, <3>2
  <2> QED
    BY <2>2, <2>3, <2>10, <2>11, <2>12 DEF Lists
<1> QED
  BY <1>3, <1>4

(* A list with a new first member.                                         *)
LEMMA ListFirst ==
    ASSUME NEW X, NEW R, NEW s, Lists(s, X, R), NEW p,
           NEW R2, \A a, b \in X : <<a, b>> \in R => <<a, b>> \in R2,
           \A a \in X : <<p, a>> \in R2
    PROVE  Lists(<<p>> \o s, X \cup {p}, R2)
<1> DEFINE Y == X \cup {p}  t == <<p>> \o s  n == Len(s)
<1>1. /\ s \in Seq(X) /\ n \in Nat /\ \A k \in 1 .. n : s[k] \in X
  BY LenProperties DEF Lists
<1>2. s \in Seq(Y) /\ <<p>> \in Seq(Y) /\ Len(<<p>>) = 1 /\ <<p>>[1] = p
  <2>1. s \in Seq(Y)
    BY <1>1, SeqMonotonic
  <2> QED
    BY <2>1
<1>3. /\ t \in Seq(Y) /\ Len(t) = n + 1 /\ t[1] = p
      /\ \A k \in 1 .. n : t[k + 1] = s[k]
  <2>1. /\ t \in Seq(Y) /\ Len(t) = 1 + n
        /\ \A i \in 1 .. 1 + n : t[i] = IF i <= 1 THEN <<p>>[i] ELSE s[i - 1]
    BY <1>2, ConcatProperties
  <2> HIDE DEF t
  <2>2. \A k \in 1 .. n : k + 1 \in 1 .. 1 + n /\ ~ (k + 1 <= 1) /\ (k + 1) - 1 = k
    BY <1>1
  <2>3. 1 \in 1 .. 1 + n
    BY <1>1
  <2> QED
    BY <1>1, <1>2, <2>1, <2>2, <2>3
<1> HIDE DEF t
<1>4. \A x \in Y : \E k \in 1 .. Len(t) : t[k] = x
  <2> TAKE x \in Y
  <2>1. CASE x = p
    <3>1. 1 \in 1 .. Len(t)
      BY <1>1, <1>3
    <3> QED
      BY <1>3, <2>1, <3>1
  <2>2. CASE x \in X
    <3>1. PICK k \in 1 .. n : s[k] = x
      BY <2>2 DEF Lists
    <3>2. k + 1 \in 1 .. Len(t) /\ t[k + 1] = x
      BY <1>1, <1>3, <3>1
    <3> QED
      BY <3>2
  <2> QED
    BY <2>1, <2>2
<1>5. ASSUME NEW j \in 1 .. Len(t), NEW k \in 1 .. Len(t), j < k PROVE <<t[j], t[k]>> \in R2
  <2>1. /\ k - 1 \in 1 .. n /\ (k - 1) + 1 = k
    BY <1>1, <1>3, <1>5
  <2>2. t[k] = s[k - 1] /\ t[k] \in X
    BY <1>1, <1>3, <2>1
  <2>3. CASE j = 1
    BY <1>3, <2>2, <2>3
  <2>4. CASE j # 1
    <3>1. j - 1 \in 1 .. n /\ (j - 1) + 1 = j /\ j - 1 < k - 1
      BY <1>1, <1>3, <1>5, <2>4
    <3>2. t[j] = s[j - 1] /\ t[j] \in X
      BY <1>1, <1>3, <3>1
    <3>3. <<s[j - 1], s[k - 1]>> \in R
      BY <2>1, <3>1 DEF Lists
    <3> QED
      BY <2>2, <3>2, <3>3
  <2> QED
    BY <2>3, <2>4
<1>6. Lists(t, Y, R2)
  BY <1>3, <1>4, <1>5 DEF Lists
<1> QED
  BY <1>6 DEF t

(* A list with a member under another name.                                *)
LEMMA ListRenamed ==
    ASSUME NEW X, NEW R, NEW s, Lists(s, X, R), NEW Y, NEW f \in [X -> Y],
           \A y \in Y : \E x \in X : f[x] = y,
           NEW R2, \A a, b \in X : <<a, b>> \in R => <<f[a], f[b]>> \in R2
    PROVE  Lists([k \in DOMAIN s |-> f[s[k]]], Y, R2)
<1> DEFINE t == [k \in DOMAIN s |-> f[s[k]]]  n == Len(s)
<1>1. /\ s \in Seq(X) /\ n \in Nat /\ DOMAIN s = 1 .. n /\ \A k \in 1 .. n : s[k] \in X
  BY LenProperties DEF Lists
<1>2. t \in [1 .. n -> Y] /\ \A k \in 1 .. n : t[k] = f[s[k]]
  BY <1>1
<1> HIDE DEF t
<1>3. t \in Seq(Y) /\ Len(t) = n
  BY <1>1, <1>2, FunctionIsSeq
<1>4. \A y \in Y : \E k \in 1 .. n : t[k] = y
  <2> TAKE y \in Y
  <2>1. PICK x \in X : f[x] = y
    OBVIOUS
  <2>2. PICK k \in 1 .. n : s[k] = x
    BY DEF Lists
  <2> QED
    BY <1>2, <2>1, <2>2
<1>5. ASSUME NEW j \in 1 .. n, NEW k \in 1 .. n, j < k PROVE <<t[j], t[k]>> \in R2
  <2>1. <<s[j], s[k]>> \in R /\ s[j] \in X /\ s[k] \in X
    BY <1>1, <1>5 DEF Lists
  <2> QED
    BY <1>2, <2>1
<1>6. Lists(t, Y, R2)
  BY <1>3, <1>4, <1>5 DEF Lists
<1> QED
  BY <1>6 DEF t

(* Names and times order phones strictly.                                  *)
LEMMA NamesOrder ==
    ASSUME NEW X \in SUBSET Phones, NEW f, \A p \in X : f[p] \in Nat
    PROVE  /\ IsFiniteSet(X) /\ Orders(NameOrder(X, f), X)
           /\ \A p, q : <<p, q>> \in NameOrder(X, f) <=>
                 p \in X /\ q \in X /\ (f[p] < f[q] \/ (f[p] = f[q] /\ p < q))
<1>1. IsFiniteSet(X)
  BY PhonesAreOrdered, FS_Subset
<1>2. \A p, q : <<p, q>> \in NameOrder(X, f) <=>
          p \in X /\ q \in X /\ (f[p] < f[q] \/ (f[p] = f[q] /\ p < q))
  BY DEF NameOrder
<1>3. \A p \in X : p \in Nat
  BY PhonesAreOrdered
<1>4. Orders(NameOrder(X, f), X)
  <2> HIDE DEF NameOrder
  <2>1. \A p \in X : <<p, p>> \notin NameOrder(X, f)
    BY <1>2, <1>3
  <2>2. ASSUME NEW p \in X, NEW q \in X
        PROVE  <<p, q>> \in NameOrder(X, f) \/ <<q, p>> \in NameOrder(X, f) \/ p = q
    BY <1>2, <1>3
  <2>3. ASSUME NEW p \in X, NEW q \in X, NEW r \in X,
               <<p, q>> \in NameOrder(X, f), <<q, r>> \in NameOrder(X, f)
        PROVE  <<p, r>> \in NameOrder(X, f)
    <3>1. p \in Nat /\ q \in Nat /\ r \in Nat /\ f[p] \in Nat /\ f[q] \in Nat /\ f[r] \in Nat
      BY <1>3
    <3>2. (f[p] < f[q] \/ (f[p] = f[q] /\ p < q)) /\ (f[q] < f[r] \/ (f[q] = f[r] /\ q < r))
      BY <1>2, <2>3
    <3>3. f[p] < f[r] \/ (f[p] = f[r] /\ p < r)
      BY <3>1, <3>2
    <3> QED
      BY <1>2, <3>3
  <2> QED
    BY <2>1, <2>2, <2>3 DEF Orders
<1> QED
  BY <1>1, <1>2, <1>4

(* The last time of a chat is one of its times.                            *)
LEMMA LastIs ==
    ASSUME NEW s \in Seq(Nat), s # <<>>
    PROVE  Last(s) \in Nat /\ Last(s) = s[Len(s)] /\ Len(s) \in 1 .. Len(s) /\ Len(s) \in DOMAIN s
<1>1. Len(s) \in Nat \ {0} /\ DOMAIN s = 1 .. Len(s)
  BY EmptySeq, LenProperties
<1>2. Len(s) \in 1 .. Len(s)
  BY <1>1
<1> QED
  BY <1>1, <1>2, ElementOfSeq DEF Last

LEMMA TimesOrder ==
    ASSUME NEW cs \in [Phones -> Seq(Nat)]
    PROVE  /\ Chatting(cs) \in SUBSET Phones /\ IsFiniteSet(Chatting(cs))
           /\ Orders(TimeOrder(cs), Chatting(cs))
           /\ \A p \in Chatting(cs) : Last(cs[p]) \in Nat
           /\ \A p, q : <<p, q>> \in TimeOrder(cs) <=>
                 /\ p \in Chatting(cs) /\ q \in Chatting(cs)
                 /\ (Last(cs[p]) > Last(cs[q]) \/ (Last(cs[p]) = Last(cs[q]) /\ p < q))
<1> DEFINE X == Chatting(cs)  R == TimeOrder(cs)  f == [p \in X |-> Last(cs[p])]
<1>1. X \in SUBSET Phones /\ IsFiniteSet(X)
  <2>1. X \in SUBSET Phones
    BY DEF Chatting
  <2> QED
    BY <2>1, PhonesAreOrdered, FS_Subset
<1>2. \A p \in X : Last(cs[p]) \in Nat
  BY LastIs DEF Chatting
<1>3. \A p, q : <<p, q>> \in R <=>
          /\ p \in X /\ q \in X
          /\ (Last(cs[p]) > Last(cs[q]) \/ (Last(cs[p]) = Last(cs[q]) /\ p < q))
  BY DEF TimeOrder
<1>4. \A p \in X : p \in Nat /\ f[p] \in Nat /\ f[p] = Last(cs[p])
  BY <1>1, <1>2, PhonesAreOrdered
<1> HIDE DEF X, f, R
<1>5. \A p, q : <<p, q>> \in R <=> p \in X /\ q \in X /\ (f[p] > f[q] \/ (f[p] = f[q] /\ p < q))
  <2>1. ASSUME NEW p, NEW q
        PROVE  <<p, q>> \in R <=> p \in X /\ q \in X /\ (f[p] > f[q] \/ (f[p] = f[q] /\ p < q))
    <3>1. CASE p \in X /\ q \in X
      <4>1. f[p] = Last(cs[p]) /\ f[q] = Last(cs[q])
        BY <1>4, <3>1
      <4> QED
        BY <1>3, <3>1, <4>1
    <3>2. CASE ~ (p \in X /\ q \in X)
      BY <1>3, <3>2
    <3> QED
      BY <3>1, <3>2
  <2> QED
    BY <2>1
<1>6. Orders(R, X)
  <2>1. \A p \in X : <<p, p>> \notin R
    BY <1>4, <1>5
  <2>2. ASSUME NEW p \in X, NEW q \in X PROVE  <<p, q>> \in R \/ <<q, p>> \in R \/ p = q
    BY <1>4, <1>5
  <2>3. ASSUME NEW p \in X, NEW q \in X, NEW r \in X, <<p, q>> \in R, <<q, r>> \in R
        PROVE  <<p, r>> \in R
    <3>1. p \in Nat /\ q \in Nat /\ r \in Nat /\ f[p] \in Nat /\ f[q] \in Nat /\ f[r] \in Nat
      BY <1>4
    <3>2. (f[p] > f[q] \/ (f[p] = f[q] /\ p < q)) /\ (f[q] > f[r] \/ (f[q] = f[r] /\ q < r))
      BY <1>5, <2>3
    <3>3. f[p] > f[r] \/ (f[p] = f[r] /\ p < r)
      BY <3>1, <3>2
    <3> QED
      BY <1>5, <3>3
  <2> QED
    BY <2>1, <2>2, <2>3 DEF Orders
<1> QED
  BY <1>1, <1>2, <1>3, <1>6 DEF X, R

Once(s) == \A j, k \in DOMAIN s : s[j] = s[k] => j = k

(* A list has its set's members, each once.                                *)
LEMMA ListIs ==
    ASSUME NEW X \in SUBSET Phones, NEW R, Orders(R, X), NEW s, Lists(s, X, R)
    PROVE  s \in Seq(Phones) /\ ToSet(s) = X /\ Once(s)
<1>1. /\ s \in Seq(X) /\ Len(s) \in Nat /\ DOMAIN s = 1 .. Len(s)
      /\ \A k \in 1 .. Len(s) : s[k] \in X
  BY LenProperties DEF Lists
<1>2. s \in Seq(Phones)
  BY <1>1, SeqMonotonic
<1>3. ToSet(s) = X
  BY <1>1 DEF ToSet, Lists
<1>4. ASSUME NEW j \in 1 .. Len(s), NEW k \in 1 .. Len(s), s[j] = s[k] PROVE j = k
  <2>1. j \in Int /\ k \in Int /\ s[j] \in X
    BY <1>1
  <2>2. <<s[j], s[j]>> \notin R
    BY <2>1 DEF Orders
  <2>3. ~ (j < k) /\ ~ (k < j)
    BY <1>4, <2>2 DEF Lists
  <2> QED
    BY <2>1, <2>3
<1> QED
  BY <1>1, <1>2, <1>3, <1>4 DEF Once

(* The list of names that a boot makes, and with one contact less.         *)
LEMMA AlphabeticalIs ==
    ASSUME NEW X \in SUBSET Phones, NEW f, \A p \in X : f[p] \in Nat
    PROVE  LET s == Alphabetical(X, f) IN s \in Seq(Phones) /\ ToSet(s) = X /\ Once(s)
<1>1. Lists(Alphabetical(X, f), X, NameOrder(X, f)) /\ Orders(NameOrder(X, f), X)
  BY NamesOrder, InOrderIs DEF Alphabetical
<1> QED
  BY <1>1, ListIs

(* The list depends on the names of its contacts alone.                    *)
LEMMA AlphabeticalSame ==
    ASSUME NEW X \in SUBSET Phones, NEW f, NEW g, \A x \in X : f[x] \in Nat /\ g[x] = f[x]
    PROVE  Alphabetical(X, g) = Alphabetical(X, f)
<1>1. NameOrder(X, g) = NameOrder(X, f)
  BY DEF NameOrder
<1> QED
  BY <1>1 DEF Alphabetical

(* sorted_array_remove drops the contact from the list that a boot has     *)
(* made.                                                                   *)
LEMMA AlphabeticalLess ==
    ASSUME NEW X \in SUBSET Phones, NEW f, \A x \in X : f[x] \in Nat,
           NEW p, NEW g, \A x \in X \ {p} : g[x] = f[x]
    PROVE  Without(Alphabetical(X, f), p) = Alphabetical(X \ {p}, g)
<1> DEFINE s == Alphabetical(X, f)  Y == X \ {p}  R == NameOrder(X, f)  Q == NameOrder(Y, g)
<1>1. Lists(s, X, R) /\ Orders(R, X)
  BY NamesOrder, InOrderIs DEF Alphabetical
<1>2. IsFiniteSet(Y) /\ Orders(Q, Y)
  BY NamesOrder
<1>3. \A a, b \in Y : <<a, b>> \in R => <<a, b>> \in Q
  <2>1. \A a, b : <<a, b>> \in R => f[a] < f[b] \/ (f[a] = f[b] /\ a < b)
    BY NamesOrder
  <2>2. \A a, b : a \in Y /\ b \in Y /\ (g[a] < g[b] \/ (g[a] = g[b] /\ a < b)) => <<a, b>> \in Q
    BY NamesOrder
  <2> QED
    BY <2>1, <2>2
<1> HIDE DEF s, R, Q
<1>4. Lists(Without(s, p), Y, Q)
  BY <1>1, <1>3, ListLess
<1>5. Without(s, p) = InOrder(Y, Q)
  BY <1>2, <1>4, OneList
<1> QED
  BY <1>5 DEF s, Q, Alphabetical

-----------------------------------------------------------------------------
(* The times of chats: all before t, and no two chats' last ones the same. *)
TimesBefore(cs, t) ==
    /\ \A p \in Phones : \A k \in DOMAIN cs[p] : cs[p][k] < t
    /\ \A p, q \in Chatting(cs) : Last(cs[p]) = Last(cs[q]) => p = q

Chats == [Phones -> Seq(Nat)]

(* A chat that is removed: the others keep their times.                    *)
LEMMA ChatGone ==
    ASSUME NEW cs \in Chats, NEW p \in Phones, NEW t \in Nat, TimesBefore(cs, t), NEW u \in Nat, t <= u,
           NEW ds, ds = [cs EXCEPT ![p] = <<>>]
    PROVE  ds \in Chats /\ TimesBefore(ds, u)
<1>1. ds \in Chats
  BY DEF Chats
<1>2. \A q \in Phones : ds[q] = IF q = p THEN <<>> ELSE cs[q]
  BY DEF Chats
<1>3. \A q \in Phones : \A k \in DOMAIN ds[q] : q # p /\ cs[q][k] < t /\ cs[q][k] \in Nat
  <2> TAKE q \in Phones
  <2> TAKE k \in DOMAIN ds[q]
  <2>1. q # p /\ cs[q] \in Seq(Nat) /\ k \in DOMAIN cs[q]
    BY <1>2 DEF Chats
  <2> QED
    BY <2>1, LenProperties, ElementOfSeq DEF TimesBefore
<1>4. \A q \in Phones : \A k \in DOMAIN ds[q] : ds[q][k] < u
  BY <1>2, <1>3
<1>5. \A a \in Chatting(ds) : a \in Chatting(cs) /\ ds[a] = cs[a]
  BY <1>2 DEF Chatting
<1> QED
  BY <1>1, <1>4, <1>5 DEF TimesBefore

(* The chats with a message of time t more.                                *)
Sent(cs, p, t) == [cs EXCEPT ![p] = Append(cs[p], t)]

(* A message of the next time makes its chat the only one with that last   *)
(* time.                                                                   *)
LEMMA ChatGrows ==
    ASSUME NEW cs \in Chats, NEW p \in Phones, NEW t \in Nat, NEW u \in Nat, t < u,
           NEW ds, ds = Sent(cs, p, t)
    PROVE  /\ ds \in Chats /\ ds[p] # <<>> /\ Last(ds[p]) = t /\ \A q \in Phones \ {p} : ds[q] = cs[q]
           /\ TimesBefore(cs, t) => TimesBefore(ds, u) /\ \A q \in Chatting(cs) : Last(cs[q]) < t
<1>1. cs[p] \in Seq(Nat) /\ Append(cs[p], t) \in Seq(Nat)
  BY DEF Chats
<1>2. ds \in Chats /\ ds[p] = Append(cs[p], t) /\ \A q \in Phones \ {p} : ds[q] = cs[q]
  BY <1>1 DEF Chats, Sent
<1>3. /\ ds[p] # <<>> /\ Last(ds[p]) = t /\ DOMAIN ds[p] = 1 .. Len(cs[p]) + 1 /\ Len(cs[p]) \in Nat
      /\ \A k \in 1 .. Len(cs[p]) : ds[p][k] = cs[p][k]
      /\ ds[p][Len(cs[p]) + 1] = t
  <2>1. Len(cs[p]) \in Nat /\ Len(ds[p]) = Len(cs[p]) + 1 /\ DOMAIN ds[p] = 1 .. Len(ds[p])
    BY <1>1, <1>2, LenProperties
  <2>2. ds[p][Len(ds[p])] = t /\ \A k \in 1 .. Len(cs[p]) : ds[p][k] = cs[p][k]
    BY <1>1, <1>2
  <2>3. ds[p] # <<>>
    BY <2>1
  <2> QED
    BY <2>1, <2>2, <2>3 DEF Last
<1>4. ASSUME TimesBefore(cs, t) PROVE TimesBefore(ds, u) /\ \A q \in Chatting(cs) : Last(cs[q]) < t
  <2>1. \A q \in Phones : \A k \in DOMAIN cs[q] : cs[q][k] < t /\ cs[q][k] \in Nat
    <3> TAKE q \in Phones
    <3> TAKE k \in DOMAIN cs[q]
    <3>1. cs[q] \in Seq(Nat)
      BY DEF Chats
    <3> QED
      BY <1>4, <3>1, LenProperties, ElementOfSeq DEF TimesBefore
  <2>2. ASSUME NEW q \in Phones, NEW k \in DOMAIN ds[q] PROVE ds[q][k] < u
    <3>1. CASE q # p
      BY <1>2, <2>1, <3>1
    <3>2. CASE q = p
      <4>1. CASE k \in 1 .. Len(cs[p])
        <5>1. k \in DOMAIN cs[p]
          BY <1>1, <4>1, LenProperties
        <5> QED
          BY <1>3, <2>1, <3>2, <4>1, <5>1
      <4>2. CASE k = Len(cs[p]) + 1
        BY <1>3, <3>2, <4>2
      <4> QED
        BY <1>3, <3>2, <4>1, <4>2
    <3> QED
      BY <3>1, <3>2
  <2>3. ASSUME NEW q \in Chatting(cs) PROVE Last(cs[q]) < t
    <3>1. cs[q] \in Seq(Nat) /\ cs[q] # <<>> /\ q \in Phones
      BY DEF Chatting, Chats
    <3>2. Last(cs[q]) = cs[q][Len(cs[q])] /\ Len(cs[q]) \in DOMAIN cs[q]
      BY <3>1, LastIs
    <3> QED
      BY <2>1, <3>1, <3>2
  <2>4. ASSUME NEW a \in Chatting(ds), NEW b \in Chatting(ds), Last(ds[a]) = Last(ds[b]) PROVE a = b
    <3>1. \A q \in Chatting(ds) \ {p} : q \in Chatting(cs) /\ Last(ds[q]) = Last(cs[q]) /\ Last(ds[q]) < t
      BY <1>2, <2>3 DEF Chatting
    <3>2. ASSUME NEW q \in Chatting(ds), Last(ds[q]) = t PROVE q = p
      <4>1. ~ (t < t)
        OBVIOUS
      <4> QED
        BY <3>1, <3>2, <4>1
    <3>3. CASE a = p \/ b = p
      <4>1. Last(ds[a]) = t /\ Last(ds[b]) = t
        BY <1>3, <2>4, <3>3
      <4> QED
        BY <3>2, <4>1
    <3>4. CASE a # p /\ b # p
      BY <1>4, <2>4, <3>1, <3>4 DEF TimesBefore
    <3> QED
      BY <3>3, <3>4
  <2> QED
    BY <2>2, <2>3, <2>4 DEF TimesBefore
<1> QED
  BY <1>2, <1>3, <1>4

(* A chat that goes to another number, as it does when a contact is        *)
(* edited.                                                                 *)
LEMMA ChatMoves ==
    ASSUME NEW cs \in Chats, NEW p \in Phones, NEW q \in Phones, q # p => cs[q] = <<>>,
           NEW ds, ds = Moved(cs, p, q, cs[p], <<>>)
    PROVE  /\ ds \in Chats /\ ds[q] = cs[p] /\ (p # q => ds[p] = <<>>)
           /\ \A x \in Phones \ {p, q} : ds[x] = cs[x]
           /\ \A t : TimesBefore(cs, t) => TimesBefore(ds, t)
<1>1. cs[p] \in Seq(Nat)
  BY DEF Chats
<1>2. ds \in Chats /\ ds[q] = cs[p] /\ (p # q => ds[p] = <<>>) /\ \A x \in Phones \ {p, q} : ds[x] = cs[x]
  BY <1>1 DEF Moved, Chats
<1>3. ASSUME NEW t, TimesBefore(cs, t) PROVE TimesBefore(ds, t)
  <2>1. ASSUME NEW x \in Phones, NEW k \in DOMAIN ds[x] PROVE ds[x][k] < t
    <3>1. \E y \in Phones : ds[x] = cs[y]
      BY <1>2
    <3> QED
      BY <1>3, <3>1 DEF TimesBefore
  <2>2. ASSUME NEW a \in Chatting(ds), NEW b \in Chatting(ds), Last(ds[a]) = Last(ds[b]) PROVE a = b
    <3> DEFINE from(x) == IF x = q THEN p ELSE x
    <3>1. \A x \in Chatting(ds) : from(x) \in Chatting(cs) /\ ds[x] = cs[from(x)] /\ (x # q => x # p)
      BY <1>2 DEF Chatting
    <3>2. from(a) = from(b)
      BY <1>3, <2>2, <3>1 DEF TimesBefore
    <3> QED
      BY <3>1, <3>2
  <2> QED
    BY <2>1, <2>2 DEF TimesBefore
<1> QED
  BY <1>2, <1>3

(* The list of chats that a boot makes, and what a call makes of it.       *)
LEMMA LatestIs ==
    ASSUME NEW cs \in Chats
    PROVE  LET s == LatestFirst(cs) IN s \in Seq(Phones) /\ Lists(s, Chatting(cs), TimeOrder(cs))
<1>1. /\ Lists(LatestFirst(cs), Chatting(cs), TimeOrder(cs))
      /\ Orders(TimeOrder(cs), Chatting(cs)) /\ Chatting(cs) \in SUBSET Phones
  BY TimesOrder, InOrderIs DEF LatestFirst, Chats
<1> QED
  BY <1>1, ListIs

(* chat_order_remove: the list without a chat is the list of the other     *)
(* chats.                                                                  *)
LEMMA LatestLess ==
    ASSUME NEW cs \in Chats, NEW p \in Phones, NEW ds, ds = [cs EXCEPT ![p] = <<>>]
    PROVE  Without(LatestFirst(cs), p) = LatestFirst(ds)
<1> DEFINE s == LatestFirst(cs)  X == Chatting(cs)  Y == Chatting(ds)  R == TimeOrder(cs)  Q == TimeOrder(ds)
<1>1. ds \in Chats /\ \A q \in Phones : ds[q] = IF q = p THEN <<>> ELSE cs[q]
  BY DEF Chats
<1>2. Lists(s, X, R) /\ Orders(R, X) /\ IsFiniteSet(Y) /\ Orders(Q, Y)
  BY <1>1, LatestIs, TimesOrder DEF Chats
<1>3. Y = X \ {p} /\ \A q \in Y : ds[q] = cs[q]
  BY <1>1 DEF Chatting
<1>4. \A a, b \in X \ {p} : <<a, b>> \in R => <<a, b>> \in Q
  <2>1. \A a, b : <<a, b>> \in R => Last(cs[a]) > Last(cs[b]) \/ (Last(cs[a]) = Last(cs[b]) /\ a < b)
    BY TimesOrder DEF Chats
  <2>2. \A a, b : a \in Y /\ b \in Y /\ (Last(ds[a]) > Last(ds[b]) \/ (Last(ds[a]) = Last(ds[b]) /\ a < b))
                     => <<a, b>> \in Q
    BY <1>1, TimesOrder DEF Chats
  <2> HIDE DEF R, Q, X, Y
  <2> QED
    BY <1>3, <2>1, <2>2
<1> HIDE DEF s, R, Q, X, Y
<1>5. Lists(Without(s, p), Y, Q)
  BY <1>2, <1>3, <1>4, ListLess
<1>6. Without(s, p) = InOrder(Y, Q)
  BY <1>2, <1>5, OneList
<1> QED
  BY <1>6 DEF s, Y, Q, LatestFirst

(* chat_order_touch: a chat with the latest message comes first.           *)
LEMMA LatestMore ==
    ASSUME NEW cs \in Chats, NEW p \in Phones, NEW t \in Nat, TimesBefore(cs, t),
           NEW ds, ds = Sent(cs, p, t)
    PROVE  <<p>> \o Without(LatestFirst(cs), p) = LatestFirst(ds)
<1> DEFINE s == LatestFirst(cs)  X == Chatting(cs)  Y == Chatting(ds)  R == TimeOrder(cs)  Q == TimeOrder(ds)
<1>1. /\ ds \in Chats /\ ds[p] # <<>> /\ Last(ds[p]) = t /\ \A q \in Phones \ {p} : ds[q] = cs[q]
      /\ \A q \in Chatting(cs) : Last(cs[q]) < t
  <2>1. t + 1 \in Nat /\ t < t + 1
    OBVIOUS
  <2> DEFINE u == t + 1
  <2>2. u \in Nat /\ t < u
    BY <2>1
  <2> HIDE DEF u
  <2>3. /\ ds \in Chats /\ ds[p] # <<>> /\ Last(ds[p]) = t /\ \A q \in Phones \ {p} : ds[q] = cs[q]
        /\ TimesBefore(cs, t) => TimesBefore(ds, u) /\ \A q \in Chatting(cs) : Last(cs[q]) < t
    BY <2>2, ChatGrows
  <2> QED
    BY <2>3
<1>2. Lists(s, X, R) /\ Orders(R, X) /\ IsFiniteSet(Y) /\ Orders(Q, Y) /\ \A a \in X : Last(cs[a]) \in Nat
  BY <1>1, LatestIs, TimesOrder DEF Chats
<1>3. Y = (X \ {p}) \cup {p} /\ \A q \in X \ {p} : ds[q] = cs[q] /\ q \in Y
  BY <1>1 DEF Chatting
<1>4. \A a, b : a \in Y /\ b \in Y /\ (Last(ds[a]) > Last(ds[b]) \/ (Last(ds[a]) = Last(ds[b]) /\ a < b))
                   => <<a, b>> \in Q
  BY <1>1, TimesOrder DEF Chats
<1>5. \A a, b : <<a, b>> \in R => Last(cs[a]) > Last(cs[b]) \/ (Last(cs[a]) = Last(cs[b]) /\ a < b)
  BY TimesOrder DEF Chats
<1>6. \A a \in X : Last(cs[a]) < t
  BY <1>1
<1>7. Last(ds[p]) = t
  BY <1>1
<1> HIDE DEF s, R, Q, X, Y
<1>8. \A a, b \in X \ {p} : <<a, b>> \in R => <<a, b>> \in Q
  BY <1>3, <1>4, <1>5
<1>9. \A a \in X \ {p} : <<p, a>> \in Q
  <2> TAKE a \in X \ {p}
  <2>1. Last(ds[p]) > Last(ds[a]) /\ p \in Y /\ a \in Y
    BY <1>2, <1>3, <1>6, <1>7
  <2> QED
    BY <1>4, <2>1
<1>10. Lists(Without(s, p), X \ {p}, Q)
  BY <1>2, <1>8, ListLess
<1>11. Lists(<<p>> \o Without(s, p), Y, Q)
  BY <1>3, <1>9, <1>10, ListFirst
<1>12. <<p>> \o Without(s, p) = InOrder(Y, Q)
  BY <1>2, <1>11, OneList
<1> QED
  BY <1>12 DEF s, Y, Q, LatestFirst

(* chat_order_replace: the list under the new number is the list of the    *)
(* chats as they now are.                                                  *)
LEMMA LatestMoved ==
    ASSUME NEW cs \in Chats, NEW p \in Phones, NEW q \in Phones, q # p => cs[q] = <<>>,
           NEW t, TimesBefore(cs, t), NEW ds, ds = Moved(cs, p, q, cs[p], <<>>)
    PROVE  LET s == LatestFirst(cs)
           IN  [k \in DOMAIN s |-> IF s[k] = p THEN q ELSE s[k]] = LatestFirst(ds)
<1> DEFINE s == LatestFirst(cs)  X == Chatting(cs)  Y == Chatting(ds)  R == TimeOrder(cs)  Q == TimeOrder(ds)
           f == [x \in X |-> IF x = p THEN q ELSE x]
           u == [k \in DOMAIN s |-> IF s[k] = p THEN q ELSE s[k]]
<1>1. /\ ds \in Chats /\ ds[q] = cs[p] /\ (p # q => ds[p] = <<>>)
      /\ \A x \in Phones \ {p, q} : ds[x] = cs[x]
  BY ChatMoves
<1>2. Lists(s, X, R) /\ IsFiniteSet(Y) /\ Orders(Q, Y) /\ \A a \in X : Last(cs[a]) \in Nat
  BY <1>1, LatestIs, TimesOrder DEF Chats
<1>3. /\ f \in [X -> Y] /\ \A x \in X : ds[f[x]] = cs[x]
      /\ \A y \in Y : \E x \in X : f[x] = y
  <2>1. \A x \in X : f[x] \in Y /\ ds[f[x]] = cs[x]
    BY <1>1 DEF Chatting
  <2>2. ASSUME NEW y \in Y PROVE \E x \in X : f[x] = y
    <3>1. CASE y = q
      <4>1. p \in X
        BY <1>1, <3>1 DEF Chatting
      <4> QED
        BY <3>1, <4>1
    <3>2. CASE y # q
      <4>1. y \in X /\ y # p
        BY <1>1, <3>2 DEF Chatting
      <4> QED
        BY <4>1
    <3> QED
      BY <3>1, <3>2
  <2> QED
    BY <2>1, <2>2
<1>4. \A a, b : a \in Y /\ b \in Y /\ (Last(ds[a]) > Last(ds[b]) \/ (Last(ds[a]) = Last(ds[b]) /\ a < b))
                   => <<a, b>> \in Q
  BY <1>1, TimesOrder DEF Chats
<1>5. \A a, b : <<a, b>> \in R => /\ a \in X /\ b \in X
                                  /\ Last(cs[a]) > Last(cs[b]) \/ (Last(cs[a]) = Last(cs[b]) /\ a < b)
  BY TimesOrder DEF Chats
<1>6. \A a, b \in X : Last(cs[a]) = Last(cs[b]) => a = b
  BY DEF TimesBefore
<1>7. \A a \in X : a \in Nat
  BY PhonesAreOrdered DEF Chatting
<1>8. u = [k \in DOMAIN s |-> f[s[k]]]
  <2>1. s \in Seq(X) /\ DOMAIN s = 1 .. Len(s)
    BY <1>2, LenProperties DEF Lists
  <2>2. \A k \in DOMAIN s : s[k] \in X
    BY <2>1, ElementOfSeq
  <2> HIDE DEF s, X
  <2> QED
    BY <2>2
<1> HIDE DEF s, R, Q, X, Y, f, u
<1>9. ASSUME NEW a \in X, NEW b \in X, <<a, b>> \in R PROVE <<f[a], f[b]>> \in Q
  <2>1. Last(cs[a]) > Last(cs[b])
    BY <1>5, <1>6, <1>7, <1>9
  <2>2. Last(ds[f[a]]) > Last(ds[f[b]]) /\ f[a] \in Y /\ f[b] \in Y
    BY <1>3, <2>1
  <2> QED
    BY <1>4, <2>2
<1>10. Lists(u, Y, Q)
  BY <1>2, <1>3, <1>8, <1>9, ListRenamed
<1>11. u = InOrder(Y, Q)
  BY <1>2, <1>10, OneList
<1> QED
  BY <1>11 DEF s, u, Y, Q, LatestFirst

(* A list that holds nothing twice, with one less, one more, one renamed.  *)
LEMMA OnceLess ==
    ASSUME NEW s \in Seq(Phones), Once(s), NEW p
    PROVE  LET t == Without(s, p) IN t \in Seq(Phones) /\ Once(t) /\ ToSet(t) = ToSet(s) \ {p}
<1> DEFINE X == ToSet(s)  n == Len(s)
           R == {r \in X \X X : \E j, k \in 1 .. n : j < k /\ r = <<s[j], s[k]>>}
           t == Without(s, p)
<1>1. /\ n \in Nat /\ DOMAIN s = 1 .. n /\ \A k \in 1 .. n : s[k] \in X /\ s[k] \in Phones
      /\ X \in SUBSET Phones /\ \A x \in X : \E k \in 1 .. n : s[k] = x
      /\ \A j, k \in 1 .. n : s[j] = s[k] => j = k
  BY LenProperties, ElementOfSeq DEF ToSet, Once
<1>2. s \in Seq(X)
  <2>1. s \in [1 .. n -> X]
    BY <1>1, LenProperties
  <2> HIDE DEF X
  <2> QED
    BY <1>1, <2>1, FunctionIsSeq
<1>3. \A j, k \in 1 .. n : <<s[j], s[k]>> \in R <=> j < k
  <2> TAKE j, k \in 1 .. n
  <2> HIDE DEF n, X
  <2>1. ASSUME <<s[j], s[k]>> \in R PROVE j < k
    <3>1. PICK a, b \in 1 .. n : a < b /\ <<s[j], s[k]>> = <<s[a], s[b]>>
      BY <2>1
    <3>2. a = j /\ b = k
      BY <1>1, <3>1
    <3> QED
      BY <3>1, <3>2
  <2>2. ASSUME j < k PROVE <<s[j], s[k]>> \in R
    BY <1>1, <2>2
  <2> QED
    BY <2>1, <2>2
<1> HIDE DEF X, n, R
<1>4. Lists(s, X, R)
  BY <1>1, <1>2, <1>3 DEF Lists, n
<1>5. Orders(R, X)
  <2>1. \A a \in X : <<a, a>> \notin R
    <3> TAKE a \in X
    <3>1. PICK k \in 1 .. n : s[k] = a
      BY <1>1
    <3>2. ~ (k < k)
      BY <1>1
    <3> QED
      BY <1>3, <3>1, <3>2
  <2>2. ASSUME NEW a \in X, NEW b \in X PROVE <<a, b>> \in R \/ <<b, a>> \in R \/ a = b
    <3>1. PICK j \in 1 .. n : s[j] = a
      BY <1>1
    <3>2. PICK k \in 1 .. n : s[k] = b
      BY <1>1
    <3>3. j < k \/ k < j \/ j = k
      BY <1>1
    <3> QED
      BY <1>3, <3>1, <3>2, <3>3
  <2>3. ASSUME NEW a \in X, NEW b \in X, NEW c \in X, <<a, b>> \in R, <<b, c>> \in R PROVE <<a, c>> \in R
    <3>1. PICK i \in 1 .. n : s[i] = a
      BY <1>1
    <3>2. PICK j \in 1 .. n : s[j] = b
      BY <1>1
    <3>3. PICK k \in 1 .. n : s[k] = c
      BY <1>1
    <3>4. i < j /\ j < k /\ i \in Int /\ j \in Int /\ k \in Int
      BY <1>1, <1>3, <2>3, <3>1, <3>2, <3>3
    <3>5. i < k
      BY <3>4
    <3> QED
      BY <1>3, <3>1, <3>3, <3>5
  <2> QED
    BY <2>1, <2>2, <2>3 DEF Orders
<1>6. Lists(t, X \ {p}, R)
  <2>1. \A a, b \in X \ {p} : <<a, b>> \in R => <<a, b>> \in R
    OBVIOUS
  <2> QED
    BY <1>4, <1>5, <2>1, ListLess DEF t
<1>7. Orders(R, X \ {p}) /\ X \ {p} \in SUBSET Phones
  BY <1>1, <1>5 DEF Orders
<1> HIDE DEF t
<1>8. t \in Seq(Phones) /\ ToSet(t) = X \ {p} /\ Once(t)
  BY <1>6, <1>7, ListIs
<1> QED
  BY <1>8 DEF t, X

LEMMA OnceFirst ==
    ASSUME NEW s \in Seq(Phones), Once(s), NEW p \in Phones, p \notin ToSet(s)
    PROVE  LET t == <<p>> \o s IN t \in Seq(Phones) /\ Once(t) /\ ToSet(t) = ToSet(s) \cup {p}
<1> DEFINE t == <<p>> \o s  n == Len(s)
<1>1. n \in Nat /\ DOMAIN s = 1 .. n /\ (\A k \in 1 .. n : s[k] # p) /\ ToSet(s) = {s[k] : k \in 1 .. n}
  BY LenProperties DEF ToSet
<1>2. /\ t \in Seq(Phones) /\ Len(t) = n + 1 /\ t[1] = p /\ DOMAIN t = 1 .. n + 1
      /\ \A k \in 2 .. n + 1 : k - 1 \in 1 .. n /\ t[k] = s[k - 1]
      /\ \A k \in 1 .. n : k + 1 \in 1 .. n + 1 /\ t[k + 1] = s[k]
  <2>1. <<p>> \in Seq(Phones) /\ Len(<<p>>) = 1 /\ <<p>>[1] = p
    OBVIOUS
  <2>2. /\ t \in Seq(Phones) /\ Len(t) = 1 + n
        /\ \A i \in 1 .. 1 + n : t[i] = IF i <= 1 THEN <<p>>[i] ELSE s[i - 1]
    BY <2>1, ConcatProperties
  <2> HIDE DEF t
  <2>3. DOMAIN t = 1 .. Len(t)
    BY <2>2, LenProperties
  <2> HIDE DEF n
  <2>4. \A k \in 2 .. n + 1 : k - 1 \in 1 .. n /\ k \in 1 .. 1 + n /\ ~ (k <= 1)
    BY <1>1
  <2>5. \A k \in 1 .. n : k + 1 \in 1 .. n + 1 /\ k + 1 \in 1 .. 1 + n /\ ~ (k + 1 <= 1) /\ (k + 1) - 1 = k
    BY <1>1
  <2>6. 1 \in 1 .. 1 + n /\ n + 1 = 1 + n
    BY <1>1
  <2> QED
    BY <2>1, <2>2, <2>3, <2>4, <2>5, <2>6
<1> HIDE DEF t, n
<1>3. ASSUME NEW j \in 1 .. n + 1, NEW k \in 1 .. n + 1, t[j] = t[k] PROVE j = k
  <2>1. j \in Int /\ k \in Int /\ (j = 1 \/ j \in 2 .. n + 1) /\ (k = 1 \/ k \in 2 .. n + 1)
    BY <1>1
  <2>2. CASE j = 1
    BY <1>1, <1>2, <1>3, <2>1, <2>2
  <2>3. CASE k = 1
    BY <1>1, <1>2, <1>3, <2>1, <2>3
  <2>4. CASE j \in 2 .. n + 1 /\ k \in 2 .. n + 1
    <3>1. s[j - 1] = s[k - 1] /\ j - 1 \in 1 .. n /\ k - 1 \in 1 .. n
      BY <1>2, <1>3, <2>4
    <3>2. j - 1 = k - 1
      BY <1>1, <3>1 DEF Once
    <3> QED
      BY <2>1, <3>2
  <2> QED
    BY <2>1, <2>2, <2>3, <2>4
<1>4. ToSet(t) = ToSet(s) \cup {p}
  <2>1. ToSet(t) = {t[k] : k \in 1 .. n + 1}
    BY <1>2 DEF ToSet
  <2>2. 1 \in 1 .. n + 1 /\ \A k \in 1 .. n + 1 : k = 1 \/ k \in 2 .. n + 1
    BY <1>1
  <2> QED
    BY <1>1, <1>2, <2>1, <2>2
<1>5. Once(t)
  BY <1>2, <1>3 DEF Once
<1> QED
  BY <1>2, <1>4, <1>5 DEF t

LEMMA OnceRenamed ==
    ASSUME NEW s \in Seq(Phones), Once(s), NEW p \in Phones, NEW q \in Phones, q = p \/ q \notin ToSet(s)
    PROVE  LET t == [k \in DOMAIN s |-> IF s[k] = p THEN q ELSE s[k]]
           IN  t \in Seq(Phones) /\ Once(t) /\ ToSet(t) \in SUBSET ((ToSet(s) \ {p}) \cup {q})
<1> DEFINE t == [k \in DOMAIN s |-> IF s[k] = p THEN q ELSE s[k]]  n == Len(s)
<1>1. n \in Nat /\ DOMAIN s = 1 .. n /\ \A k \in 1 .. n : s[k] \in Phones /\ s[k] \in ToSet(s)
  BY LenProperties, ElementOfSeq DEF ToSet
<1>2. t \in [1 .. n -> Phones] /\ DOMAIN t = 1 .. n /\ \A k \in 1 .. n : t[k] = IF s[k] = p THEN q ELSE s[k]
  BY <1>1
<1> HIDE DEF t, n
<1>3. t \in Seq(Phones)
  BY <1>1, <1>2, FunctionIsSeq
<1>4. \A j, k \in 1 .. n : t[j] = t[k] => s[j] = s[k]
  BY <1>1, <1>2
<1>5. Once(t)
  BY <1>1, <1>2, <1>4 DEF Once
<1>6. ToSet(t) \in SUBSET ((ToSet(s) \ {p}) \cup {q})
  <2>1. ToSet(t) = {t[k] : k \in 1 .. n}
    BY <1>2 DEF ToSet
  <2> QED
    BY <1>1, <1>2, <2>1
<1> QED
  BY <1>3, <1>5, <1>6 DEF t

-----------------------------------------------------------------------------
(* The values of the variables.                                            *)
Holders == Names \cup {NoContact}
Entries == [phone : Phones, known : BOOLEAN]
Known   == {p \in Phones : IsContact(p)}

(* The types that the proofs use.                                          *)
DataTyped ==
    /\ contacts \in [Phones -> Holders] /\ chats \in Chats
    /\ card \in [contacts : [Phones -> Holders], chats : Chats]
    /\ nameIndex \in Seq(Phones) /\ chatOrder \in Seq(Phones)
    /\ calls \in Seq(Entries)
    /\ clock \in Nat \ {0} /\ lastTime \in Nat

(* The contacts that the name index is to hold.                            *)
Indexed == Known \ unlisted

(* The lists in RAM hold contacts, each once, and what a message has left  *)
(* out is a contact that the name index does not hold.                     *)
Listed ==
    /\ Once(nameIndex) /\ ToSet(nameIndex) \in SUBSET Known
    /\ unlisted \in SUBSET (Known \ ToSet(nameIndex))
    /\ Once(chatOrder) /\ ToSet(chatOrder) \in SUBSET Known

(* A chat of the card is a contact's.                                      *)
Owned == \A p \in Phones : card.chats[p] # <<>> => card.contacts[p] # NoContact

(* Its messages are before the next, and no two chats' last ones are of    *)
(* the same time.                                                          *)
Timed == ~behind => TimesBefore(card.chats, NextTime)

(* RAM holds what the card holds, and its lists are those that a boot      *)
(* would make, but for the contacts that a failed message has left out.    *)
Stored ==
    /\ contacts = card.contacts /\ chats = card.chats
    /\ nameIndex = Alphabetical(Indexed, contacts)
    /\ ~behind => chatOrder = LatestFirst(chats)

(* No write was dropped since the mount: power is "off" from the first     *)
(* dropped write to the next boot.                                         *)
CardInv == mounted /\ power # "off" => Stored

(* The data part of the invariant.                                         *)
DataInv == DataTyped /\ Listed /\ Owned /\ Timed /\ CardInv

(* What no request changes.                                                *)
Kept == UNCHANGED <<clock, mounted, behind>>

(* next_ts goes beyond its last time and beyond the clock.                 *)
LEMMA NextTimeIs == DataTyped => NextTime \in Nat /\ NextTime > lastTime /\ NextTime >= clock
BY DEF DataTyped, NextTime

LEMMA NextTimeIsPrimed ==
    ASSUME DataTyped' PROVE NextTime' \in Nat /\ NextTime' > lastTime' /\ NextTime' >= clock'
<1>1. clock' \in Nat /\ lastTime' \in Nat
  BY DEF DataTyped
<1>2. NextTime' = IF clock' > lastTime' THEN clock' ELSE lastTime' + 1
  BY DEF NextTime
<1>3. ASSUME NEW c \in Nat, NEW l \in Nat, NEW t, t = IF c > l THEN c ELSE l + 1
      PROVE  t \in Nat /\ t > l /\ t >= c
  BY <1>3
<1> QED
  BY <1>1, <1>2, <1>3

(* Times before a moment are before a later one.                           *)
LEMMA TimesLater ==
    ASSUME NEW cs \in Chats, NEW t \in Nat, NEW u \in Nat, t <= u, TimesBefore(cs, t)
    PROVE  TimesBefore(cs, u)
<1>1. ASSUME NEW p \in Phones, NEW k \in DOMAIN cs[p] PROVE cs[p][k] < u
  <2>1. cs[p] \in Seq(Nat) /\ cs[p][k] < t
    BY DEF Chats, TimesBefore
  <2>2. cs[p][k] \in Nat
    BY <2>1, LenProperties, ElementOfSeq
  <2> QED
    BY <2>1, <2>2
<1> QED
  BY <1>1 DEF TimesBefore

(* The contacts of RAM.                                                    *)
LEMMA KnownIs ==
    ASSUME DataTyped
    PROVE  /\ Known \in SUBSET Phones /\ \A p \in Phones : p \in Known <=> contacts[p] # NoContact
           /\ \A p \in Known : contacts[p] \in Nat /\ contacts[p] \in Names
BY NamesAreOrdered DEF DataTyped, Holders, Known, IsContact

LEMMA KnownIsPrimed ==
    ASSUME DataTyped'
    PROVE  /\ Known' \in SUBSET Phones /\ \A p \in Phones : p \in Known' <=> contacts'[p] # NoContact
           /\ \A p \in Known' : contacts'[p] \in Nat /\ contacts'[p] \in Names
BY NamesAreOrdered DEF DataTyped, Holders, Known, IsContact

(* Nothing that the lists tell of has changed, and time goes on.           *)
LEMMA QuietKeeps ==
    ASSUME DataInv, UNCHANGED <<contacts, nameIndex, chats, chatOrder, card, unlisted, mounted, behind>>,
           power' = power \/ power' = "off",
           DataTyped', NextTime' >= NextTime
    PROVE  DataInv'
<1>1. Listed' /\ Owned'
  BY DEF DataInv, Listed, Owned, Known, IsContact
<1>2. Timed'
  <2>1. NextTime \in Nat /\ NextTime' \in Nat
    BY NextTimeIs, NextTimeIsPrimed DEF DataInv
  <2>2. card.chats \in Chats
    BY DEF DataInv, DataTyped
  <2>3. ~behind => TimesBefore(card.chats, NextTime')
    BY <2>1, <2>2, TimesLater DEF DataInv, Timed
  <2> QED
    BY <2>3 DEF Timed
<1>3. CardInv'
  BY DEF DataInv, CardInv, Stored, Indexed, Known, IsContact
<1> QED
  BY <1>1, <1>2, <1>3 DEF DataInv

(* A request whose writes land: what is in RAM is on the card.             *)
LEMMA LandKeeps ==
    ASSUME DataInv, DataTyped', Stored', Once(chatOrder'), unlisted' \in SUBSET Known',
           ToSet(chatOrder') \in SUBSET Known', Owned', Timed'
    PROVE  DataInv'
<1>1. Once(nameIndex') /\ ToSet(nameIndex') = Known' \ unlisted'
  <2>1. nameIndex' = Alphabetical(Indexed', contacts') /\ Indexed' = Known' \ unlisted'
    BY DEF Stored, Indexed
  <2>2. Indexed' \in SUBSET Phones /\ \A x \in Indexed' : contacts'[x] \in Nat
    BY <2>1, KnownIsPrimed
  <2> QED
    BY <2>1, <2>2, AlphabeticalIs
<1> QED
  BY <1>1 DEF DataInv, Listed, CardInv

(* What the name index holds while no write was dropped.                   *)
LEMMA IndexIs ==
    ASSUME DataTyped, Stored
    PROVE  /\ ToSet(nameIndex) = Indexed /\ nameIndex = Alphabetical(Indexed, contacts)
           /\ Indexed \in SUBSET Known /\ Indexed = Known \ unlisted
           /\ Indexed \in SUBSET Phones /\ \A x \in Indexed : contacts[x] \in Nat
<1>1. Indexed = Known \ unlisted /\ Indexed \in SUBSET Phones /\ \A x \in Indexed : contacts[x] \in Nat
  BY KnownIs DEF Indexed
<1>2. nameIndex = Alphabetical(Indexed, contacts)
  BY DEF Stored
<1>3. ToSet(nameIndex) = Indexed
  BY <1>1, <1>2, AlphabeticalIs
<1> QED
  BY <1>1, <1>2, <1>3

(* database_contact_add                                                    *)
LEMMA AddKeeps ==
    ASSUME DataInv, mounted, Kept, UNCHANGED lastTime,
           NEW p, NEW n \in Names, NEW ret, ContactAdd(p, n, ret)
    PROVE  DataInv'
<1>1. DataTyped /\ Listed /\ Owned /\ Timed
  BY DEF DataInv
<1>2. NextTime' = NextTime /\ NextTime' >= NextTime
  BY <1>1, NextTimeIs DEF Kept, NextTime
<1>3. CASE UNCHANGED dbVars
  <2>1. DataTyped'
    BY <1>1, <1>3 DEF DataTyped, Kept, dbVars
  <2> QED
    BY <1>2, <1>3, <2>1, QuietKeeps DEF Kept, dbVars
<1>4. CASE UNCHANGED data /\ Drop
  <2>1. DataTyped'
    BY <1>1, <1>4 DEF DataTyped, Kept, data
  <2> QED
    BY <1>2, <1>4, <2>1, QuietKeeps DEF Kept, data, Drop
<1>5. ASSUME p \in Phones, ~IsContact(p), Land,
             contacts' = [contacts EXCEPT ![p] = n], card' = [card EXCEPT !.contacts[p] = n],
             nameIndex' = Alphabetical(ToSet(nameIndex) \cup {p}, contacts'),
             UNCHANGED <<chats, chatOrder, calls, unlisted>>
      PROVE  DataInv'
  <2>1. Stored
    BY <1>5 DEF DataInv, CardInv, Land
  <2>2. /\ contacts' \in [Phones -> Holders] /\ card' \in [contacts : [Phones -> Holders], chats : Chats]
        /\ card'.contacts = contacts' /\ card'.chats = card.chats
        /\ \A q \in Phones : contacts'[q] = IF q = p THEN n ELSE contacts[q]
    BY <1>1, <1>5, <2>1 DEF DataTyped, Holders, Stored
  <2>3. Known' = Known \cup {p}
    BY <1>5, <2>2, NamesAreOrdered DEF Known, IsContact
  <2>4. /\ ToSet(nameIndex) = Indexed /\ p \notin unlisted /\ unlisted' \in SUBSET Known'
        /\ Indexed' = Indexed \cup {p}
    BY <1>1, <1>5, <2>1, <2>3, IndexIs DEF Listed, Indexed, Known
  <2>5. nameIndex' = Alphabetical(Indexed', contacts')
    BY <1>5, <2>4
  <2>6. nameIndex' \in Seq(Phones)
    <3>1. Indexed' \in SUBSET Phones /\ \A q \in Indexed' : contacts'[q] \in Nat
      BY <1>1, <1>5, <2>1, <2>2, <2>4, IndexIs, NamesAreOrdered
    <3> QED
      BY <2>5, <3>1, AlphabeticalIs
  <2>7. DataTyped'
    BY <1>1, <1>5, <2>2, <2>6 DEF DataTyped, Kept
  <2>8. Stored'
    BY <1>5, <2>1, <2>2, <2>5 DEF Stored, Kept
  <2>9. Once(chatOrder') /\ ToSet(chatOrder') \in SUBSET Known'
    BY <1>1, <1>5, <2>3 DEF Listed
  <2>10. Owned'
    BY <1>1, <2>1, <2>2, NamesAreOrdered DEF Owned, Stored
  <2>11. Timed'
    BY <1>1, <1>2, <2>2 DEF Timed, Kept
  <2> QED
    BY <2>4, <2>7, <2>8, <2>9, <2>10, <2>11, LandKeeps
<1> QED
  BY <1>3, <1>4, <1>5 DEF ContactAdd, Refused

(* database_message_remove_chat                                            *)
LEMMA RemoveChatKeeps ==
    ASSUME DataInv, mounted, Kept, UNCHANGED lastTime,
           NEW p \in Phones, NEW ret, MessageRemoveChat(p, ret)
    PROVE  DataInv'
<1>1. DataTyped /\ Listed /\ Owned /\ Timed
  BY DEF DataInv
<1>2. NextTime' = NextTime /\ NextTime' >= NextTime
  BY <1>1, NextTimeIs DEF Kept, NextTime
<1>3. CASE UNCHANGED dbVars
  <2>1. DataTyped'
    BY <1>1, <1>3 DEF DataTyped, Kept, dbVars
  <2> QED
    BY <1>2, <1>3, <2>1, QuietKeeps DEF Kept, dbVars
<1>4. CASE UNCHANGED data /\ Drop
  <2>1. DataTyped'
    BY <1>1, <1>4 DEF DataTyped, Kept, data
  <2> QED
    BY <1>2, <1>4, <2>1, QuietKeeps DEF Kept, data, Drop
<1>5. ASSUME Land, chats' = [chats EXCEPT ![p] = <<>>], card' = [card EXCEPT !.chats[p] = <<>>],
             chatOrder' = Without(chatOrder, p), UNCHANGED <<contacts, nameIndex, calls, unlisted>>
      PROVE  DataInv'
  <2>1. Stored
    BY <1>5 DEF DataInv, CardInv, Land
  <2>2. /\ chats \in Chats /\ card'.contacts = card.contacts /\ card'.chats = [chats EXCEPT ![p] = <<>>]
        /\ card' \in [contacts : [Phones -> Holders], chats : Chats]
    <3>1. card \in [contacts : [Phones -> Holders], chats : Chats] /\ chats = card.chats
      BY <1>1, <2>1 DEF DataTyped, Stored
    <3>2. [card.chats EXCEPT ![p] = <<>>] \in Chats
      BY <3>1 DEF Chats
    <3> HIDE DEF Chats
    <3> QED
      BY <1>5, <3>1, <3>2
  <2>3. chats' \in Chats /\ chats' = card'.chats /\ \A q \in Phones : chats'[q] = IF q = p THEN <<>> ELSE chats[q]
    BY <1>5, <2>2 DEF Chats
  <2>4. /\ chatOrder' \in Seq(Phones) /\ Once(chatOrder')
        /\ ToSet(chatOrder') = ToSet(chatOrder) \ {p}
    BY <1>1, <1>5, OnceLess DEF DataTyped, Listed
  <2>5. DataTyped'
    BY <1>1, <1>5, <2>2, <2>3, <2>4 DEF DataTyped, Kept
  <2>6. Known' = Known /\ Indexed' = Indexed /\ unlisted' \in SUBSET Known'
    BY <1>1, <1>5 DEF Known, IsContact, Indexed, Listed
  <2>7. ~behind => chatOrder' = LatestFirst(chats')
    BY <1>5, <2>1, <2>2, LatestLess DEF Stored
  <2>8. Stored'
    BY <1>5, <2>1, <2>2, <2>3, <2>6, <2>7 DEF Stored, Kept
  <2>9. ToSet(chatOrder') \in SUBSET Known'
    BY <1>1, <2>4, <2>6 DEF Listed
  <2>10. Owned'
    BY <1>1, <2>1, <2>2, <2>3 DEF Owned, Stored
  <2>11. Timed'
    <3>1. NextTime \in Nat /\ NextTime <= NextTime
      BY <1>1, NextTimeIs
    <3>2. ~behind => TimesBefore(chats', NextTime)
      BY <1>1, <1>5, <2>1, <2>2, <3>1, ChatGone DEF Timed, Stored
    <3> QED
      BY <1>2, <2>3, <3>2 DEF Timed, Kept
  <2> QED
    BY <2>4, <2>5, <2>6, <2>8, <2>9, <2>10, <2>11, LandKeeps
<1> QED
  BY <1>3, <1>4, <1>5 DEF MessageRemoveChat, Refused

(* database_contact_update                                                 *)
LEMMA UpdateKeeps ==
    ASSUME DataInv, mounted, Kept, UNCHANGED lastTime,
           NEW p \in Phones, NEW n \in Names, NEW q, NEW ret, ContactUpdate(p, n, q, ret)
    PROVE  DataInv'
<1>1. DataTyped /\ Listed /\ Owned /\ Timed
  BY DEF DataInv
<1>2. NextTime' = NextTime /\ NextTime' >= NextTime
  BY <1>1, NextTimeIs DEF Kept, NextTime
<1>3. CASE UNCHANGED dbVars
  <2>1. DataTyped'
    BY <1>1, <1>3 DEF DataTyped, Kept, dbVars
  <2> QED
    BY <1>2, <1>3, <2>1, QuietKeeps DEF Kept, dbVars
<1>4. ASSUME IsContact(p), Drop, NEW m \in Names, contacts' \in {contacts, [contacts EXCEPT ![p] = m]},
             UNCHANGED <<nameIndex, chats, chatOrder, calls, card, unlisted>>
      PROVE  DataInv'
  <2>1. contacts' \in [Phones -> Holders] /\ \A x \in Phones : contacts'[x] = contacts[x] \/ (x = p /\ contacts'[x] = m)
    BY <1>1, <1>4 DEF DataTyped, Holders
  <2>2. DataTyped'
    BY <1>1, <1>4, <2>1 DEF DataTyped, Kept
  <2>3. Known' = Known
    BY <1>4, <2>1, NamesAreOrdered DEF Known, IsContact
  <2>4. Listed' /\ Owned' /\ Timed'
    BY <1>1, <1>2, <1>4, <2>3 DEF Listed, Owned, Timed, Kept
  <2>5. CardInv'
    BY <1>4 DEF CardInv, Drop
  <2> QED
    BY <2>2, <2>4, <2>5 DEF DataInv
<1>5. ASSUME q \in Phones, IsContact(p), InIndex(p), q # p => ~IsContact(q), Land,
             contacts' = Moved(contacts, p, q, n, NoContact), chats' = Moved(chats, p, q, chats[p], <<>>),
             card' = [contacts |-> contacts', chats |-> chats'],
             nameIndex' = Alphabetical((ToSet(nameIndex) \ {p}) \cup {q}, contacts'),
             chatOrder' = [k \in DOMAIN chatOrder |-> IF chatOrder[k] = p THEN q ELSE chatOrder[k]],
             UNCHANGED <<calls, unlisted>>
      PROVE  DataInv'
  <2>1. Stored
    BY <1>5 DEF DataInv, CardInv, Land
  <2>2. chats \in Chats /\ (q # p => chats[q] = <<>>)
    BY <1>1, <1>5, <2>1 DEF DataTyped, Owned, Stored, IsContact
  <2>3. /\ chats' \in Chats /\ chats'[q] = chats[p] /\ (p # q => chats'[p] = <<>>)
        /\ \A x \in Phones \ {p, q} : chats'[x] = chats[x]
        /\ \A t : TimesBefore(chats, t) => TimesBefore(chats', t)
    BY <1>5, <2>2, ChatMoves
  <2>4. /\ contacts' \in [Phones -> Holders] /\ contacts'[q] = n /\ (p # q => contacts'[p] = NoContact)
        /\ \A x \in Phones \ {p, q} : contacts'[x] = contacts[x]
    BY <1>1, <1>5 DEF DataTyped, Holders, Moved
  <2>5. card' \in [contacts : [Phones -> Holders], chats : Chats] /\ card'.contacts = contacts' /\ card'.chats = chats'
    BY <1>5, <2>3, <2>4
  <2>6. Known' = (Known \ {p}) \cup {q}
    BY <1>5, <2>4, NamesAreOrdered DEF Known, IsContact
  <2>7. /\ ToSet(nameIndex) = Indexed /\ p \notin unlisted /\ q \notin unlisted
        /\ unlisted' \in SUBSET Known' /\ Indexed' = (Indexed \ {p}) \cup {q}
    <3>1. ToSet(nameIndex) = Indexed /\ Indexed = Known \ unlisted
      BY <1>1, <2>1, IndexIs
    <3>2. p \notin unlisted /\ (q # p => q \notin Known) /\ unlisted \in SUBSET Known
      BY <1>1, <1>5 DEF Listed, InIndex, Known
    <3>3. unlisted' = unlisted /\ Indexed' = Known' \ unlisted'
      BY <1>5 DEF Indexed
    <3> QED
      BY <2>6, <3>1, <3>2, <3>3
  <2>8. nameIndex' = Alphabetical(Indexed', contacts')
    BY <1>5, <2>7
  <2>9. nameIndex' \in Seq(Phones)
    <3>1. Indexed' \in SUBSET Phones /\ \A x \in Indexed' : contacts'[x] \in Nat
      BY <1>1, <1>5, <2>1, <2>4, <2>7, IndexIs, NamesAreOrdered
    <3> QED
      BY <2>8, <3>1, AlphabeticalIs
  <2>10. q = p \/ q \notin ToSet(chatOrder)
    BY <1>1, <1>5 DEF Listed, Known
  <2>11. /\ chatOrder' \in Seq(Phones) /\ Once(chatOrder')
         /\ ToSet(chatOrder') \in SUBSET ((ToSet(chatOrder) \ {p}) \cup {q})
    BY <1>1, <1>5, <2>10, OnceRenamed DEF DataTyped, Listed
  <2>12. DataTyped'
    BY <1>1, <1>5, <2>3, <2>4, <2>5, <2>9, <2>11 DEF DataTyped, Kept
  <2>13. ~behind => chatOrder' = LatestFirst(chats')
    <3>1. ASSUME ~behind PROVE chatOrder' = LatestFirst(chats')
      <4>1. TimesBefore(chats, NextTime) /\ chatOrder = LatestFirst(chats)
        BY <1>1, <2>1, <3>1 DEF Timed, Stored
      <4> QED
        BY <1>5, <2>2, <4>1, LatestMoved
    <3> QED
      BY <3>1
  <2>14. Stored'
    BY <2>5, <2>8, <2>13 DEF Stored, Kept
  <2>15. ToSet(chatOrder') \in SUBSET Known'
    BY <1>1, <2>6, <2>11 DEF Listed
  <2>16. Owned'
    <3>1. \A x \in Phones : chats[x] # <<>> => contacts[x] # NoContact
      BY <1>1, <2>1 DEF Owned, Stored
    <3> QED
      BY <1>5, <2>3, <2>4, <2>5, <3>1, NamesAreOrdered DEF Owned
  <2>17. Timed'
    BY <1>1, <1>2, <2>1, <2>3, <2>5 DEF Timed, Kept, Stored
  <2> QED
    BY <2>7, <2>11, <2>12, <2>14, <2>15, <2>16, <2>17, LandKeeps
<1>6. CASE q \in Phones /\ IsContact(p) /\ Drop
           /\ contacts' \in {contacts, [contacts EXCEPT ![p] = IF p = q /\ power = "counting" THEN n ELSE @]}
           /\ UNCHANGED <<nameIndex, chats, chatOrder, calls, card, unlisted>>
  <2>1. contacts[p] \in Names /\ contacts = [contacts EXCEPT ![p] = contacts[p]]
    BY <1>1, <1>6 DEF DataTyped, Holders, IsContact
  <2>2. CASE p = q /\ power = "counting"
    <3>1. contacts' \in {contacts, [contacts EXCEPT ![p] = n]}
      BY <1>6, <2>2
    <3> QED
      BY <1>4, <1>6, <3>1
  <2>3. CASE ~ (p = q /\ power = "counting")
    <3>1. contacts' \in {contacts, [contacts EXCEPT ![p] = contacts[p]]}
      BY <1>6, <2>1, <2>3
    <3> QED
      BY <1>4, <1>6, <2>1, <3>1
  <2> QED
    BY <2>2, <2>3
<1> QED
  BY <1>3, <1>5, <1>6 DEF ContactUpdate, NotFound, Refused

(* database_contact_remove                                                 *)
LEMMA RemoveKeeps ==
    ASSUME DataInv, mounted, Kept, UNCHANGED lastTime,
           NEW p \in Phones, NEW ret, ContactRemove(p, ret)
    PROVE  DataInv'
<1>1. DataTyped /\ Listed /\ Owned /\ Timed
  BY DEF DataInv
<1>2. NextTime \in Nat /\ NextTime' = NextTime /\ NextTime' >= NextTime
  BY <1>1, NextTimeIs DEF Kept, NextTime
<1>3. CASE UNCHANGED dbVars
  <2>1. DataTyped'
    BY <1>1, <1>3 DEF DataTyped, Kept, dbVars
  <2> QED
    BY <1>2, <1>3, <2>1, QuietKeeps DEF Kept, dbVars
<1>4. ASSUME chats' = [chats EXCEPT ![p] = <<>>], Drop, UNCHANGED <<contacts, nameIndex, chatOrder, calls, unlisted>>,
             card' = card \/ card' = [card EXCEPT !.chats[p] = <<>>]
      PROVE  DataInv'
  <2>1. chats' \in Chats
    BY <1>1, <1>4 DEF DataTyped, Chats
  <2>2. /\ card' \in [contacts : [Phones -> Holders], chats : Chats] /\ card'.contacts = card.contacts
        /\ card'.chats = card.chats \/ card'.chats = [card.chats EXCEPT ![p] = <<>>]
    <3>1. card \in [contacts : [Phones -> Holders], chats : Chats]
      BY <1>1 DEF DataTyped
    <3>2. [card.chats EXCEPT ![p] = <<>>] \in Chats
      BY <3>1 DEF Chats
    <3> HIDE DEF Chats
    <3> QED
      BY <1>4, <3>1, <3>2
  <2>3. DataTyped'
    BY <1>1, <1>4, <2>1, <2>2 DEF DataTyped, Kept
  <2>4. Listed'
    BY <1>1, <1>4 DEF Listed, Known, IsContact
  <2>5. Owned'
    <3>1. card.chats \in Chats
      BY <1>1 DEF DataTyped
    <3>2. \A x \in Phones : card'.chats[x] = card.chats[x] \/ card'.chats[x] = <<>>
      BY <2>2, <3>1 DEF Chats
    <3> QED
      BY <1>1, <2>2, <3>2 DEF Owned
  <2>6. Timed'
    <3>1. card.chats \in Chats /\ NextTime <= NextTime
      BY <1>1, <1>2 DEF DataTyped
    <3>2. ~behind => TimesBefore(card.chats, NextTime)
      BY <1>1 DEF Timed
    <3>3. ~behind => TimesBefore(card'.chats, NextTime)
      BY <1>2, <2>2, <3>1, <3>2, ChatGone
    <3> QED
      BY <1>2, <3>3 DEF Timed, Kept
  <2>7. CardInv'
    BY <1>4 DEF CardInv, Drop
  <2> QED
    BY <2>3, <2>4, <2>5, <2>6, <2>7 DEF DataInv
<1>5. ASSUME IsContact(p), InIndex(p), Land, chats' = [chats EXCEPT ![p] = <<>>], UNCHANGED <<calls, unlisted>>,
             contacts' = [contacts EXCEPT ![p] = NoContact], card' = [contacts |-> contacts', chats |-> chats'],
             nameIndex' = Without(nameIndex, p), chatOrder' = Without(chatOrder, p)
      PROVE  DataInv'
  <2>1. Stored
    BY <1>5 DEF DataInv, CardInv, Land
  <2>2. /\ chats \in Chats /\ chats' \in Chats /\ \A x \in Phones : chats'[x] = IF x = p THEN <<>> ELSE chats[x]
    BY <1>1, <1>5 DEF DataTyped, Chats
  <2>3. /\ contacts' \in [Phones -> Holders]
        /\ \A x \in Phones : contacts'[x] = IF x = p THEN NoContact ELSE contacts[x]
    BY <1>1, <1>5 DEF DataTyped, Holders
  <2>4. card' \in [contacts : [Phones -> Holders], chats : Chats] /\ card'.contacts = contacts' /\ card'.chats = chats'
    BY <1>5, <2>2, <2>3
  <2>5. Known' = Known \ {p}
    BY <2>3 DEF Known, IsContact
  <2>6. /\ nameIndex' \in Seq(Phones) /\ chatOrder' \in Seq(Phones) /\ Once(chatOrder')
        /\ ToSet(chatOrder') = ToSet(chatOrder) \ {p}
    BY <1>1, <1>5, OnceLess DEF DataTyped, Listed
  <2>7. DataTyped'
    BY <1>1, <1>5, <2>2, <2>3, <2>4, <2>6 DEF DataTyped, Kept
  <2>8. nameIndex' = Alphabetical(Indexed', contacts') /\ unlisted' \in SUBSET Known'
    <3>1. Indexed \in SUBSET Phones /\ (\A x \in Indexed : contacts[x] \in Nat)
          /\ \A x \in Indexed \ {p} : contacts'[x] = contacts[x]
      BY <1>1, <2>1, <2>3, IndexIs
    <3>2. Without(Alphabetical(Indexed, contacts), p) = Alphabetical(Indexed \ {p}, contacts')
      BY <3>1, AlphabeticalLess
    <3>3. p \notin unlisted /\ unlisted \in SUBSET Known
      BY <1>1, <1>5 DEF Listed, InIndex
    <3>4. Indexed' = Indexed \ {p}
      BY <1>5, <2>5 DEF Indexed
    <3> QED
      BY <1>5, <2>1, <2>5, <3>2, <3>3, <3>4 DEF Stored
  <2>9. ~behind => chatOrder' = LatestFirst(chats')
    BY <1>5, <2>1, <2>2, LatestLess DEF Stored
  <2>10. Stored'
    BY <2>4, <2>8, <2>9 DEF Stored, Kept
  <2>11. ToSet(chatOrder') \in SUBSET Known'
    BY <1>1, <2>5, <2>6 DEF Listed
  <2>12. Owned'
    BY <1>1, <2>1, <2>2, <2>3, <2>4 DEF Owned, Stored
  <2>13. Timed'
    <3>1. NextTime <= NextTime
      BY <1>2
    <3>2. ~behind => TimesBefore(chats', NextTime)
      BY <1>1, <1>2, <1>5, <2>1, <2>2, <3>1, ChatGone DEF Timed, Stored
    <3> QED
      BY <1>2, <2>4, <3>2 DEF Timed, Kept
  <2> QED
    BY <2>6, <2>7, <2>8, <2>10, <2>11, <2>12, <2>13, LandKeeps
<1>6. ASSUME card' \in {card, [card EXCEPT !.chats[p] = IF power = "counting" THEN <<>> ELSE @]}
      PROVE  card' = card \/ card' = [card EXCEPT !.chats[p] = <<>>]
  <2>1. card \in [contacts : [Phones -> Holders], chats : Chats]
    BY <1>1 DEF DataTyped
  <2>2. [card EXCEPT !.chats[p] = card.chats[p]] = card
    <3>1. [card.chats EXCEPT ![p] = card.chats[p]] = card.chats
      BY <2>1 DEF Chats
    <3> HIDE DEF Chats
    <3> QED
      BY <2>1, <3>1
  <2> QED
    BY <1>6, <2>2
<1> QED
  BY <1>3, <1>4, <1>5, <1>6 DEF ContactRemove, NotFound, Refused

(* A message that is written, with the next time.                          *)
LEMMA WrittenKeeps ==
    ASSUME DataInv, Stored, Kept, NEW p \in Phones, Written(p, NextTime), lastTime' = NextTime
    PROVE  DataInv'
<1> DEFINE t == NextTime  u == NextTime'
<1>1. DataTyped /\ Listed /\ Owned /\ Timed
  BY DEF DataInv
<1>2. t \in Nat /\ t >= clock /\ clock' = clock /\ clock \in Nat
  BY <1>1, NextTimeIs DEF Kept, DataTyped
<1>3. u \in Nat /\ t < u
  <2>1. u = IF clock' > lastTime' THEN clock' ELSE lastTime' + 1
    BY DEF NextTime
  <2> HIDE DEF t, u
  <2>2. lastTime' = t
    BY DEF t
  <2> QED
    BY <1>2, <2>1, <2>2
<1> HIDE DEF t, u
<1>4. /\ chats' = Sent(chats, p, t) /\ contacts' = [contacts EXCEPT ![p] = IF IsContact(p) THEN contacts[p] ELSE Unnamed]
      /\ card' = [card EXCEPT !.chats[p] = Append(card.chats[p], t), !.contacts[p] = contacts'[p]]
      /\ nameIndex' = IF IsContact(p) THEN nameIndex ELSE Alphabetical(ToSet(nameIndex) \cup {p}, contacts')
      /\ chatOrder' = <<p>> \o Without(chatOrder, p) /\ UNCHANGED <<calls, unlisted>>
  BY DEF Written, Sent, t
<1>5. /\ contacts' \in [Phones -> Holders]
      /\ \A x \in Phones : contacts'[x] = IF x = p /\ ~IsContact(p) THEN Unnamed ELSE contacts[x]
      /\ IsContact(p) => contacts' = contacts
  BY <1>1, <1>4, NamesAreOrdered DEF DataTyped, Holders
<1>6. Known' = Known \cup {p}
  BY <1>5, NamesAreOrdered DEF Known, IsContact
<1>7. chats \in Chats /\ card.chats = chats /\ card.contacts = contacts
  BY <1>1 DEF DataTyped, Stored
<1>8. /\ chats' \in Chats /\ (\A x \in Phones \ {p} : chats'[x] = chats[x])
      /\ TimesBefore(chats, t) => TimesBefore(chats', u)
  BY <1>2, <1>3, <1>4, <1>7, ChatGrows
<1>9. /\ card' \in [contacts : [Phones -> Holders], chats : Chats] /\ card'.contacts = contacts'
      /\ card'.chats = chats'
  <2>1. card \in [contacts : [Phones -> Holders], chats : Chats]
    BY <1>1 DEF DataTyped
  <2>2. [card.chats EXCEPT ![p] = Append(card.chats[p], t)] = chats'
    BY <1>4, <1>7 DEF Sent
  <2>3. [card.contacts EXCEPT ![p] = contacts'[p]] = contacts'
    BY <1>1, <1>5, <1>7 DEF DataTyped
  <2>4. card' = [card EXCEPT !.chats = [card.chats EXCEPT ![p] = Append(card.chats[p], t)],
                             !.contacts = [card.contacts EXCEPT ![p] = contacts'[p]]]
    BY <1>4
  <2>5. card' = [card EXCEPT !.chats = chats', !.contacts = contacts']
    BY <2>2, <2>3, <2>4
  <2> HIDE DEF Chats
  <2> QED
    BY <1>5, <1>8, <2>1, <2>5
<1>10. nameIndex' = Alphabetical(Indexed', contacts') /\ unlisted' \in SUBSET Known'
  <2>1. ToSet(nameIndex) = Indexed /\ nameIndex = Alphabetical(Indexed, contacts) /\ Indexed = Known \ unlisted
    BY <1>1, IndexIs
  <2>2. Indexed' = Known' \ unlisted /\ unlisted' = unlisted /\ unlisted \in SUBSET Known
    BY <1>1, <1>4 DEF Indexed, Listed
  <2>3. CASE IsContact(p)
    <3>1. Known' = Known
      BY <1>6, <2>3 DEF Known
    <3> QED
      BY <1>4, <1>5, <2>1, <2>2, <2>3, <3>1
  <2>4. CASE ~IsContact(p)
    <3>1. p \notin Known
      BY <2>4 DEF Known
    <3>2. Indexed' = Indexed \cup {p}
      BY <1>6, <2>1, <2>2, <3>1
    <3> QED
      BY <1>4, <1>6, <2>1, <2>2, <2>4, <3>2
  <2> QED
    BY <2>3, <2>4
<1>11. nameIndex' \in Seq(Phones)
  <2>1. Indexed' \in SUBSET Phones
    BY DEF Indexed, Known
  <2>2. \A x \in Indexed' : contacts'[x] \in Nat
    BY <1>5, NamesAreOrdered DEF Indexed, Known, IsContact, Holders
  <2> QED
    BY <1>10, <2>1, <2>2, AlphabeticalIs
<1>12. /\ chatOrder' \in Seq(Phones) /\ Once(chatOrder')
       /\ ToSet(chatOrder') \in SUBSET Known'
  <2> DEFINE s == Without(chatOrder, p)
  <2>1. s \in Seq(Phones) /\ Once(s) /\ ToSet(s) = ToSet(chatOrder) \ {p}
    BY <1>1, OnceLess DEF DataTyped, Listed
  <2>2. chatOrder' = <<p>> \o s
    BY <1>4
  <2> HIDE DEF s
  <2>3. chatOrder' \in Seq(Phones) /\ Once(chatOrder') /\ ToSet(chatOrder') = ToSet(s) \cup {p}
    BY <2>1, <2>2, OnceFirst
  <2> QED
    BY <1>1, <1>6, <2>1, <2>3 DEF Listed
<1>13. DataTyped'
  BY <1>1, <1>2, <1>4, <1>5, <1>8, <1>9, <1>11, <1>12 DEF DataTyped, Kept, t
<1>14. ASSUME ~behind PROVE chatOrder' = LatestFirst(chats') /\ TimesBefore(chats', u)
  <2>1. chatOrder = LatestFirst(chats) /\ TimesBefore(chats, t)
    BY <1>1, <1>7, <1>14 DEF Stored, Timed, t
  <2>2. <<p>> \o Without(LatestFirst(chats), p) = LatestFirst(chats')
    BY <1>2, <1>4, <1>7, <2>1, LatestMore
  <2> QED
    BY <1>4, <1>8, <2>1, <2>2
<1>15. Stored'
  BY <1>9, <1>10, <1>14 DEF Stored, Kept
<1>16. Owned'
  <2>1. \A x \in Phones : chats[x] # <<>> => contacts[x] # NoContact
    BY <1>1, <1>7 DEF Owned
  <2> QED
    BY <1>5, <1>8, <1>9, <2>1, NamesAreOrdered DEF Owned, IsContact
<1>17. Timed'
  BY <1>9, <1>14 DEF Timed, Kept, u
<1> QED
  BY <1>10, <1>12, <1>13, <1>15, <1>16, <1>17, LandKeeps

(* send_message, database_message_add                                      *)
LEMMA SendKeeps ==
    ASSUME DataInv, mounted, Kept, NEW p, NEW ret, SendMessage(p, ret)
    PROVE  DataInv'
<1>1. DataTyped /\ Listed /\ Owned /\ Timed
  BY DEF DataInv
<1>2. lastTime' = NextTime /\ NextTime \in Nat /\ MessageAdd(p, NextTime, ret)
  BY <1>1, NextTimeIs DEF SendMessage
<1>3. ASSUME DataTyped' PROVE NextTime' >= NextTime
  <2>1. NextTime' > lastTime' /\ NextTime' \in Nat
    BY <1>3, NextTimeIsPrimed
  <2> QED
    BY <1>2, <2>1
<1>4. CASE UNCHANGED dbVars
  <2>1. DataTyped'
    BY <1>1, <1>2, <1>4 DEF DataTyped, Kept, dbVars
  <2> QED
    BY <1>3, <1>4, <2>1, QuietKeeps DEF Kept, dbVars
<1>5. CASE UNCHANGED data /\ Drop
  <2>1. DataTyped'
    BY <1>1, <1>2, <1>5 DEF DataTyped, Kept, data
  <2> QED
    BY <1>3, <1>5, <2>1, QuietKeeps DEF Kept, data, Drop
<1>6. CASE p \in Phones /\ power # "off" /\ Written(p, NextTime)
  <2>1. Stored
    BY <1>6 DEF DataInv, CardInv
  <2> QED
    BY <1>2, <1>6, <2>1, WrittenKeeps
<1>7. CASE p \in Phones /\ (Land \/ Drop) /\ OnlyContact(p)
  <2> USE DEF OnlyContact
  <2>1. /\ contacts' \in [Phones -> Holders] /\ card' \in [contacts : [Phones -> Holders], chats : Chats]
        /\ card'.chats = card.chats
        /\ \A x \in Phones : contacts'[x] = IF x = p THEN Unnamed ELSE contacts[x]
        /\ \A x \in Phones : card'.contacts[x] = IF x = p THEN Unnamed ELSE card.contacts[x]
    BY <1>1, <1>7, NamesAreOrdered DEF DataTyped, Holders
  <2>2. DataTyped'
    BY <1>1, <1>2, <1>7, <2>1 DEF DataTyped, Kept
  <2>3. Known' = Known \cup {p}
    BY <1>7, <2>1, NamesAreOrdered DEF Known, IsContact
  <2>4. Listed' /\ Owned'
    <3>1. p \notin Known /\ p \notin ToSet(nameIndex)
      BY <1>1, <1>7 DEF Listed, Known
    <3> QED
      BY <1>1, <1>7, <2>1, <2>3, <3>1, NamesAreOrdered DEF Listed, Owned
  <2>5. Timed'
    <3>1. NextTime' \in Nat /\ NextTime <= NextTime' /\ card.chats \in Chats
      BY <1>1, <1>2, <1>3, <2>2, NextTimeIsPrimed DEF DataTyped
    <3>2. ~behind => TimesBefore(card.chats, NextTime')
      BY <1>1, <1>2, <3>1, TimesLater DEF Timed
    <3> QED
      BY <2>1, <3>2 DEF Timed, Kept
  <2>6. CardInv'
    <3>1. CASE Drop
      BY <3>1 DEF CardInv, Drop
    <3>2. CASE Land /\ mounted /\ power # "off"
      <4>1. Stored
        BY <3>2 DEF DataInv, CardInv
      <4>2. contacts' = card'.contacts /\ chats' = card'.chats
        BY <1>1, <1>7, <2>1, <4>1 DEF DataTyped, Stored
      <4>3. Indexed' = Indexed /\ p \notin Indexed
        <5>1. p \notin Known
          BY <1>7 DEF Known
        <5> QED
          BY <1>7, <2>3, <5>1 DEF Indexed
      <4>4. nameIndex = Alphabetical(Indexed, contacts)
        BY <4>1 DEF Stored
      <4>5. Alphabetical(Indexed, contacts') = Alphabetical(Indexed, contacts)
        <5>1. Indexed \in SUBSET Phones /\ \A x \in Indexed : contacts[x] \in Nat /\ contacts'[x] = contacts[x]
          BY <1>1, <2>1, <4>1, <4>3, IndexIs
        <5> QED
          BY <5>1, AlphabeticalSame
      <4>6. Stored'
        BY <1>7, <4>1, <4>2, <4>3, <4>4, <4>5 DEF Stored, Kept
      <4> QED
        BY <4>6 DEF CardInv
    <3> QED
      BY <1>7, <3>1, <3>2 DEF Land
  <2> QED
    BY <2>2, <2>4, <2>5, <2>6 DEF DataInv
<1>8. CASE /\ p \in Phones /\ Drop /\ chats' = [chats EXCEPT ![p] = Append(@, NextTime)]
           /\ UNCHANGED <<contacts, nameIndex, chatOrder, calls, card, unlisted>>
  <2>1. chats' \in Chats
    <3>1. chats \in Chats /\ chats' = [chats EXCEPT ![p] = Append(chats[p], NextTime)]
      BY <1>1, <1>8 DEF DataTyped
    <3>2. Append(chats[p], NextTime) \in Seq(Nat)
      BY <1>2, <1>8, <3>1, AppendProperties DEF Chats
    <3> QED
      BY <3>1, <3>2 DEF Chats
  <2>2. DataTyped'
    BY <1>1, <1>2, <1>8, <2>1 DEF DataTyped, Kept
  <2>3. Listed' /\ Owned'
    BY <1>1, <1>8 DEF Listed, Owned, Known, IsContact
  <2>4. Timed'
    <3>1. NextTime' \in Nat /\ NextTime <= NextTime' /\ card.chats \in Chats
      BY <1>1, <1>2, <1>3, <2>2, NextTimeIsPrimed DEF DataTyped
    <3>2. ~behind => TimesBefore(card.chats, NextTime')
      BY <1>1, <1>2, <3>1, TimesLater DEF Timed
    <3> QED
      BY <1>8, <3>2 DEF Timed, Kept
  <2>5. CardInv'
    BY <1>8 DEF CardInv, Drop
  <2> QED
    BY <2>2, <2>3, <2>4, <2>5 DEF DataInv
<1>9. \/ UNCHANGED dbVars
      \/ UNCHANGED data /\ Drop
      \/ p \in Phones /\ power # "off" /\ Written(p, NextTime)
      \/ UNCHANGED data /\ UNCHANGED power
      \/ p \in Phones /\ (Land \/ Drop) /\ OnlyContact(p)
      \/ /\ p \in Phones /\ Drop /\ chats' = [chats EXCEPT ![p] = Append(@, NextTime)]
         /\ UNCHANGED <<contacts, nameIndex, chatOrder, calls, card, unlisted>>
  <2>1. UNCHANGED power <=> power' = power
    OBVIOUS
  <2> QED
    BY <1>2, <2>1 DEF MessageAdd, Refused, Land
<1>10. UNCHANGED data /\ UNCHANGED power => UNCHANGED dbVars
  BY DEF data, dbVars
<1> QED
  BY <1>4, <1>5, <1>6, <1>7, <1>8, <1>9, <1>10

(* database_call_add                                                       *)
LEMMA CallKeeps ==
    ASSUME DataInv, mounted, Kept, UNCHANGED lastTime, NEW p, NEW ret, CallAdd(p, ret)
    PROVE  DataInv'
<1>1. DataTyped
  BY DEF DataInv
<1>2. NextTime' = NextTime /\ NextTime' >= NextTime
  BY <1>1, NextTimeIs DEF Kept, NextTime
<1>3. UNCHANGED <<contacts, nameIndex, chats, chatOrder, card, unlisted>> /\ (power' = power \/ power' = "off")
  BY DEF CallAdd, Refused, Land, Drop, dbVars, data
<1>4. calls' \in Seq(Entries)
  <2>1. CASE UNCHANGED calls
    BY <1>1, <2>1 DEF DataTyped
  <2>2. CASE p \in Phones /\ \E m : /\ m = IF Len(<<Call(p)>> \o calls) < CallsKept THEN Len(<<Call(p)>> \o calls) ELSE CallsKept
                                    /\ calls' = SubSeq(<<Call(p)>> \o calls, 1, m)
    <3> DEFINE all == <<Call(p)>> \o calls
    <3>1. PICK m : m = (IF Len(all) < CallsKept THEN Len(all) ELSE CallsKept) /\ calls' = SubSeq(all, 1, m)
      BY <2>2
    <3>2. calls \in Seq(Entries) /\ Call(p) \in Entries
      BY <1>1, <2>2 DEF DataTyped, Call, Entries, IsContact
    <3>3. <<Call(p)>> \in Seq(Entries)
      BY <3>2
    <3>4. all \in Seq(Entries) /\ Len(all) \in Nat
      BY <3>2, <3>3, ConcatProperties, LenProperties
    <3> HIDE DEF all
    <3>5. m \in Int /\ m <= Len(all)
      BY <3>1, <3>4, CallsAreKept
    <3>6. \A k \in 1 .. m : all[k] \in Entries
      BY <3>4, <3>5, ElementOfSeq
    <3> QED
      BY <3>1, <3>4, <3>5, <3>6, SubSeqProperties
  <2> QED
    BY <2>1, <2>2 DEF CallAdd, Refused, dbVars, data
<1>5. DataTyped'
  BY <1>1, <1>3, <1>4 DEF DataTyped, Kept
<1> QED
  BY <1>2, <1>3, <1>5, QuietKeeps DEF Kept

(* boot reads the card and makes the lists anew, or leaves RAM alone when  *)
(* the superheader is bad.                                                 *)
LEMMA BootKeeps ==
    ASSUME DataInv, Booted(header), IF header = "bad" THEN UNCHANGED data ELSE Mounted,
           clock' = clock, lastTime' \in Nat, ~behind' => TimesBefore(card.chats, NextTime')
    PROVE  DataInv'
<1>1. DataTyped /\ Listed /\ Owned /\ Timed
  BY DEF DataInv
<1>2. Timed'
  BY DEF Timed, data, Mounted
<1>3. CASE header = "bad"
  <2>1. UNCHANGED <<contacts, nameIndex, chats, chatOrder, calls, card, unlisted>> /\ ~mounted'
    BY <1>3 DEF data, Booted
  <2>2. DataTyped' /\ Listed' /\ Owned' /\ CardInv'
    BY <1>1, <2>1 DEF DataTyped, Listed, Owned, CardInv, Known, IsContact
  <2> QED
    BY <1>2, <2>2 DEF DataInv
<1>4. CASE header # "bad"
  <2>1. /\ contacts' = card.contacts /\ chats' = card.chats
        /\ nameIndex' = Alphabetical({p \in Phones : card.contacts[p] # NoContact}, card.contacts)
        /\ chatOrder' = LatestFirst(card.chats)
        /\ unlisted' = {} /\ UNCHANGED <<calls, card>>
    BY <1>4 DEF Mounted
  <2>2. card.contacts \in [Phones -> Holders] /\ card.chats \in Chats
    BY <1>1 DEF DataTyped
  <2>3. Known' = {p \in Phones : card.contacts[p] # NoContact} /\ Known' \in SUBSET Phones
    BY <2>1 DEF Known, IsContact
  <2>4. nameIndex' = Alphabetical(Known', contacts') /\ Indexed' = Known'
    BY <2>1, <2>3 DEF Indexed
  <2>5. \A x \in Known' : contacts'[x] \in Nat
    BY <2>1, <2>2, <2>3, NamesAreOrdered DEF Holders
  <2>6. nameIndex' \in Seq(Phones) /\ Once(nameIndex') /\ ToSet(nameIndex') = Known'
    BY <2>3, <2>4, <2>5, AlphabeticalIs
  <2>7. chatOrder' \in Seq(Phones) /\ Once(chatOrder') /\ ToSet(chatOrder') = Chatting(card.chats)
    <3>1. /\ Lists(chatOrder', Chatting(card.chats), TimeOrder(card.chats))
          /\ Orders(TimeOrder(card.chats), Chatting(card.chats)) /\ Chatting(card.chats) \in SUBSET Phones
      BY <2>1, <2>2, LatestIs, TimesOrder DEF Chats
    <3> QED
      BY <3>1, ListIs
  <2>8. Chatting(card.chats) \in SUBSET Known'
    BY <1>1, <2>3 DEF Chatting, Owned
  <2>9. DataTyped'
    BY <1>1, <2>1, <2>2, <2>6, <2>7 DEF DataTyped
  <2>10. Listed' /\ Owned' /\ Stored'
    BY <1>1, <2>1, <2>4, <2>6, <2>7, <2>8 DEF Listed, Owned, Stored
  <2> QED
    BY <1>2, <2>9, <2>10 DEF DataInv, CardInv
<1> QED
  BY <1>3, <1>4

(* cmd_reboot, and main in another process                                 *)
LEMMA RebootKeeps == ASSUME DataInv, Reboot PROVE DataInv'
<1>1. NextTime' = NextTime /\ clock' = clock /\ lastTime' = lastTime /\ behind' = behind
  BY DEF Reboot, uiVars, NextTime
<1>2. lastTime \in Nat /\ Timed
  BY DEF DataInv, DataTyped
<1>3. Booted(header) /\ IF header = "bad" THEN UNCHANGED data ELSE Mounted
  BY DEF Reboot
<1> QED
  BY <1>1, <1>2, <1>3, BootKeeps DEF Timed

(* The new process starts its times at the clock. Either some time of the  *)
(* card is not before it, and behind says so, or all are, and the order of *)
(* chats is one of times again.                                            *)
LEMMA RestartKeeps == ASSUME DataInv, Restart PROVE DataInv'
<1>1. clock' = clock /\ lastTime' = 0 /\ clock \in Nat \ {0}
  BY DEF Restart, DataInv, DataTyped
<1>2. NextTime' = clock
  <2>1. clock' > lastTime'
    BY <1>1
  <2> QED
    BY <1>1, <2>1 DEF NextTime
<1>3. Booted(header) /\ IF header = "bad" THEN UNCHANGED data ELSE Mounted
  BY DEF Restart
<1>4. ASSUME ~behind' PROVE TimesBefore(card.chats, clock)
  <2>1. ~behind /\ \A p \in Phones : \A k \in DOMAIN card.chats[p] : ~ (card.chats[p][k] >= clock)
    BY <1>4 DEF Restart
  <2>2. TimesBefore(card.chats, NextTime) /\ card.chats \in Chats
    BY <2>1 DEF DataInv, Timed, DataTyped
  <2>3. ASSUME NEW p \in Phones, NEW k \in DOMAIN card.chats[p] PROVE card.chats[p][k] < clock
    <3>1. card.chats[p] \in Seq(Nat)
      BY <2>2 DEF Chats
    <3>2. card.chats[p][k] \in Nat
      BY <3>1, LenProperties, ElementOfSeq
    <3> QED
      BY <1>1, <2>1, <3>2
  <2> QED
    BY <2>2, <2>3 DEF TimesBefore
<1> QED
  BY <1>1, <1>2, <1>3, <1>4, BootKeeps

(* cmd_format                                                              *)
LEMMA NothingIs ==
    /\ Nothing.contacts \in [Phones -> Holders] /\ Nothing.chats \in Chats
    /\ Nothing \in [contacts : [Phones -> Holders], chats : Chats]
    /\ (\A p \in Phones : Nothing.contacts[p] = NoContact /\ Nothing.chats[p] = <<>>)
    /\ (\A t : TimesBefore(Nothing.chats, t))
    /\ <<>> = Alphabetical({}, Nothing.contacts) /\ <<>> = LatestFirst(Nothing.chats)
    /\ <<>> \in Seq(Phones) /\ Once(<<>>) /\ ToSet(<<>>) = {}
<1>1. Nothing.contacts \in [Phones -> Holders] /\ Nothing.chats \in [Phones -> Seq(Nat)]
      /\ Nothing \in [contacts : [Phones -> Holders], chats : [Phones -> Seq(Nat)]]
  BY DEF Nothing, Holders
<1>2. \A p \in Phones : Nothing.contacts[p] = NoContact /\ Nothing.chats[p] = <<>>
  BY DEF Nothing
<1>3. Chatting(Nothing.chats) = {}
  BY <1>2 DEF Chatting
<1>4. \A t : TimesBefore(Nothing.chats, t)
  BY <1>2, <1>3 DEF TimesBefore
<1>5. ASSUME NEW R PROVE InOrder({}, R) = <<>>
  <2>1. Cardinality({}) = 0 /\ 1 .. 0 = {}
    BY FS_EmptySet
  <2>2. DOMAIN InOrder({}, R) = {}
    BY <2>1 DEF InOrder
  <2>3. InOrder({}, R) \in Seq(Phones)
    <3>1. InOrder({}, R) \in [1 .. 0 -> Phones]
      BY <2>1 DEF InOrder
    <3> QED
      BY <3>1, FunctionIsSeq
  <2>4. Len(InOrder({}, R)) = 0
    BY <2>2, <2>3, LenProperties
  <2> QED
    BY <2>3, <2>4, EmptySeq
<1>6. <<>> \in Seq(Phones) /\ Once(<<>>) /\ ToSet(<<>>) = {}
  BY DEF Once, ToSet
<1> QED
  BY <1>1, <1>2, <1>3, <1>4, <1>5, <1>6 DEF Alphabetical, LatestFirst, Chats

(* Nothing is left, on the card and in RAM.                                *)
LEMMA FormatKeeps == ASSUME DataInv, Format PROVE DataInv'
<1>1. /\ contacts' = Nothing.contacts /\ chats' = Nothing.chats /\ card' = Nothing
      /\ nameIndex' = <<>> /\ chatOrder' = <<>> /\ calls' = <<>> /\ unlisted' = {}
  BY DEF Format, Formatted, Nothing
<1>2. clock' = clock /\ lastTime' = lastTime
  BY DEF Format, uiVars
<1>3. <<>> \in Seq(Entries)
  OBVIOUS
<1>4. DataTyped'
  BY <1>1, <1>2, <1>3, NothingIs DEF DataInv, DataTyped
<1>5. Known' = {} /\ Indexed' = {}
  BY <1>1, NothingIs DEF Known, IsContact, Indexed
<1>6. Listed' /\ Stored'
  BY <1>1, <1>5, NothingIs DEF Listed, Stored
<1>7. Owned' /\ Timed'
  BY <1>1, NothingIs DEF Owned, Timed
<1> QED
  BY <1>4, <1>6, <1>7 DEF DataInv, CardInv

(* The clock, and what changes neither data nor times.                     *)
LEMMA TickKeeps == ASSUME DataInv, Tick PROVE DataInv'
<1>1. UNCHANGED dbVars /\ lastTime' = lastTime /\ UNCHANGED <<mounted, behind>> /\ clock' = clock + 1
  BY DEF Tick, cliVars
<1>2. clock \in Nat \ {0} /\ lastTime \in Nat /\ clock' \in Nat \ {0}
  BY <1>1 DEF DataInv, DataTyped
<1>3. DataTyped'
  BY <1>1, <1>2 DEF DataInv, DataTyped, dbVars
<1>4. NextTime' >= NextTime
  <2>1. NextTime = IF clock > lastTime THEN clock ELSE lastTime + 1
    BY DEF NextTime
  <2>2. NextTime' = IF clock' > lastTime' THEN clock' ELSE lastTime' + 1
    BY DEF NextTime
  <2>3. ASSUME NEW c \in Nat, NEW l \in Nat
        PROVE  (IF c + 1 > l THEN c + 1 ELSE l + 1) >= (IF c > l THEN c ELSE l + 1)
    OBVIOUS
  <2> QED
    BY <1>1, <1>2, <2>1, <2>2, <2>3
<1> QED
  BY <1>1, <1>3, <1>4, QuietKeeps DEF dbVars

(* A power cut that is armed, and what else leaves the data alone.         *)
LEMMA StillKeeps ==
    ASSUME DataInv, UNCHANGED <<contacts, nameIndex, chats, chatOrder, calls, card, unlisted>>,
           UNCHANGED <<clock, lastTime, mounted, behind>>,
           power # "off" \/ power' = "off"
    PROVE  DataInv'
<1>1. NextTime' = NextTime
  BY DEF NextTime
<1>2. DataTyped' /\ Listed' /\ Owned' /\ Timed' /\ CardInv'
  BY <1>1 DEF DataInv, DataTyped, Listed, Owned, Timed, CardInv, Stored, Indexed, Known, IsContact
<1> QED
  BY <1>2 DEF DataInv

(* The demo starts with an empty card, or with one that cannot be mounted. *)
LEMMA StartIs == ASSUME CliInit PROVE DataInv
<1>1. <<>> \in Seq(Entries)
  OBVIOUS
<1>2. DataTyped
  BY <1>1, NothingIs DEF CliInit, DataTyped
<1>3. Known = {} /\ Indexed = {} /\ unlisted = {}
  BY NothingIs DEF CliInit, Known, IsContact, Indexed
<1>4. Listed /\ Stored /\ Owned /\ Timed
  BY <1>3, NothingIs DEF CliInit, Listed, Stored, Owned, Timed
<1> QED
  BY <1>2, <1>4 DEF DataInv, CardInv

(* A command of the prompt.                                                *)
LEMMA CommandKeeps == ASSUME DataInv, Command PROVE DataInv'
<1>1. mounted /\ Kept
  BY DEF Command, Dispatched, Kept
<1>2. PICK p \in Phones, ret \in Returns :
          \/ CmdAdd(p, ret) \/ CmdUpdate(p, ret) \/ CmdRm(p, ret)
          \/ CmdMsg(p, ret) \/ CmdRmchat(p, ret) \/ CmdCall(p, ret)
  BY DEF Command
<1>3. CASE CmdAdd(p, ret)
  <2>1. PICK n \in NamesGiven : ContactAdd(p, n, ret)
    BY <1>3 DEF CmdAdd
  <2>2. n \in Names /\ UNCHANGED lastTime
    BY <1>3, NamesAreEntered DEF CmdAdd
  <2> QED
    BY <1>1, <2>1, <2>2, AddKeeps
<1>4. CASE CmdUpdate(p, ret)
  <2>1. PICK q \in Phones, n \in NamesGiven : ContactUpdate(p, n, q, ret)
    BY <1>4 DEF CmdUpdate
  <2>2. n \in Names /\ UNCHANGED lastTime
    BY <1>4, NamesAreEntered DEF CmdUpdate
  <2> QED
    BY <1>1, <2>1, <2>2, UpdateKeeps
<1>5. CASE CmdRm(p, ret)
  BY <1>1, <1>5, RemoveKeeps DEF CmdRm
<1>6. CASE CmdMsg(p, ret)
  BY <1>1, <1>6, SendKeeps DEF CmdMsg
<1>7. CASE CmdRmchat(p, ret)
  BY <1>1, <1>7, RemoveChatKeeps DEF CmdRmchat
<1>8. CASE CmdCall(p, ret)
  BY <1>1, <1>8, CallKeeps DEF CmdCall
<1> QED
  BY <1>2, <1>3, <1>4, <1>5, <1>6, <1>7, <1>8

-----------------------------------------------------------------------------
(* The pages and what they list. Page is one structure for all of them;    *)
(* what its items are depends on its kind.                                 *)
Ids == {"menu", "phone", "sms", "calls", "inbox", "contacts", "details", "chat"}

NamedRows == [phone : Phones, name : Names]

Options ==
    {"phone", "sms", "contacts", "call", "call history", "new message", "all messages", "messages",
     "send message", "edit contact", "delete contact", "add contact"}

ItemsOf(id) ==
    IF id = "chat" THEN Nat ELSE IF id = "calls" THEN Entries
    ELSE IF id \in {"inbox", "contacts"} THEN NamedRows ELSE Options

(* The details and the chat are of a phone of the book, every other page   *)
(* of the number entered or of none.                                       *)
Pages(id) ==
    [id : {id}, phone : IF id \in {"details", "chat"} THEN Phones ELSE Entered,
     title : Names, stale : BOOLEAN, cursor : Nat, offset : Nat, items : Seq(ItemsOf(id)),
     base : Nat, total : Nat]

AllPages == UNION {Pages(id) : id \in Ids}

(* The kind of a page is its field id.                                     *)
LEMMA PageIs ==
    ASSUME NEW page
    PROVE  page \in AllPages <=> page.id \in Ids /\ page \in Pages(page.id)
<1>1. ASSUME NEW id, page \in Pages(id) PROVE page.id = id
  BY <1>1 DEF Pages
<1> HIDE DEF Pages
<1> QED
  BY <1>1 DEF AllPages

(* The page with some of its fields changed.                               *)
LEMMA PageFields ==
    ASSUME NEW page \in AllPages
    PROVE  /\ page.id \in Ids /\ page.phone \in Entered /\ page.title \in Names /\ page.stale \in BOOLEAN
           /\ page.cursor \in Nat /\ page.offset \in Nat /\ page.items \in Seq(ItemsOf(page.id))
           /\ page.base \in Nat /\ page.total \in Nat
           /\ page.id \in {"details", "chat"} => page.phone \in Phones
<1>1. page.id \in Ids /\ page \in Pages(page.id)
  BY PageIs
<1> HIDE DEF ItemsOf
<1> QED
  BY <1>1 DEF Pages, Entered

(* The page as clamp changes it.                                           *)
MovedTo(page, c, o, t) == [page EXCEPT !.cursor = c, !.offset = o, !.total = t]

IsMoved(q, page, c, o, t) ==
    /\ q \in AllPages /\ q.id = page.id /\ q.phone = page.phone /\ q.title = page.title
    /\ q.stale = page.stale /\ q.items = page.items /\ q.base = page.base
    /\ q.cursor = c /\ q.offset = o /\ q.total = t

LEMMA PageMoved ==
    ASSUME NEW page \in AllPages, NEW c \in Nat, NEW o \in Nat, NEW t \in Nat
    PROVE  IsMoved(MovedTo(page, c, o, t), page, c, o, t)
<1> DEFINE q == MovedTo(page, c, o, t)
<1>1. page.id \in Ids /\ page \in Pages(page.id)
  BY PageIs
<1> HIDE DEF ItemsOf
<1>2. /\ q \in Pages(page.id) /\ q.id = page.id /\ q.phone = page.phone /\ q.title = page.title
      /\ q.stale = page.stale /\ q.items = page.items /\ q.base = page.base
      /\ q.cursor = c /\ q.offset = o /\ q.total = t
  BY <1>1 DEF Pages, MovedTo
<1> HIDE DEF q
<1>3. q \in AllPages
  BY <1>1, <1>2, PageIs
<1>4. IsMoved(q, page, c, o, t)
  BY <1>2, <1>3 DEF IsMoved
<1> QED
  BY <1>4 DEF q

(* The page as refresh changes it.                                         *)
LoadedWith(page, i, m, b, t, s) ==
    [page EXCEPT !.items = i, !.title = m, !.base = b, !.total = t, !.stale = s]

IsLoaded(q, page, i, m, b, t, s) ==
    /\ q \in AllPages /\ q.id = page.id /\ q.phone = page.phone /\ q.cursor = page.cursor
    /\ q.offset = page.offset /\ q.stale = s /\ q.items = i /\ q.title = m
    /\ q.base = b /\ q.total = t

LEMMA PageLoaded ==
    ASSUME NEW page \in AllPages, NEW i \in Seq(ItemsOf(page.id)), NEW m \in Names,
           NEW b \in Nat, NEW t \in Nat, NEW s \in BOOLEAN
    PROVE  IsLoaded(LoadedWith(page, i, m, b, t, s), page, i, m, b, t, s)
<1> DEFINE q == LoadedWith(page, i, m, b, t, s)
<1>1. page.id \in Ids /\ page \in Pages(page.id)
  BY PageIs
<1> HIDE DEF ItemsOf
<1>2. /\ q \in Pages(page.id) /\ q.id = page.id /\ q.phone = page.phone /\ q.cursor = page.cursor
      /\ q.offset = page.offset /\ q.stale = s /\ q.items = i /\ q.title = m
      /\ q.base = b /\ q.total = t
  BY <1>1 DEF Pages, LoadedWith
<1> HIDE DEF q
<1>3. q \in AllPages
  BY <1>1, <1>2, PageIs
<1>4. IsLoaded(q, page, i, m, b, t, s)
  BY <1>2, <1>3 DEF IsLoaded
<1> QED
  BY <1>4 DEF q

(* Two pages with the same fields are the same.                            *)
LEMMA SamePage ==
    ASSUME NEW page \in AllPages, NEW q \in AllPages,
           q.id = page.id, q.phone = page.phone, q.title = page.title, q.stale = page.stale,
           q.cursor = page.cursor, q.offset = page.offset, q.items = page.items,
           q.base = page.base, q.total = page.total
    PROVE  q = page
<1>1. page \in Pages(page.id) /\ q \in Pages(page.id)
  BY PageIs
<1> HIDE DEF ItemsOf
<1> QED
  BY <1>1 DEF Pages

(* db_contact_count counts the contacts.                                   *)
LEMMA CountIs == ContactCount \in Nat /\ ContactCount = Cardinality(Known)
<1>1. Known \in SUBSET Phones
  BY DEF Known
<1> QED
  BY <1>1, PhonesAreOrdered, FS_Subset, FS_CardinalityType DEF ContactCount, Known

(* clamp puts the cursor on an item, if there is one, and the window       *)
(* around it.                                                              *)
Placed(page) ==
    IF page.id = "chat"
    THEN page.offset <= IF page.total > ROWS THEN page.total - ROWS ELSE 0
    ELSE /\ page.cursor < page.total \/ (page.cursor = 0 /\ page.total = 0)
         /\ page.offset <= page.cursor /\ page.cursor < page.offset + PageRows(page)

(* clamp places the page, and leaves a page that is placed as it is.       *)
LEMMA ClampedIs ==
    ASSUME NEW page \in AllPages
    PROVE  LET c == Clamped(page)
           IN  /\ c \in AllPages /\ c.id = page.id /\ c.phone = page.phone /\ c.title = page.title
               /\ c.stale = page.stale /\ c.items = page.items /\ c.base = page.base
               /\ c.total = IF page.id = "contacts" THEN ContactCount ELSE page.total
               /\ Placed(c)
               /\ Placed(page) /\ (page.id = "contacts" => page.total = ContactCount) => c = page
<1> DEFINE total == IF page.id = "contacts" THEN ContactCount ELSE page.total
           cursor == IF page.id = "chat" THEN page.cursor
                     ELSE IF page.cursor < total THEN page.cursor ELSE IF total > 0 THEN total - 1 ELSE 0
           rows == PageRows(page)
           up == Least(cursor, page.offset)
           offset == IF page.id = "chat" THEN Least(page.offset, IF total > ROWS THEN total - ROWS ELSE 0)
                     ELSE IF cursor >= up + rows THEN cursor - rows + 1 ELSE up
           q == [page EXCEPT !.cursor = cursor, !.offset = offset, !.total = total]
<1>1. /\ page.cursor \in Nat /\ page.offset \in Nat /\ page.total \in Nat /\ page.id \in Ids
  BY PageFields
<1>2. total \in Nat /\ rows \in Nat \ {0} /\ ROWS \in Nat \ {0}
  BY <1>1, CountIs, Screen DEF PageRows
<1> HIDE DEF total, rows
<1>3. /\ cursor \in Nat /\ (page.id # "chat" => cursor < total \/ (cursor = 0 /\ total = 0))
      /\ page.cursor < total \/ (page.cursor = 0 /\ total = 0) => cursor = page.cursor
  BY <1>1, <1>2
<1> HIDE DEF cursor
<1>4. up \in Nat /\ up <= cursor /\ up <= page.offset /\ (page.offset <= cursor => up = page.offset)
  BY <1>1, <1>3 DEF Least
<1> HIDE DEF up
<1>5. /\ offset \in Nat
      /\ IF page.id = "chat" THEN offset <= IF total > ROWS THEN total - ROWS ELSE 0
         ELSE offset <= cursor /\ cursor < offset + rows
      /\ IF page.id = "chat" THEN page.offset <= (IF total > ROWS THEN total - ROWS ELSE 0) => offset = page.offset
         ELSE page.offset <= cursor /\ cursor < page.offset + rows => offset = page.offset
  <2>1. CASE page.id = "chat"
    BY <1>1, <1>2, <2>1 DEF Least
  <2>2. CASE page.id # "chat"
    BY <1>1, <1>2, <1>3, <1>4, <2>2
  <2> QED
    BY <2>1, <2>2
<1>6. Clamped(page) = q
  <2>1. page \in Pages(page.id)
    BY PageIs
  <2>2. CASE page.id = "chat"
    <3>1. Clamped(page) = [page EXCEPT !.offset = offset]
      BY <2>2 DEF Clamped, total
    <3>2. total = page.total /\ cursor = page.cursor
      BY <2>2 DEF total, cursor
    <3> HIDE DEF offset, ItemsOf
    <3> QED
      BY <2>1, <3>1, <3>2 DEF Pages
  <2>3. CASE page.id # "chat"
    <3> DEFINE r == [page EXCEPT !.total = total, !.cursor = cursor]
    <3>1. Clamped(page) = OnScreen(r)
      BY <2>3 DEF Clamped, total, cursor
    <3>2. r.cursor = cursor /\ r.offset = page.offset /\ r.id = page.id
      <4> HIDE DEF ItemsOf
      <4> QED
        BY <2>1 DEF Pages
    <3>3. PageRows(r) = rows
      BY <3>2 DEF PageRows, rows
    <3>4. OnScreen(r) = [r EXCEPT !.offset = offset]
      <4> HIDE DEF r
      <4> QED
        BY <2>3, <3>2, <3>3 DEF OnScreen, up
    <3>5. q = [r EXCEPT !.offset = offset]
      <4> HIDE DEF offset, ItemsOf
      <4> QED
        BY <2>1 DEF Pages
    <3> QED
      BY <3>1, <3>4, <3>5
  <2> QED
    BY <2>2, <2>3
<1> HIDE DEF offset
<1>7. /\ q \in AllPages /\ q.id = page.id /\ q.phone = page.phone /\ q.title = page.title
      /\ q.stale = page.stale /\ q.items = page.items /\ q.base = page.base
      /\ q.cursor = cursor /\ q.offset = offset /\ q.total = total
  <2>1. total \in Nat /\ cursor \in Nat /\ offset \in Nat
    BY <1>2, <1>3, <1>5
  <2>2. q = MovedTo(page, cursor, offset, total)
    BY DEF MovedTo
  <2> HIDE DEF q
  <2>3. IsMoved(q, page, cursor, offset, total)
    BY <2>1, <2>2, PageMoved
  <2> QED
    BY <2>3 DEF IsMoved
<1> HIDE DEF q
<1>8. Placed(q)
  <2>1. PageRows(q) = rows
    BY <1>7 DEF PageRows, rows
  <2> QED
    BY <1>3, <1>5, <1>7, <2>1 DEF Placed
<1>9. ASSUME Placed(page), page.id = "contacts" => page.total = ContactCount PROVE q = page
  <2>1. total = page.total
    BY <1>9 DEF total
  <2>2. cursor = page.cursor
    BY <1>3, <1>9, <2>1 DEF Placed, cursor
  <2>3. offset = page.offset
    BY <1>5, <1>9, <2>1, <2>2 DEF Placed, rows
  <2> QED
    BY <1>7, <2>1, <2>2, <2>3, SamePage
<1> QED
  BY <1>6, <1>7, <1>8, <1>9 DEF total

(* The phones of a screen of the name index.                               *)
LEMMA ContactListIs ==
    ASSUME DataTyped, NEW o \in Nat
    PROVE  LET s == ContactList(o, ROWS)  n == Len(nameIndex)
           IN  /\ n \in Nat /\ s \in Seq(Phones) /\ \A k \in 1 .. Len(s) : s[k] \in ToSet(nameIndex)
               /\ Len(s) = IF o >= n THEN 0 ELSE IF o + ROWS < n THEN ROWS ELSE n - o
<1> DEFINE n == Len(nameIndex)  last == IF o + ROWS < n THEN o + ROWS ELSE n  s == ContactList(o, ROWS)
           first == o + 1
<1>1. /\ n \in Nat /\ ROWS \in Nat \ {0} /\ nameIndex \in Seq(Phones)
      /\ \A k \in 1 .. n : nameIndex[k] \in ToSet(nameIndex) /\ nameIndex[k] \in Phones
  BY Screen, LenProperties, ElementOfSeq DEF DataTyped, ToSet
<1>2. s = SubSeq(nameIndex, first, last)
  BY DEF ContactList
<1> HIDE DEF n, s
<1>3. first \in Int /\ last \in Int /\ first >= 1 /\ last <= n
  BY <1>1
<1>4. last - first + 1 = last - o /\ (first <= last <=> o < n)
  BY <1>1
<1>5. o < n => last - o = IF o + ROWS < n THEN ROWS ELSE n - o
  BY <1>1
<1> HIDE DEF first, last
<1>6. \A i \in first .. last : nameIndex[i] \in ToSet(nameIndex) /\ nameIndex[i] \in Phones
  BY <1>1, <1>3
<1>7. /\ s \in Seq(Phones) /\ s \in Seq(ToSet(nameIndex))
      /\ Len(s) = IF first <= last THEN last - first + 1 ELSE 0
  BY <1>2, <1>3, <1>6, SubSeqProperties
<1>8. \A k \in 1 .. Len(s) : s[k] \in ToSet(nameIndex)
  BY <1>7, ElementOfSeq
<1>9. Len(s) = IF o >= n THEN 0 ELSE IF o + ROWS < n THEN ROWS ELSE n - o
  BY <1>1, <1>4, <1>5, <1>7
<1> QED
  BY <1>1, <1>7, <1>8, <1>9 DEF n, s

(* The rows of a list of contacts.                                         *)
LEMMA RowsAre ==
    ASSUME DataTyped, NEW s \in Seq(Phones), \A k \in 1 .. Len(s) : s[k] \in Known
    PROVE  Rows(s) \in Seq(NamedRows) /\ Len(Rows(s)) = Len(s)
<1>1. /\ Len(s) \in Nat /\ DOMAIN s = 1 .. Len(s)
      /\ \A k \in 1 .. Len(s) : s[k] \in Phones /\ contacts[s[k]] \in Names
  BY KnownIs, LenProperties
<1>2. Rows(s) \in [1 .. Len(s) -> NamedRows]
  BY <1>1 DEF Rows, Row, NamedRows
<1> QED
  BY <1>1, <1>2, FunctionIsSeq

(* What the database gives for a page has the type of the page's items.    *)
LEMMA ItemsAre ==
    ASSUME DataTyped, Listed, NEW page \in AllPages
    PROVE  Items(page) \in Seq(ItemsOf(page.id)) /\ Title(page) \in Names
<1>1. page.id \in Ids /\ page.offset \in Nat /\ (page.id \in {"details", "chat"} => page.phone \in Phones)
  BY PageFields
<1>0. Title(page) \in Names
  <2>1. CASE page.id = "details" /\ IsContact(page.phone)
    <3>1. contacts[page.phone] \in Names
      BY <1>1, <2>1 DEF DataTyped, Holders, IsContact
    <3> QED
      BY <2>1, <3>1, TitlesAreNames DEF Title
  <2>2. CASE ~ (page.id = "details" /\ IsContact(page.phone))
    BY <2>2, NamesAreOrdered DEF Title
  <2> QED
    BY <2>1, <2>2
<1> HIDE DEF ItemsOf
<1>2. CASE page.id = "menu"
  <2>1. Items(page) = Menu /\ ItemsOf(page.id) = Options
    BY <1>2 DEF Items, ItemsOf
  <2>2. Menu \in Seq(Options)
    BY DEF Menu, Options
  <2> QED
    BY <1>0, <2>1, <2>2
<1>3. CASE page.id = "phone"
  <2>1. Items(page) = PhoneMenu /\ ItemsOf(page.id) = Options
    BY <1>3 DEF Items, ItemsOf
  <2>2. PhoneMenu \in Seq(Options)
    BY DEF PhoneMenu, Options
  <2> QED
    BY <1>0, <2>1, <2>2
<1>4. CASE page.id = "sms"
  <2>1. Items(page) = SmsMenu /\ ItemsOf(page.id) = Options
    BY <1>4 DEF Items, ItemsOf
  <2>2. SmsMenu \in Seq(Options)
    BY DEF SmsMenu, Options
  <2> QED
    BY <1>0, <2>1, <2>2
<1>5. CASE page.id = "calls"
  <2>1. Items(page) = calls /\ ItemsOf(page.id) = Entries
    BY <1>5 DEF Items, ItemsOf, CallRows, CallRecent
  <2> QED
    BY <1>0, <2>1 DEF DataTyped
<1>6. CASE page.id = "inbox"
  <2>1. \A k \in 1 .. Len(chatOrder) : chatOrder[k] \in Known
    BY LenProperties DEF Listed, ToSet, DataTyped
  <2>2. Rows(chatOrder) \in Seq(NamedRows)
    BY <2>1, RowsAre DEF DataTyped
  <2>3. Items(page) = Rows(chatOrder) /\ ItemsOf(page.id) = NamedRows
    BY <1>6 DEF Items, ItemsOf, InboxRows, ChatList
  <2> QED
    BY <1>0, <2>2, <2>3
<1>7. CASE page.id = "contacts"
  <2> DEFINE s == ContactList(page.offset, ROWS)
  <2>1. s \in Seq(Phones) /\ \A k \in 1 .. Len(s) : s[k] \in ToSet(nameIndex)
    BY <1>1, ContactListIs
  <2> HIDE DEF s
  <2>2. \A k \in 1 .. Len(s) : s[k] \in Known
    BY <2>1 DEF Listed
  <2>3. Rows(s) \in Seq(NamedRows)
    BY <2>1, <2>2, RowsAre
  <2>4. Items(page) = Rows(s) /\ ItemsOf(page.id) = NamedRows
    BY <1>7 DEF Items, ItemsOf, ContactRows, s
  <2> QED
    BY <1>0, <2>3, <2>4
<1>8. CASE page.id = "details"
  <2>1. Items(page) = DetailsMenu(page) /\ ItemsOf(page.id) = Options
    BY <1>8 DEF Items, ItemsOf
  <2>2. KnownMenu \in Seq(Options) /\ UnknownMenu \in Seq(Options)
    BY DEF KnownMenu, UnknownMenu, Options
  <2> QED
    BY <1>0, <2>1, <2>2 DEF DetailsMenu
<1>9. CASE page.id = "chat"
  <2>1. Items(page) = chats[page.phone] /\ ItemsOf(page.id) = Nat
    BY <1>9 DEF Items, ItemsOf, ChatLines, MessageGetChat
  <2> QED
    BY <1>0, <1>1, <1>9, <2>1 DEF DataTyped, Chats
<1> QED
  BY <1>1, <1>2, <1>3, <1>4, <1>5, <1>6, <1>7, <1>8, <1>9 DEF Ids

(* It depends on the kind and the phone of the page, and for the list of   *)
(* contacts on the window.                                                 *)
LEMMA ItemsSame ==
    ASSUME NEW page, NEW q, q.id = page.id, q.phone = page.phone, page.id = "contacts" => q.offset = page.offset
    PROVE  Items(q) = Items(page) /\ Title(q) = Title(page)
<1>1. Title(q) = Title(page)
  BY DEF Title
<1>2. page.id = "contacts" => ContactRows(q) = ContactRows(page)
  BY DEF ContactRows
<1>3. DetailsMenu(q) = DetailsMenu(page) /\ ChatLines(q) = ChatLines(page)
  BY DEF DetailsMenu, ChatLines
<1> QED
  BY <1>1, <1>2, <1>3 DEF Items

(* refresh loads the items and the title, and leaves cursor and window     *)
(* alone.                                                                  *)
LEMMA RefreshedIs ==
    ASSUME DataTyped, Listed, NEW page \in AllPages
    PROVE  IsLoaded(Refreshed(page), page, Items(page), Title(page),
                    IF page.id = "contacts" THEN page.offset ELSE 0,
                    IF page.id = "contacts" THEN page.total ELSE Len(Items(page)), FALSE)
<1> DEFINE b == IF page.id = "contacts" THEN page.offset ELSE 0
           t == IF page.id = "contacts" THEN page.total ELSE Len(Items(page))
<1>1. Items(page) \in Seq(ItemsOf(page.id)) /\ Title(page) \in Names
  BY ItemsAre
<1>2. page.offset \in Nat /\ page.total \in Nat
  BY PageFields
<1>3. b \in Nat /\ t \in Nat
  BY <1>1, <1>2, LenProperties
<1>4. Refreshed(page) = LoadedWith(page, Items(page), Title(page), b, t, FALSE)
  BY DEF Refreshed, LoadedWith
<1> HIDE DEF b, t
<1>5. IsLoaded(Refreshed(page), page, Items(page), Title(page), b, t, FALSE)
  BY <1>1, <1>3, <1>4, PageLoaded
<1> QED
  BY <1>5 DEF b, t

-----------------------------------------------------------------------------
(* A page holds what the database gives, but for the messages that a       *)
(* request that failed has written since.                                  *)
Loaded(page) ==
    page.id # "contacts" =>
        /\ page.base = 0 /\ page.total = Len(page.items) /\ page.title = Title(page)
        /\ \/ page.items = Items(page)
           \/ page.id = "chat" /\ power = "off" /\ IsPrefix(page.items, Items(page))

(* The list of contacts, of which only the screen is loaded.               *)
Fetched(page) ==
    page.id = "contacts" =>
        /\ page.base = page.offset /\ page.total = ContactCount
        /\ page.items = Items(page) /\ page.title = Title(page)

(* A page as it is when a key is awaited.                                  *)
Drawn(page) == ~page.stale /\ Loaded(page) /\ Placed(page) /\ Fetched(page)

(* A page stays loaded when cursor and window move.                        *)
LEMMA LoadedSame ==
    ASSUME NEW page, NEW q, Loaded(page), q.id = page.id, q.phone = page.phone, q.title = page.title,
           q.items = page.items, q.base = page.base, page.id # "contacts" => q.total = page.total
    PROVE  Loaded(q)
<1>1. CASE page.id # "contacts"
  <2>1. Items(q) = Items(page) /\ Title(q) = Title(page)
    BY <1>1, ItemsSame
  <2> QED
    BY <1>1, <2>1 DEF Loaded
<1>2. CASE page.id = "contacts"
  BY <1>2 DEF Loaded
<1> QED
  BY <1>1, <1>2

(* What the main loop draws.                                               *)
LEMMA DrawIs ==
    ASSUME DataTyped, Listed, NEW page \in AllPages, page.stale \/ Loaded(page)
    PROVE  LET c == Clamped(page)
               q == IF c.stale \/ c.id = "contacts" THEN Clamped(Refreshed(c)) ELSE c
           IN  q \in AllPages /\ Drawn(q)
<1> DEFINE c == Clamped(page)  r == Refreshed(c)  d == Clamped(r)
           q == IF c.stale \/ c.id = "contacts" THEN d ELSE c
<1>1. /\ c \in AllPages /\ c.id = page.id /\ c.phone = page.phone /\ c.title = page.title
      /\ c.stale = page.stale /\ c.items = page.items /\ c.base = page.base
      /\ c.total = IF page.id = "contacts" THEN ContactCount ELSE page.total
      /\ Placed(c)
  BY ClampedIs
<1> HIDE DEF c
<1>2. /\ r \in AllPages /\ r.id = c.id /\ r.phone = c.phone /\ r.cursor = c.cursor
      /\ r.offset = c.offset /\ r.stale = FALSE /\ r.items = Items(c) /\ r.title = Title(c)
      /\ r.base = IF c.id = "contacts" THEN c.offset ELSE 0
      /\ r.total = IF c.id = "contacts" THEN c.total ELSE Len(Items(c))
  BY <1>1, RefreshedIs DEF IsLoaded
<1> HIDE DEF r
<1>3. /\ d \in AllPages /\ d.id = r.id /\ d.phone = r.phone /\ d.title = r.title
      /\ d.stale = r.stale /\ d.items = r.items /\ d.base = r.base
      /\ d.total = IF r.id = "contacts" THEN ContactCount ELSE r.total
      /\ Placed(d)
      /\ Placed(r) /\ (r.id = "contacts" => r.total = ContactCount) => d = r
  BY <1>2, ClampedIs
<1> HIDE DEF d
<1>4. ASSUME ~ (c.stale \/ c.id = "contacts") PROVE c \in AllPages /\ Drawn(c)
  <2>1. Loaded(c)
    BY <1>1, <1>4, LoadedSame
  <2>2. Drawn(c)
    BY <1>1, <1>4, <2>1 DEF Drawn, Fetched
  <2> QED
    BY <1>1, <1>4, <2>2
<1>5. ASSUME c.id = "contacts" PROVE d \in AllPages /\ Drawn(d)
  <2>1. Placed(r) /\ r.total = ContactCount
    <3>1. PageRows(r) = PageRows(c)
      BY <1>2 DEF PageRows
    <3> QED
      BY <1>1, <1>2, <1>5, <3>1 DEF Placed
  <2>2. d = r
    BY <1>3, <2>1
  <2>3. Items(r) = Items(c) /\ Title(r) = Title(c)
    BY <1>2, ItemsSame
  <2>4. Fetched(d) /\ Loaded(d)
    BY <1>2, <1>5, <2>1, <2>2, <2>3 DEF Fetched, Loaded
  <2>5. Drawn(d)
    BY <1>2, <1>3, <2>4 DEF Drawn
  <2> QED
    BY <1>3, <1>5, <2>5
<1>6. ASSUME c.id # "contacts" PROVE d \in AllPages /\ Drawn(d)
  <2>1. Items(d) = Items(c) /\ Title(d) = Title(c)
    <3>1. d.id = c.id /\ d.phone = c.phone
      BY <1>2, <1>3
    <3> QED
      BY <1>6, <3>1, ItemsSame
  <2>2. Loaded(d)
    BY <1>2, <1>3, <1>6, <2>1 DEF Loaded
  <2>3. Drawn(d)
    BY <1>2, <1>3, <1>6, <2>2 DEF Drawn, Fetched
  <2> QED
    BY <1>3, <1>6, <2>3
<1>7. q \in AllPages /\ Drawn(q)
  BY <1>4, <1>5, <1>6
<1> QED
  BY <1>7 DEF q, d, r, c

(* The page on top is to be loaded, or holds what the database gives;      *)
(* while a key is awaited it is drawn. The pages below are marked stale    *)
(* when they come up again (pop), so nothing is said of them. The menus    *)
(* run on a mounted database only.                                         *)
StackInv ==
    /\ stack \in Seq(AllPages)
    /\ \A q \in AllPages : stack # <<>> /\ q = stack[Len(stack)] =>
          mounted /\ (q.stale \/ Loaded(q)) /\ (awaiting => Drawn(q))

(* Pages of which the topmost is to be loaded yet.                         *)
Fresh(s) == s \in Seq(AllPages) /\ (s # <<>> => s[Len(s)].stale)

(* page->stale = true                                                      *)
LEMMA PageStale ==
    ASSUME NEW page \in AllPages PROVE Stale(page) \in AllPages /\ Stale(page).stale /\ Stale(page).id = page.id
<1> DEFINE q == [page EXCEPT !.stale = TRUE]
<1>1. page.id \in Ids /\ page \in Pages(page.id)
  BY PageIs
<1> HIDE DEF ItemsOf
<1>2. q \in Pages(page.id) /\ q.id = page.id /\ q.stale
  BY <1>1 DEF Pages
<1>3. Stale(page) = q
  BY DEF Stale
<1> HIDE DEF q
<1>4. q \in AllPages
  BY <1>1, <1>2, PageIs
<1> QED
  BY <1>2, <1>3, <1>4

(* The page of a contact whose number was edited.                          *)
LEMMA PageOfPhone ==
    ASSUME NEW page \in AllPages, NEW p \in Phones, NEW q, q = [page EXCEPT !.phone = p]
    PROVE  q \in AllPages /\ q.id = page.id
<1>1. page.id \in Ids /\ page \in Pages(page.id)
  BY PageIs
<1> HIDE DEF ItemsOf
<1>2. q \in Pages(page.id) /\ q.id = page.id
  BY <1>1 DEF Pages, Entered
<1>3. q \in AllPages
  BY <1>1, <1>2, PageIs
<1> QED
  BY <1>2, <1>3

(* push makes a page that is to be loaded.                                 *)
LEMMA NewPageIs ==
    ASSUME NEW id \in Ids, NEW p \in Entered, id \in {"details", "chat"} => p \in Phones
    PROVE  NewPage(id, p) \in AllPages /\ NewPage(id, p).stale
<1>1. NewPage(id, p).id = id /\ NewPage(id, p).stale
  BY DEF NewPage
<1>2. <<>> \in Seq(ItemsOf(id)) /\ Unnamed \in Names
  BY NamesAreOrdered
<1> HIDE DEF ItemsOf
<1>3. NewPage(id, p) \in Pages(id)
  BY <1>2 DEF NewPage, Pages
<1> QED
  BY <1>1, <1>3, PageIs

(* The stack with another page on top.                                     *)
LEMMA ToppedIs ==
    ASSUME stack \in Seq(AllPages), stack # <<>>, NEW page \in AllPages
    PROVE  LET t == Topped(page)
           IN  t \in Seq(AllPages) /\ t # <<>> /\ Len(t) = Len(stack) /\ t[Len(t)] = page
<1> DEFINE n == Len(stack)  t == Topped(page)
<1>1. n \in Nat \ {0} /\ stack \in [1 .. n -> AllPages] /\ DOMAIN stack = 1 .. n
  BY LenProperties, EmptySeq
<1>2. t = [stack EXCEPT ![n] = page]
  BY DEF Topped
<1> HIDE DEF t, n
<1>3. t \in [1 .. n -> AllPages] /\ t[n] = page
  BY <1>1, <1>2
<1>4. t \in Seq(AllPages) /\ Len(t) = n
  BY <1>1, <1>3, FunctionIsSeq
<1>5. t # <<>>
  BY <1>1, <1>4
<1> QED
  BY <1>3, <1>4, <1>5 DEF t, n

(* push opens a page, or does nothing when the stack is full.              *)
LEMMA PushedIs ==
    ASSUME NEW s \in Seq(AllPages), NEW id \in Ids, NEW p \in Entered, id \in {"details", "chat"} => p \in Phones
    PROVE  /\ Pushed(s, id, p) \in Seq(AllPages)
           /\ Pushed(s, id, p) = s \/ Fresh(Pushed(s, id, p))
<1> DEFINE page == NewPage(id, p)  t == Append(s, page)
<1>1. page \in AllPages /\ page.stale
  BY NewPageIs
<1>2. t \in Seq(AllPages) /\ t[Len(t)] = page
  <2> HIDE DEF page
  <2>1. t \in Seq(AllPages) /\ Len(t) = Len(s) + 1 /\ t[Len(s) + 1] = page
    BY <1>1, AppendProperties
  <2> QED
    BY <2>1
<1>3. Pushed(s, id, p) = s \/ Pushed(s, id, p) = t
  BY DEF Pushed
<1> HIDE DEF t, page
<1>4. Fresh(t)
  BY <1>1, <1>2 DEF Fresh
<1> QED
  BY <1>2, <1>3, <1>4

(* pop marks the page that comes up stale.                                 *)
LEMMA PoppedIs ==
    ASSUME stack \in Seq(AllPages), stack # <<>>
    PROVE  Fresh(Popped)
<1> DEFINE n == Len(stack) - 1  below == SubSeq(stack, 1, n)
           last == [below[n] EXCEPT !.stale = TRUE]
<1>1. n \in Nat /\ Len(stack) = n + 1
  BY LenProperties, EmptySeq
<1>2. below \in Seq(AllPages) /\ Len(below) = n
  <2>1. \A i \in 1 .. n : stack[i] \in AllPages
    BY <1>1, ElementOfSeq
  <2> HIDE DEF n
  <2>2. 1 \in Int /\ n \in Int
    BY <1>1
  <2>3. below \in Seq(AllPages) /\ Len(below) = IF 1 <= n THEN n - 1 + 1 ELSE 0
    BY <2>1, <2>2, SubSeqProperties
  <2> QED
    BY <1>1, <2>3
<1>3. CASE below = <<>>
  <2>1. Popped = <<>>
    BY <1>3 DEF Popped
  <2> QED
    BY <2>1 DEF Fresh
<1>4. CASE below # <<>>
  <2>1. Popped = [below EXCEPT ![Len(below)].stale = TRUE]
    BY <1>4 DEF Popped
  <2>2. Popped = [below EXCEPT ![n] = last]
    BY <1>2, <2>1
  <2>3. n \in Nat \ {0} /\ DOMAIN below = 1 .. n /\ below \in [1 .. n -> AllPages]
    <3> HIDE DEF below, n
    <3> QED
      BY <1>1, <1>2, <1>4, LenProperties, EmptySeq
  <2>4. last \in AllPages /\ last.stale
    <3>1. below[n] \in AllPages
      <4> HIDE DEF below, n
      <4> QED
        BY <2>3
    <3>2. last = Stale(below[n])
      BY DEF Stale
    <3> QED
      BY <3>1, <3>2, PageStale
  <2> HIDE DEF below, last, n
  <2>5. Popped \in [1 .. n -> AllPages] /\ Popped[n] = last
    BY <2>2, <2>3, <2>4
  <2>6. Popped \in Seq(AllPages) /\ Len(Popped) = n
    BY <2>3, <2>5, FunctionIsSeq
  <2> QED
    BY <2>4, <2>5, <2>6 DEF Fresh
<1> QED
  BY <1>3, <1>4

(* The invariant with a page on top that is to be loaded,                  *)
LEMMA FreshKeeps ==
    ASSUME Fresh(stack'), stack' # <<>> => mounted', ~awaiting'
    PROVE  StackInv'
BY DEF Fresh, StackInv

(* and with one that is loaded.                                            *)
LEMMA TopKeeps ==
    ASSUME stack' \in Seq(AllPages), mounted', ~awaiting', NEW q, stack'[Len(stack')] = q, Loaded(q)'
    PROVE  StackInv'
BY DEF StackInv

(* What the invariant says of the page on top.                             *)
LEMMA TopIs ==
    ASSUME StackInv, stack # <<>>
    PROVE  Top \in AllPages /\ mounted /\ (Top.stale \/ Loaded(Top)) /\ (awaiting => Drawn(Top))
<1>1. stack[Len(stack)] \in AllPages
  BY ElementOfSeq, LenProperties, EmptySeq DEF StackInv
<1> QED
  BY <1>1 DEF StackInv, Top

(* A page whose data has not changed.                                      *)
LEMMA StillLoaded ==
    ASSUME NEW q, Loaded(q), UNCHANGED dbVars PROVE Loaded(q)' /\ (Drawn(q) => Drawn(q)')
<1>1. UNCHANGED <<contacts, nameIndex, chats, chatOrder, calls, power>>
  BY DEF dbVars
<1>2. Items(q)' = Items(q) /\ Title(q)' = Title(q) /\ ContactCount' = ContactCount
  BY <1>1 DEF Items, Title, CallRows, CallRecent, InboxRows, ChatList, ContactRows, ContactList, Rows, Row,
              DetailsMenu, ChatLines, MessageGetChat, IsContact, ContactCount
<1>3. Loaded(q)'
  BY <1>1, <1>2 DEF Loaded
<1>4. Drawn(q) => Drawn(q)'
  BY <1>2, <1>3 DEF Drawn, Fetched, Placed, PageRows
<1> QED
  BY <1>3, <1>4

(* The pages whose items no request changes.                               *)
LEMMA FixedLoaded ==
    ASSUME NEW q, Loaded(q), q.id \in {"menu", "phone", "sms", "contacts"} PROVE Loaded(q)'
<1>1. q.id # "contacts" => Items(q)' = Items(q) /\ Title(q)' = Title(q)
  BY DEF Items, Title
<1> QED
  BY <1>1 DEF Loaded

(* A prefix of a sequence is one of a longer sequence.                     *)
LEMMA PrefixGrows ==
    ASSUME NEW S, NEW s \in Seq(S), NEW t \in Seq(S), s = t \/ IsPrefix(s, t), NEW x \in S
    PROVE  IsPrefix(s, t) /\ IsPrefix(s, Append(t, x))
<1> DEFINE n == Len(s)  u == Append(t, x)
<1>1. n \in Nat /\ Len(t) \in Nat /\ \A k \in 1 .. Len(t) : t[k] \in S
  BY LenProperties, ElementOfSeq
<1>2. IsPrefix(s, t)
  BY <1>1 DEF IsPrefix
<1>3. u \in Seq(S) /\ Len(u) = Len(t) + 1 /\ \A k \in 1 .. Len(t) : u[k] = t[k]
  BY AppendProperties
<1> HIDE DEF u
<1>4. n <= Len(t) /\ SubSeq(s, 1, n) = SubSeq(t, 1, n)
  BY <1>2 DEF IsPrefix
<1>5. SubSeq(t, 1, n) = SubSeq(u, 1, n)
  <2> DEFINE a == SubSeq(t, 1, n)  b == SubSeq(u, 1, n)
  <2>1. \A k \in 1 .. n : t[k] \in S /\ u[k] \in S /\ t[k] = u[k]
    BY <1>1, <1>3, <1>4
  <2> HIDE DEF n
  <2>2. 1 \in Int /\ n \in Int
    BY <1>1
  <2>3. /\ a \in Seq(S) /\ Len(a) = IF 1 <= n THEN n - 1 + 1 ELSE 0
        /\ \A i \in 1 .. n - 1 + 1 : a[i] = t[1 + i - 1]
    BY <2>1, <2>2, SubSeqProperties
  <2>4. /\ b \in Seq(S) /\ Len(b) = IF 1 <= n THEN n - 1 + 1 ELSE 0
        /\ \A i \in 1 .. n - 1 + 1 : b[i] = u[1 + i - 1]
    BY <2>1, <2>2, SubSeqProperties
  <2>5. Len(a) = n /\ Len(b) = n
    BY <1>1, <2>3, <2>4
  <2>6. \A i \in 1 .. n : i \in 1 .. n - 1 + 1 /\ 1 + i - 1 = i
    BY <1>1
  <2>7. \A i \in 1 .. n : a[i] = b[i]
    BY <2>1, <2>3, <2>4, <2>6
  <2> HIDE DEF a, b
  <2>8. a = b
    BY <2>3, <2>4, <2>5, <2>7, SeqEqual
  <2> QED
    BY <2>8 DEF a, b
<1>6. n <= Len(u)
  BY <1>1, <1>3, <1>4
<1>7. IsPrefix(s, u)
  BY <1>4, <1>5, <1>6 DEF IsPrefix
<1> QED
  BY <1>2, <1>7 DEF u

(* The chat that is shown when a message for it was not written.           *)
LEMMA UnsentLoaded ==
    ASSUME DataTyped, NEW q \in AllPages, q.id = "chat", Loaded(q), NEW ret, ret # "STRG_OK",
           SendMessage(q.phone, ret)
    PROVE  Loaded(q)'
<1> DEFINE p == q.phone
<1>1. p \in Phones /\ q.items \in Seq(Nat)
  BY PageFields DEF ItemsOf
<1>2. NextTime \in Nat /\ chats \in Chats /\ MessageAdd(p, NextTime, ret)
  BY NextTimeIs DEF SendMessage, DataTyped
<1>3. chats[p] \in Seq(Nat)
  BY <1>1, <1>2 DEF Chats
<1>4. Items(q) = chats[p] /\ Items(q)' = chats'[p] /\ Title(q) = Unnamed /\ Title(q)' = Unnamed
  BY DEF Items, ChatLines, MessageGetChat, Title
<1>5. power' = "off" \/ (power' = power /\ chats' = chats)
  BY <1>1, <1>2 DEF MessageAdd, Refused, Drop, Land, OnlyContact, data
<1>6. chats'[p] = chats[p] \/ chats'[p] = Append(chats[p], NextTime)
  BY <1>1, <1>2 DEF MessageAdd, Refused, Written, OnlyContact, data, Chats
<1>7. /\ q.base = 0 /\ q.total = Len(q.items) /\ q.title = Unnamed
      /\ q.items = chats[p] \/ IsPrefix(q.items, chats[p])
  BY <1>4 DEF Loaded
<1>8. IsPrefix(q.items, chats[p]) /\ IsPrefix(q.items, Append(chats[p], NextTime))
  BY <1>1, <1>2, <1>3, <1>7, PrefixGrows
<1> QED
  BY <1>4, <1>5, <1>6, <1>7, <1>8 DEF Loaded

(* No request drops a write before a power cut counts them.                *)
PowerKept == power' = power \/ (power # "on" /\ power' = "off")

LEMMA RequestPower ==
    ASSUME NEW p, NEW n, NEW q, NEW t, NEW ret,
           \/ ContactAdd(p, n, ret) \/ ContactUpdate(p, n, q, ret) \/ ContactRemove(p, ret)
           \/ MessageAdd(p, t, ret) \/ MessageRemoveChat(p, ret) \/ CallAdd(p, ret) \/ UNCHANGED dbVars
    PROVE  PowerKept
<1>1. CASE ContactAdd(p, n, ret)
  BY <1>1 DEF ContactAdd, Refused, Land, Drop, dbVars, PowerKept
<1>2. CASE ContactUpdate(p, n, q, ret)
  BY <1>2 DEF ContactUpdate, NotFound, Refused, Land, Drop, dbVars, PowerKept
<1>3. CASE ContactRemove(p, ret)
  BY <1>3 DEF ContactRemove, NotFound, Refused, Land, Drop, dbVars, PowerKept
<1>4. CASE MessageAdd(p, t, ret)
  BY <1>4 DEF MessageAdd, Refused, Land, Drop, dbVars, PowerKept
<1>5. CASE MessageRemoveChat(p, ret)
  BY <1>5 DEF MessageRemoveChat, Refused, Land, Drop, dbVars, PowerKept
<1>6. CASE CallAdd(p, ret)
  BY <1>6 DEF CallAdd, Refused, Land, Drop, dbVars, PowerKept
<1>7. CASE UNCHANGED dbVars
  BY <1>7 DEF dbVars, PowerKept
<1> QED
  BY <1>1, <1>2, <1>3, <1>4, <1>5, <1>6, <1>7

-----------------------------------------------------------------------------
(* What a key leaves: the data and the pages as they have to be.           *)
After == DataInv' /\ StackInv' /\ PowerKept

(* A key was read: the page on top is the one that was drawn.              *)
Pressed == /\ DataInv /\ StackInv /\ stack # <<>> /\ awaiting /\ ~awaiting' /\ Kept

LEMMA PressedIs ==
    ASSUME Pressed
    PROVE  /\ DataInv /\ DataTyped /\ Listed /\ mounted /\ mounted' /\ Kept /\ ~awaiting'
           /\ stack \in Seq(AllPages) /\ stack # <<>> /\ stack[Len(stack)] = Top
           /\ Top \in AllPages /\ Drawn(Top) /\ Loaded(Top) /\ Placed(Top)
BY TopIs DEF Pressed, StackInv, DataInv, Kept, Drawn, Top

(* A key that only moves between the pages, or on one.                     *)
LEMMA FreshNavigation ==
    ASSUME Pressed, NEW s, Navigates(s), Fresh(s) \/ s = stack
    PROVE  After
<1>1. stack' = s /\ UNCHANGED dbVars /\ UNCHANGED lastTime
  BY DEF Navigates
<1>2. DataInv'
  <2>1. NextTime' = NextTime /\ NextTime' >= NextTime
    BY <1>1, PressedIs, NextTimeIs DEF Kept, NextTime
  <2>2. DataTyped'
    BY <1>1, PressedIs DEF DataTyped, Kept, dbVars
  <2> QED
    BY <1>1, <2>1, <2>2, PressedIs, QuietKeeps DEF Kept, dbVars
<1>3. StackInv'
  <2>1. CASE Fresh(s)
    <3>1. Fresh(stack')
      BY <1>1, <2>1
    <3> QED
      BY <3>1, PressedIs, FreshKeeps
  <2>2. CASE s = stack
    <3>1. Loaded(Top)
      BY PressedIs
    <3>2. PICK q : q = Top
      OBVIOUS
    <3>3. Loaded(q)'
      BY <1>1, <3>1, <3>2, StillLoaded
    <3>4. stack' \in Seq(AllPages) /\ stack'[Len(stack')] = q
      BY <1>1, <2>2, <3>2, PressedIs
    <3> QED
      BY <3>3, <3>4, PressedIs, TopKeeps
  <2> QED
    BY <2>1, <2>2
<1> QED
  BY <1>1, <1>2, <1>3 DEF After, PowerKept, dbVars

LEMMA SamePageNavigation ==
    ASSUME Pressed, NEW q \in AllPages, Navigates(Topped(q)), Loaded(q)
    PROVE  After
<1>1. stack' = Topped(q) /\ UNCHANGED dbVars /\ UNCHANGED lastTime
  BY DEF Navigates
<1>2. DataInv'
  <2>1. NextTime' = NextTime /\ NextTime' >= NextTime
    BY <1>1, PressedIs, NextTimeIs DEF Kept, NextTime
  <2>2. DataTyped'
    BY <1>1, PressedIs DEF DataTyped, Kept, dbVars
  <2> QED
    BY <1>1, <2>1, <2>2, PressedIs, QuietKeeps DEF Kept, dbVars
<1>3. stack' \in Seq(AllPages) /\ stack'[Len(stack')] = q
  <2>1. Topped(q) \in Seq(AllPages) /\ Topped(q)[Len(Topped(q))] = q
    BY PressedIs, ToppedIs
  <2> QED
    BY <1>1, <2>1
<1>4. StackInv'
  BY <1>1, <1>3, PressedIs, StillLoaded, TopKeeps
<1> QED
  BY <1>1, <1>2, <1>4 DEF After, PowerKept, dbVars

(* move, K_BACK, K_QUIT                                                    *)
LEMMA MoveIs == ASSUME Pressed, NEW by \in Int, Move(by) PROVE After
<1> DEFINE page == Top  moved == page.cursor + by  scroll == page.offset - by
           o == IF scroll < 0 THEN 0 ELSE scroll
           c == IF moved < 0 THEN 0 ELSE Least(moved, page.total - 1)
           a == [page EXCEPT !.offset = o]  b == [page EXCEPT !.cursor = c]
<1>1. /\ page \in AllPages /\ Loaded(page) /\ page.cursor \in Nat /\ page.offset \in Nat /\ page.total \in Nat
  BY PressedIs, PageFields
<1>2. page \in Pages(page.id)
  BY <1>1, PageIs
<1>3. \/ page.id = "chat" /\ Navigates(Topped(a))
      \/ page.total = 0 /\ Navigates(stack)
      \/ page.total # 0 /\ Navigates(Topped(b))
  BY DEF Move
<1> HIDE DEF page
<1>4. o \in Nat /\ (page.total # 0 => c \in Nat)
  BY <1>1 DEF Least
<1> HIDE DEF o, c
<1>5. a = MovedTo(page, page.cursor, o, page.total) /\ b = MovedTo(page, c, page.offset, page.total)
  <2> HIDE DEF ItemsOf
  <2> QED
    BY <1>2 DEF MovedTo, Pages
<1> HIDE DEF a, b
<1>6. CASE page.total = 0 /\ Navigates(stack)
  BY <1>6, FreshNavigation
<1>7. ASSUME NEW q, NEW cc \in Nat, NEW oo \in Nat, q = MovedTo(page, cc, oo, page.total), Navigates(Topped(q))
      PROVE  After
  <2>1. IsMoved(q, page, cc, oo, page.total)
    BY <1>1, <1>7, PageMoved
  <2>2. q \in AllPages /\ Loaded(q)
    BY <1>1, <2>1, LoadedSame DEF IsMoved
  <2> QED
    BY <1>7, <2>2, SamePageNavigation
<1>8. CASE page.id = "chat" /\ Navigates(Topped(a))
  BY <1>1, <1>4, <1>5, <1>7, <1>8
<1>9. CASE page.total # 0 /\ Navigates(Topped(b))
  BY <1>1, <1>4, <1>5, <1>7, <1>9
<1> QED
  BY <1>3, <1>6, <1>8, <1>9

LEMMA LeavesIs == ASSUME Pressed, Navigates(<<>>) \/ Navigates(Popped) PROVE After
<1>1. Fresh(<<>>) /\ Fresh(Popped)
  BY PressedIs, PoppedIs DEF Fresh
<1> QED
  BY <1>1, FreshNavigation

(* A page that is opened from this one.                                    *)
LEMMA OpensIs ==
    ASSUME Pressed, NEW id \in Ids, NEW p \in Entered, id \in {"details", "chat"} => p \in Phones,
           Navigates(Pushed(stack, id, p))
    PROVE  After
<1>1. Pushed(stack, id, p) = stack \/ Fresh(Pushed(stack, id, p))
  BY PressedIs, PushedIs
<1> QED
  BY <1>1, FreshNavigation

LEMMA NobodyIs == Nobody \in Entered /\ Nobody \notin Phones
BY PhonesAreOrdered DEF Nobody, Entered

(* The menus of fixed items.                                               *)
LEMMA SelectMenuIs == ASSUME Pressed, SelectMenu(Top) PROVE After
<1> DEFINE page == Top
<1>1. page.id = "menu" /\ Navigates(Pushed(stack, Menu[page.cursor + 1], Nobody))
  BY DEF SelectMenu
<1>2. page \in AllPages /\ Loaded(page) /\ Placed(page) /\ page.cursor \in Nat
  BY PressedIs, PageFields
<1>3. page.items = Menu /\ page.total = Len(page.items)
  BY <1>1, <1>2 DEF Loaded, Items
<1>4. page.total = 3
  <2>1. Len(Menu) = 3
    BY DEF Menu
  <2> QED
    BY <1>3, <2>1
<1>5. page.cursor < 3
  BY <1>1, <1>2, <1>4 DEF Placed
<1> HIDE DEF page
<1>6. page.cursor = 0 \/ page.cursor = 1 \/ page.cursor = 2
  BY <1>2, <1>5
<1>7. Menu[1] = "phone" /\ Menu[2] = "sms" /\ Menu[3] = "contacts"
  BY DEF Menu
<1>8. Menu[page.cursor + 1] \in {"phone", "sms", "contacts"}
  BY <1>6, <1>7
<1>9. Menu[page.cursor + 1] \in Ids /\ Menu[page.cursor + 1] \notin {"details", "chat"}
  BY <1>8 DEF Ids
<1> QED
  BY <1>1, <1>9, NobodyIs, OpensIs

(* The pages as they are, or fresh ones, after a request.                  *)
LEMMA RequestFresh ==
    ASSUME Pressed, DataInv', PowerKept, Fresh(stack') PROVE After
BY PressedIs, FreshKeeps DEF After

LEMMA RequestSame ==
    ASSUME Pressed, DataInv', PowerKept, Loaded(Top) => \A q : q = Top => Loaded(q)', stack' = stack
    PROVE  After
<1>1. PICK q : q = Top
  OBVIOUS
<1>2. Loaded(q)'
  BY <1>1, PressedIs
<1>3. stack' \in Seq(AllPages) /\ stack'[Len(stack')] = q
  BY <1>1, PressedIs
<1>4. StackInv'
  BY <1>2, <1>3, PressedIs, TopKeeps
<1> QED
  BY <1>4 DEF After

(* The page of calls: a call to the number entered, or the history.        *)
LEMMA SelectPhoneIs == ASSUME Pressed, SelectPhone(Top) PROVE After
<1>1. CASE Navigates(Pushed(stack, "calls", Nobody))
  BY <1>1, NobodyIs, OpensIs DEF Ids
<1>2. ASSUME NEW p \in Entered, NEW ret \in Returns, Top.id = "phone", CallAdd(p, ret), UNCHANGED <<stack, lastTime>>
      PROVE  After
  <2>1. DataInv' /\ PowerKept
    BY <1>2, PressedIs, CallKeeps, RequestPower
  <2>2. Loaded(Top) => \A q : q = Top => Loaded(q)'
    BY <1>2, FixedLoaded
  <2> QED
    BY <1>2, <2>1, <2>2, RequestSame
<1> QED
  BY <1>1, <1>2 DEF SelectPhone

(* The page of messages.                                                   *)
LEMMA SelectSmsIs == ASSUME Pressed, SelectSms(Top) PROVE After
<1>1. CASE Navigates(Pushed(stack, "inbox", Nobody))
  BY <1>1, NobodyIs, OpensIs DEF Ids
<1>2. ASSUME NEW p \in Entered, NEW ret \in Returns, Top.id = "sms", SendMessage(p, ret), OpensChat(p, ret, stack)
      PROVE  After
  <2>1. DataInv'
    BY <1>2, PressedIs, SendKeeps
  <2>2. PowerKept
    BY <1>2, RequestPower DEF SendMessage
  <2>3. Loaded(Top) => \A q : q = Top => Loaded(q)'
    BY <1>2, FixedLoaded
  <2>4. CASE ret = "STRG_OK"
    <3>1. p \in Phones
      BY <1>2, <2>4 DEF SendMessage, MessageAdd, Refused
    <3>2. stack' = Pushed(stack, "chat", p)
      BY <1>2, <2>4 DEF OpensChat
    <3>3. stack' = stack \/ Fresh(stack')
      BY <1>2, <3>1, <3>2, PressedIs, PushedIs DEF Ids
    <3> QED
      BY <2>1, <2>2, <2>3, <3>3, RequestSame, RequestFresh
  <2>5. CASE ret # "STRG_OK"
    <3>1. stack' = stack
      BY <1>2, <2>5 DEF OpensChat
    <3> QED
      BY <2>1, <2>2, <2>3, <3>1, RequestSame
  <2> QED
    BY <2>4, <2>5
<1> QED
  BY <1>1, <1>2 DEF SelectSms

(* A row of the calls, the inbox or the contacts.                          *)
LEMMA SelectRowIs == ASSUME Pressed, SelectRow(Top) PROVE After
<1> DEFINE page == Top  id == IF page.id = "inbox" THEN "chat" ELSE "details"  p == CursorPhone(page)
           s == IF p = Nobody THEN stack ELSE Pushed(stack, id, p)
<1>1. page.id \in {"calls", "contacts", "inbox"} /\ Navigates(s)
  BY DEF SelectRow
<1>2. page \in AllPages /\ page.cursor \in Nat /\ page.base \in Nat /\ page.items \in Seq(ItemsOf(page.id))
  BY PressedIs, PageFields
<1> HIDE DEF page
<1>3. p # Nobody => p \in Phones
  <2> DEFINE k == page.cursor - page.base
  <2>1. p = IF page.total = 0 \/ k < 0 \/ k >= Len(page.items) THEN Nobody ELSE page.items[k + 1].phone
    BY DEF CursorPhone
  <2>2. k \in Int /\ Len(page.items) \in Nat
    BY <1>2, LenProperties
  <2> HIDE DEF k, p
  <2>3. ASSUME p # Nobody PROVE p \in Phones
    <3>1. p = page.items[k + 1].phone /\ k + 1 \in 1 .. Len(page.items)
      BY <2>1, <2>2, <2>3
    <3>2. page.items[k + 1] \in ItemsOf(page.id)
      BY <1>2, <3>1, ElementOfSeq
    <3>3. ItemsOf(page.id) = Entries \/ ItemsOf(page.id) = NamedRows
      BY <1>1 DEF ItemsOf
    <3>4. page.items[k + 1] \in Entries \/ page.items[k + 1] \in NamedRows
      BY <3>2, <3>3
    <3>5. page.items[k + 1].phone \in Phones
      BY <3>4 DEF Entries, NamedRows
    <3> QED
      BY <3>1, <3>5
  <2> QED
    BY <2>3
<1> HIDE DEF p
<1>4. id \in Ids
  BY DEF Ids
<1> HIDE DEF id
<1>5. CASE p = Nobody
  <2>1. Navigates(stack)
    BY <1>1, <1>5
  <2> QED
    BY <2>1, FreshNavigation
<1>6. CASE p # Nobody
  <2>1. p \in Phones /\ p \in Entered
    BY <1>3, <1>6 DEF Entered
  <2>2. Navigates(Pushed(stack, id, p))
    BY <1>1, <1>6
  <2> QED
    BY <1>4, <2>1, <2>2, OpensIs
<1> QED
  BY <1>5, <1>6

(* The actions on a contact: to call, write to, edit or delete it. A       *)
(* contact that is deleted takes its page off the stack, an edited one     *)
(* changes the number of its page.                                         *)
LEMMA DetailsActionIs == ASSUME Pressed, Top.id = "details", DetailsAction(Top) PROVE After
<1>1. PICK page : page = Top
  OBVIOUS
<1>2. /\ page \in AllPages /\ page.phone \in Phones /\ page.phone \in Entered /\ page.title \in Names
      /\ DataInv /\ mounted /\ Kept
  BY <1>1, PressedIs, PageFields DEF Entered
<1> DEFINE stale == Topped(Stale(page))  p == page.phone
<1>3. stale \in Seq(AllPages) /\ stale # <<>> /\ Fresh(stale)
  BY <1>2, PressedIs, PageStale, ToppedIs DEF Fresh
<1>4. Fresh(Pushed(stale, "chat", p))
  <2>1. "chat" \in Ids
    BY DEF Ids
  <2> HIDE DEF stale
  <2>2. Pushed(stale, "chat", p) = stale \/ Fresh(Pushed(stale, "chat", p))
    BY <1>2, <1>3, <2>1, PushedIs
  <2> QED
    BY <1>3, <2>2
<1>5. Fresh(Popped)
  BY PressedIs, PoppedIs
<1>6. \/ Navigates(Pushed(stale, "chat", p))
      \/ (\E ret \in Returns : CallAdd(p, ret)) /\ stack' = stale /\ UNCHANGED lastTime
      \/ \E ret \in Returns : SendMessage(p, ret) /\ OpensChat(p, ret, stale)
      \/ (\E n \in NamesGiven, ret \in Returns : ContactAdd(p, n, ret)) /\ stack' = stale /\ UNCHANGED lastTime
      \/ /\ \E n \in NamesGiven \cup {Unnamed}, q \in Entered, ret \in Returns :
               /\ ContactUpdate(p, IF n = Unnamed THEN KeptName(page) ELSE n, q, ret)
               /\ stack' = IF ret = "STRG_OK" THEN Topped(Stale([page EXCEPT !.phone = q])) ELSE stale
         /\ UNCHANGED lastTime
      \/ /\ \E ret \in Returns :
               /\ ContactRemove(p, ret)
               /\ stack' = IF ret = "STRG_OK" THEN Popped ELSE stale
         /\ UNCHANGED lastTime
      \/ Navigates(stale)
  BY <1>1 DEF DetailsAction
<1> HIDE DEF stale
<1>7. CASE Navigates(Pushed(stale, "chat", p))
  BY <1>4, <1>7, FreshNavigation
<1>8. CASE (\E ret \in Returns : CallAdd(p, ret)) /\ stack' = stale /\ UNCHANGED lastTime
  <2>1. PICK ret \in Returns : CallAdd(p, ret)
    BY <1>8
  <2>2. DataInv' /\ PowerKept
    BY <1>2, <1>8, <2>1, CallKeeps, RequestPower
  <2> QED
    BY <1>3, <1>8, <2>2, RequestFresh
<1>9. CASE \E ret \in Returns : SendMessage(p, ret) /\ OpensChat(p, ret, stale)
  <2>1. PICK ret \in Returns : SendMessage(p, ret) /\ OpensChat(p, ret, stale)
    BY <1>9
  <2>2. DataInv'
    BY <1>2, <2>1, SendKeeps
  <2>3. PowerKept
    BY <2>1, RequestPower DEF SendMessage
  <2>4. Fresh(stack')
    BY <1>3, <1>4, <2>1 DEF OpensChat
  <2> QED
    BY <2>2, <2>3, <2>4, RequestFresh
<1>10. CASE (\E n \in NamesGiven, ret \in Returns : ContactAdd(p, n, ret)) /\ stack' = stale /\ UNCHANGED lastTime
  <2>1. PICK n \in NamesGiven, ret \in Returns : ContactAdd(p, n, ret)
    BY <1>10
  <2>2. n \in Names
    BY NamesAreEntered
  <2>3. DataInv' /\ PowerKept
    BY <1>2, <1>10, <2>1, <2>2, AddKeeps, RequestPower
  <2> QED
    BY <1>3, <1>10, <2>3, RequestFresh
<1>11. CASE /\ \E n \in NamesGiven \cup {Unnamed}, q \in Entered, ret \in Returns :
                  /\ ContactUpdate(p, IF n = Unnamed THEN KeptName(page) ELSE n, q, ret)
                  /\ stack' = IF ret = "STRG_OK" THEN Topped(Stale([page EXCEPT !.phone = q])) ELSE stale
            /\ UNCHANGED lastTime
  <2>1. PICK n \in NamesGiven \cup {Unnamed}, q \in Entered, ret \in Returns :
               /\ ContactUpdate(p, IF n = Unnamed THEN KeptName(page) ELSE n, q, ret)
               /\ stack' = IF ret = "STRG_OK" THEN Topped(Stale([page EXCEPT !.phone = q])) ELSE stale
    BY <1>11
  <2> DEFINE m == IF n = Unnamed THEN KeptName(page) ELSE n
  <2>2. m \in Names
    BY <1>2, NamesAreEntered, NamesAreOrdered DEF KeptName
  <2>3. ContactUpdate(p, m, q, ret)
    BY <2>1
  <2> HIDE DEF m
  <2>4. DataInv' /\ PowerKept
    BY <1>2, <1>11, <2>2, <2>3, UpdateKeeps, RequestPower
  <2>5. Fresh(stack')
    <3>1. CASE ret = "STRG_OK"
      <4>1. q \in Phones
        BY <2>3, <3>1 DEF ContactUpdate, NotFound, Refused
      <4>2. PICK r : r = [page EXCEPT !.phone = q]
        OBVIOUS
      <4>3. Stale(r) \in AllPages /\ Stale(r).stale
        BY <1>2, <4>1, <4>2, PageOfPhone, PageStale
      <4>4. stack' = Topped(Stale(r))
        BY <2>1, <3>1, <4>2
      <4> QED
        BY <4>3, <4>4, PressedIs, ToppedIs DEF Fresh
    <3>2. CASE ret # "STRG_OK"
      BY <1>3, <2>1, <3>2
    <3> QED
      BY <3>1, <3>2
  <2> QED
    BY <2>4, <2>5, RequestFresh
<1>12. CASE /\ \E ret \in Returns :
                  /\ ContactRemove(p, ret)
                  /\ stack' = IF ret = "STRG_OK" THEN Popped ELSE stale
            /\ UNCHANGED lastTime
  <2>1. PICK ret \in Returns : /\ ContactRemove(p, ret)
                               /\ stack' = IF ret = "STRG_OK" THEN Popped ELSE stale
    BY <1>12
  <2>2. DataInv' /\ PowerKept
    BY <1>2, <1>12, <2>1, RemoveKeeps, RequestPower
  <2>3. Fresh(stack')
    BY <1>3, <1>5, <2>1
  <2> QED
    BY <2>2, <2>3, RequestFresh
<1>13. CASE Navigates(stale)
  BY <1>3, <1>13, FreshNavigation
<1> QED
  BY <1>6, <1>7, <1>8, <1>9, <1>10, <1>11, <1>12, <1>13

(* A message from the page of a chat.                                      *)
LEMMA MessageInChatIs == ASSUME Pressed, MessageInChat(Top) PROVE After
<1>1. PICK page : page = Top
  OBVIOUS
<1>2. PICK ret \in Returns :
          /\ SendMessage(page.phone, ret)
          /\ stack' = IF ret = "STRG_OK" THEN Topped(Stale([page EXCEPT !.offset = 0])) ELSE stack
  BY <1>1 DEF MessageInChat
<1>3. page \in AllPages /\ page.id = "chat" /\ Loaded(page)
  BY <1>1, PressedIs DEF MessageInChat
<1>4. DataInv'
  BY <1>2, PressedIs, SendKeeps
<1>5. PowerKept
  BY <1>2, RequestPower DEF SendMessage
<1>6. CASE ret = "STRG_OK"
  <2> DEFINE q == [page EXCEPT !.offset = 0]
  <2>1. q = MovedTo(page, page.cursor, 0, page.total)
    <3>1. page \in Pages(page.id)
      BY <1>3, PageIs
    <3> HIDE DEF ItemsOf
    <3> QED
      BY <3>1 DEF MovedTo, Pages
  <2>2. page.cursor \in Nat /\ page.total \in Nat /\ 0 \in Nat
    BY <1>3, PageFields
  <2> HIDE DEF q
  <2>3. IsMoved(q, page, page.cursor, 0, page.total)
    BY <1>3, <2>1, <2>2, PageMoved
  <2>4. Stale(q) \in AllPages /\ Stale(q).stale
    BY <2>3, PageStale DEF IsMoved
  <2>5. stack' = Topped(Stale(q))
    BY <1>2, <1>6 DEF q
  <2>6. Fresh(stack')
    BY <2>4, <2>5, PressedIs, ToppedIs DEF Fresh
  <2> QED
    BY <1>4, <1>5, <2>6, RequestFresh
<1>7. CASE ret # "STRG_OK"
  <2>1. Loaded(page)'
    BY <1>2, <1>3, <1>7, PressedIs, UnsentLoaded
  <2>2. stack' = stack
    BY <1>2, <1>7
  <2> QED
    BY <1>1, <1>4, <1>5, <2>1, <2>2, RequestSame
<1> QED
  BY <1>6, <1>7

(* The list of contacts with the cursor elsewhere.                         *)
Elsewhere(page, c, o) == [page EXCEPT !.cursor = c, !.offset = o]

LEMMA ElsewhereIs ==
    ASSUME NEW page \in AllPages, page.id = "contacts", NEW c \in Nat, NEW o \in Nat
    PROVE  Elsewhere(page, c, o) \in AllPages /\ Elsewhere(page, c, o).id = "contacts"
<1> DEFINE q == Elsewhere(page, c, o)
<1>1. page \in Pages(page.id)
  BY PageIs
<1>2. q = MovedTo(page, c, o, page.total)
  <2> HIDE DEF ItemsOf
  <2> QED
    BY <1>1 DEF Elsewhere, MovedTo, Pages
<1> HIDE DEF q
<1>3. page.total \in Nat
  BY PageFields
<1>4. IsMoved(q, page, c, o, page.total)
  BY <1>2, <1>3, PageMoved
<1> QED
  BY <1>4 DEF IsMoved, q

(* The search moves the cursor of the list of contacts to a name.          *)
LEMMA SearchIs == ASSUME Pressed, Search PROVE After
<1>1. PICK page : page = Top
  OBVIOUS
<1>2. page \in AllPages /\ page.id = "contacts" /\ nameIndex \in Seq(Phones)
  BY <1>1, PressedIs DEF Search, DataTyped
<1>3. PICK rank \in 0 .. Len(nameIndex) : Navigates(Topped([page EXCEPT !.cursor = rank, !.offset = rank]))
  BY <1>1 DEF Search
<1>4. rank \in Nat
  BY <1>2, <1>3, LenProperties
<1>5. PICK q : q = Elsewhere(page, rank, rank)
  OBVIOUS
<1>6. q \in AllPages /\ q.id = "contacts"
  BY <1>2, <1>4, <1>5, ElsewhereIs
<1>7. Loaded(q)
  BY <1>6 DEF Loaded
<1> QED
  BY <1>3, <1>5, <1>6, <1>7, SamePageNavigation DEF Elsewhere

(* A contact that is added from the list of contacts.                      *)
LEMMA AddFromListIs == ASSUME Pressed, AddFromList PROVE After
<1>1. PICK page : page = Top
  OBVIOUS
<1>2. page \in AllPages /\ page.id = "contacts" /\ page.offset \in Nat
  BY <1>1, PressedIs, PageFields DEF AddFromList
<1>3. PICK p \in Entered, n \in NamesGiven, ret \in Returns :
          /\ ContactAdd(p, n, ret)
          /\ stack' = stack \/ \E rank \in 0 .. Len(nameIndex') : stack' = Topped([page EXCEPT !.cursor = rank])
  BY <1>1 DEF AddFromList
<1>4. n \in Names /\ UNCHANGED lastTime
  BY NamesAreEntered DEF AddFromList
<1>5. DataInv' /\ PowerKept
  BY <1>3, <1>4, PressedIs, AddKeeps, RequestPower
<1>6. CASE stack' = stack
  <2>1. Loaded(Top) => \A q : q = Top => Loaded(q)'
    BY <1>1, <1>2, FixedLoaded
  <2> QED
    BY <1>5, <1>6, <2>1, RequestSame
<1>7. ASSUME NEW rank \in 0 .. Len(nameIndex'), stack' = Topped([page EXCEPT !.cursor = rank]) PROVE After
  <2>1. rank \in Nat
    <3>1. nameIndex' \in Seq(Phones)
      BY <1>5 DEF DataInv, DataTyped
    <3> QED
      BY <1>7, <3>1, LenProperties
  <2>2. PICK q : q = [page EXCEPT !.cursor = rank]
    OBVIOUS
  <2>3. q = Elsewhere(page, rank, page.offset)
    <3>1. page \in Pages(page.id)
      BY <1>2, PageIs
    <3> HIDE DEF ItemsOf
    <3> QED
      BY <2>2, <3>1 DEF Elsewhere, Pages
  <2>4. q \in AllPages /\ q.id = "contacts"
    BY <1>2, <2>1, <2>3, ElsewhereIs
  <2>5. Loaded(q)'
    BY <2>4 DEF Loaded
  <2>6. stack' \in Seq(AllPages) /\ stack'[Len(stack')] = q
    BY <1>7, <2>2, <2>4, PressedIs, ToppedIs
  <2>7. StackInv'
    BY <2>5, <2>6, PressedIs, TopKeeps
  <2> QED
    BY <1>5, <2>7 DEF After
<1> QED
  BY <1>3, <1>6, <1>7

-----------------------------------------------------------------------------
(* Writes are dropped only after a power cut that the prompt has armed.    *)
Powered == powercut = "no" => power = "on"

(* The inductive invariant of the demo.                                    *)
CliInv == DataInv /\ StackInv /\ Powered

(* phone_ui_run: the page on top is clamped, loaded if it is stale, and    *)
(* drawn.                                                                  *)
LEMMA DrawKeeps == ASSUME CliInv, Draw, UNCHANGED cliVars PROVE CliInv'
<1>1. PICK page : page = Top
  OBVIOUS
<1>2. PICK c : c = Clamped(page)
  OBVIOUS
<1>3. PICK q : q = IF c.stale \/ c.id = "contacts" THEN Clamped(Refreshed(c)) ELSE c
  OBVIOUS
<1>4. /\ stack # <<>> /\ awaiting' = TRUE /\ UNCHANGED <<dbVars, clock, lastTime>> /\ UNCHANGED cliVars
      /\ mounted' = mounted /\ behind' = behind /\ powercut' = powercut /\ power' = power
  BY DEF Draw, cliVars, dbVars
<1>5. page \in AllPages /\ mounted /\ (page.stale \/ Loaded(page))
  BY <1>1, <1>4, TopIs DEF CliInv
<1>6. c.stale = page.stale /\ c.id = page.id
  BY <1>2, <1>5, ClampedIs
<1>7. stack' = Topped(q)
  BY <1>1, <1>2, <1>3, <1>6 DEF Draw
<1>8. q \in AllPages /\ Drawn(q)
  BY <1>2, <1>3, <1>5, DrawIs DEF CliInv, DataInv
<1>9. stack \in Seq(AllPages)
  BY DEF CliInv, StackInv
<1>10. stack' \in Seq(AllPages) /\ stack'[Len(stack')] = q
  BY <1>4, <1>7, <1>8, <1>9, ToppedIs
<1>11. Drawn(q)' /\ Loaded(q)'
  BY <1>4, <1>8, StillLoaded DEF Drawn
<1>12. StackInv'
  BY <1>4, <1>5, <1>10, <1>11 DEF StackInv
<1>13. DataInv'
  <2>1. NextTime' = NextTime /\ NextTime' >= NextTime
    BY <1>4, NextTimeIs DEF CliInv, DataInv, NextTime
  <2>2. DataTyped'
    BY <1>4 DEF CliInv, DataInv, DataTyped, dbVars
  <2> QED
    BY <1>4, <2>1, <2>2, QuietKeeps DEF CliInv, dbVars
<1> QED
  BY <1>4, <1>12, <1>13 DEF CliInv, Powered

(* Every key.                                                              *)
LEMMA KeyKeeps == ASSUME CliInv, Key, UNCHANGED cliVars PROVE CliInv'
<1>1. Pressed /\ powercut' = powercut
  BY DEF CliInv, Key, Pressed, Kept, cliVars
<1>2. ROWS \in Int
  BY Screen
<1>3. \/ Navigates(<<>>) \/ Navigates(Popped) \/ \E by \in {-1, 1, -ROWS, ROWS} : Move(by)
      \/ SelectMenu(Top) \/ SelectPhone(Top) \/ SelectSms(Top) \/ SelectRow(Top)
      \/ Top.id = "details" /\ DetailsAction(Top)
      \/ MessageInChat(Top) \/ AddFromList \/ Search
  BY DEF Key, Select
<1>4. ASSUME NEW by \in {-1, 1, -ROWS, ROWS}, Move(by) PROVE After
  <2>1. by \in Int
    BY <1>2
  <2> QED
    BY <1>1, <1>4, <2>1, MoveIs
<1>5. After
  BY <1>1, <1>3, <1>4, LeavesIs, SelectMenuIs, SelectPhoneIs, SelectSmsIs, SelectRowIs, DetailsActionIs,
     MessageInChatIs, AddFromListIs, SearchIs
<1> QED
  BY <1>1, <1>5 DEF After, CliInv, Powered, PowerKept

(* A command of the prompt drops writes only when power is not "on".       *)
LEMMA CommandPower == ASSUME Command PROVE PowerKept
<1>1. PICK p \in Phones, ret \in Returns :
          \/ CmdAdd(p, ret) \/ CmdUpdate(p, ret) \/ CmdRm(p, ret)
          \/ CmdMsg(p, ret) \/ CmdRmchat(p, ret) \/ CmdCall(p, ret)
  BY DEF Command
<1> QED
  BY <1>1, RequestPower DEF CmdAdd, CmdUpdate, CmdRm, CmdMsg, CmdRmchat, CmdCall, SendMessage

(* At the prompt no page is open.                                          *)
LEMMA PromptStack == ASSUME stack' = <<>> PROVE StackInv'
BY DEF StackInv

(* Every step of the demo keeps the invariant.                             *)
LEMMA CliKeeps == ASSUME CliInv, [CliNext]_allVars PROVE CliInv'
<1> USE DEF CliInv
<1>1. CASE Menus
  BY <1>1, DrawKeeps, KeyKeeps DEF Menus
<1>2. CASE Command
  <2>1. DataInv' /\ PowerKept
    BY <1>2, CommandKeeps, CommandPower
  <2>2. stack' = <<>>
    BY <1>2 DEF Command, Dispatched, Ready, AtPrompt
  <2>3. Powered'
    BY <1>2, <2>1 DEF Command, Ran, Powered, PowerKept
  <2> QED
    BY <2>1, <2>2, <2>3, PromptStack
<1>3. CASE Run
  <2>1. UNCHANGED <<dbVars, clock, lastTime, mounted, behind>> /\ mounted /\ Ran /\ RunMenus
    BY <1>3 DEF Run, Dispatched
  <2>2. DataInv'
    <3>1. NextTime' = NextTime /\ NextTime' >= NextTime
      BY <2>1, NextTimeIs DEF DataInv, NextTime
    <3>2. DataTyped'
      BY <2>1 DEF DataInv, DataTyped, dbVars
    <3> QED
      BY <2>1, <3>1, <3>2, QuietKeeps DEF dbVars
  <2>3. StackInv'
    <3> DEFINE page == NewPage("menu", Nobody)
    <3>1. page \in AllPages /\ page.stale
      BY NobodyIs, NewPageIs DEF Ids
    <3>2. stack' = <<page>> /\ ~awaiting'
      BY <2>1 DEF RunMenus
    <3> HIDE DEF page
    <3>3. stack' \in Seq(AllPages) /\ stack'[Len(stack')] = page
      BY <3>1, <3>2
    <3>4. Fresh(stack')
      BY <3>1, <3>3 DEF Fresh
    <3> QED
      BY <2>1, <3>2, <3>4, FreshKeeps
  <2>4. Powered'
    BY <2>1 DEF Ran, Powered, dbVars
  <2> QED
    BY <2>2, <2>3, <2>4
<1>4. CASE PowerCut
  <2>1. /\ UNCHANGED <<contacts, nameIndex, chats, chatOrder, calls, card, unlisted>>
        /\ UNCHANGED <<clock, lastTime, mounted, behind>>
        /\ power = "on" /\ powercut' = "before" /\ stack' = <<>>
    BY <1>4 DEF PowerCut, Dispatched, Ready, AtPrompt, Powered, data, uiVars
  <2>2. DataInv'
    BY <2>1, StillKeeps
  <2> QED
    BY <2>1, <2>2, PromptStack DEF Powered
<1>5. CASE Reboot
  <2>1. stack' = <<>> /\ power' = "on"
    BY <1>5 DEF Reboot, AtPrompt, Booted, uiVars
  <2> QED
    BY <1>5, <2>1, RebootKeeps, PromptStack DEF Powered
<1>6. CASE Format
  <2>1. stack' = <<>> /\ power' = power /\ powercut' = powercut
    BY <1>6 DEF Format, AtPrompt, uiVars
  <2> QED
    BY <1>6, <2>1, FormatKeeps, PromptStack DEF Powered
<1>7. CASE Restart
  <2>1. stack' = <<>> /\ power' = "on"
    BY <1>7 DEF Restart, AtPrompt, Booted
  <2> QED
    BY <1>7, <2>1, RestartKeeps, PromptStack DEF Powered
<1>8. CASE Tick
  <2>1. stack' = <<>> /\ power' = power /\ powercut' = powercut
    BY <1>8 DEF Tick, AtPrompt, cliVars, dbVars
  <2> QED
    BY <1>8, <2>1, TickKeeps, PromptStack DEF Powered
<1>9. CASE UNCHANGED allVars
  <2>1. UNCHANGED <<dbVars, uiVars, mounted, powercut, header, processes, behind>>
    BY <1>9 DEF allVars
  <2>2. /\ UNCHANGED <<contacts, nameIndex, chats, chatOrder, calls, card, unlisted, power>>
        /\ UNCHANGED <<stack, awaiting, clock, lastTime, mounted, behind, powercut>>
    BY <2>1 DEF dbVars, uiVars
  <2>3. DataInv'
    <3>1. NextTime' = NextTime /\ NextTime' >= NextTime
      BY <2>2, NextTimeIs DEF DataInv, NextTime
    <3>2. DataTyped'
      BY <2>2 DEF DataInv, DataTyped
    <3> QED
      BY <2>2, <3>1, <3>2, QuietKeeps
  <2>4. StackInv'
    <3>1. \A q \in AllPages : (Loaded(q) => Loaded(q)') /\ (Drawn(q) => Drawn(q)')
      BY <2>1, StillLoaded DEF Drawn
    <3> QED
      BY <2>2, <3>1 DEF StackInv
  <2> QED
    BY <2>2, <2>3, <2>4 DEF Powered
<1> QED
  BY <1>1, <1>2, <1>3, <1>4, <1>5, <1>6, <1>7, <1>8, <1>9 DEF CliNext

-----------------------------------------------------------------------------
(* The inductive invariant of the demo: RAM, card, pages and power fit     *)
(* together after every key, command, power cut, reboot, format, restart   *)
(* and tick (db_cli.c, phone_ui.c).                                        *)
THEOREM DemoInvariant == CliSpec => []CliInv
<1>1. CliInit => CliInv
  <2> SUFFICES ASSUME CliInit PROVE CliInv
    OBVIOUS
  <2>1. DataInv
    BY StartIs
  <2>2. StackInv /\ Powered
    BY DEF CliInit, StackInv, Powered
  <2> QED
    BY <2>1, <2>2 DEF CliInv
<1>2. CliInv /\ [CliNext]_allVars => CliInv'
  BY CliKeeps
<1> QED
  BY <1>1, <1>2, PTL DEF CliSpec

(* As long as no write was dropped and every process started after the     *)
(* times of the card, a reboot gives the contacts, the chats and the order *)
(* of both lists as they were, and adds to the list of names only contacts *)
(* that a message without a sector has left out since the last boot        *)
(* (cmd_reboot, boot, next_ts, database_message_add).                      *)
THEOREM RebootChangesNothing == CliSpec => []BootIsNoChange
<1>1. CliInv => BootIsNoChange
  BY DEF CliInv, DataInv, CardInv, Stored, BootIsNoChange, BootAgrees, Indexed, Known
<1> QED
  BY <1>1, DemoInvariant, PTL

(* The page that is on the screen while a key is awaited.                  *)
LEMMA DrawnTop ==
    ASSUME CliInv, AwaitingKey
    PROVE  Top \in AllPages /\ Drawn(Top) /\ DataTyped /\ Listed
BY TopIs DEF CliInv, DataInv, AwaitingKey

(* While phone_ui_run waits for a key, refresh would change nothing on the *)
(* page on top: what a key has changed in the database is never missing    *)
(* from the screen. Only a chat whose message was not written shows fewer  *)
(* messages than RAM has.                                                  *)
THEOREM ScreenShowsDatabase == CliSpec => []ShownIsStored
<1>1. CliInv => ShownIsStored
  <2> SUFFICES ASSUME CliInv, AwaitingKey
               PROVE  IF Top.id = "chat" /\ power = "off"
                      THEN IsPrefix(Top.items, Refreshed(Top).items) ELSE Top = Refreshed(Top)
    BY DEF ShownIsStored
  <2>1. PICK page : page = Top
    OBVIOUS
  <2>2. PICK now : now = Refreshed(page)
    OBVIOUS
  <2>3. page \in AllPages /\ ~page.stale /\ Loaded(page) /\ Fetched(page) /\ DataTyped /\ Listed
    BY <2>1, DrawnTop DEF Drawn
  <2>4. /\ now \in AllPages /\ now.id = page.id /\ now.phone = page.phone /\ now.cursor = page.cursor
        /\ now.offset = page.offset /\ now.stale = FALSE /\ now.items = Items(page) /\ now.title = Title(page)
        /\ now.base = IF page.id = "contacts" THEN page.offset ELSE 0
        /\ now.total = IF page.id = "contacts" THEN page.total ELSE Len(Items(page))
    BY <2>2, <2>3, RefreshedIs DEF IsLoaded
  <2>5. page.stale = FALSE
    BY <2>3, PageFields
  <2>6. CASE page.id = "chat" /\ power = "off"
    <3>1. page.items \in Seq(Nat)
      BY <2>3, <2>6, PageFields DEF ItemsOf
    <3>2. page.items = now.items \/ IsPrefix(page.items, now.items)
      BY <2>3, <2>4, <2>6 DEF Loaded
    <3>3. now.items \in Seq(Nat) /\ 0 \in Nat
      BY <2>4, <2>6, PageFields DEF ItemsOf
    <3>4. IsPrefix(page.items, now.items)
      BY <3>1, <3>2, <3>3, PrefixGrows
    <3> QED
      BY <2>1, <2>2, <2>6, <3>4
  <2>7. CASE ~ (page.id = "chat" /\ power = "off")
    <3>1. page.items = now.items /\ page.title = now.title /\ page.base = now.base /\ page.total = now.total
      BY <2>3, <2>4, <2>7 DEF Loaded, Fetched
    <3>2. page = now
      BY <2>3, <2>4, <2>5, <3>1, SamePage
    <3> QED
      BY <2>1, <2>2, <2>7, <3>2
  <2> QED
    BY <2>6, <2>7
<1> QED
  BY <1>1, DemoInvariant, PTL

(* While phone_ui_run waits for a key, clamp and the drawing keep the      *)
(* marked row on the screen, unless the list is empty or the cursor is on  *)
(* a contact that the list of names has lost; a chat fills the screen with *)
(* what it has.                                                            *)
THEOREM CursorStaysOnScreen == CliSpec => []CursorOnRow
<1>1. CliInv => CursorOnRow
  <2> SUFFICES ASSUME CliInv, AwaitingKey
               PROVE  LET page == Top
                      IN  IF page.id = "chat"
                          THEN Len(DrawnChat(page)) = Least(page.total, ROWS)
                          ELSE \/ \E k \in 0 .. PageRows(page) - 1 : DrawnList(page)[k].marked
                               \/ page.total = 0 /\ page.items = <<>>
                               \/ page.id = "contacts" /\ page.cursor \in Len(nameIndex) .. ContactCount - 1
    BY DEF CursorOnRow
  <2>1. PICK page : page = Top
    OBVIOUS
  <2>2. /\ page \in AllPages /\ Loaded(page) /\ Placed(page) /\ Fetched(page) /\ DataTyped /\ Listed
    BY <2>1, DrawnTop DEF Drawn
  <2>3. /\ page.cursor \in Nat /\ page.offset \in Nat /\ page.items \in Seq(ItemsOf(page.id))
        /\ page.base \in Nat /\ page.total \in Nat /\ Len(page.items) \in Nat
        /\ PageRows(page) \in Nat \ {0} /\ ROWS \in Nat \ {0}
    BY <2>2, PageFields, Screen, LenProperties DEF PageRows
  <2>4. CASE page.id = "chat"
    <3> DEFINE end == page.total - page.offset  first == (IF end > ROWS THEN end - ROWS ELSE 0) + 1
               drawn == SubSeq(page.items, first, end)
    <3>1. page.total = Len(page.items) /\ page.offset <= IF page.total > ROWS THEN page.total - ROWS ELSE 0
      BY <2>2, <2>4 DEF Loaded, Placed
    <3>2. end \in 0 .. page.total /\ first \in Int /\ first >= 1 /\ first <= end + 1
          /\ (end - first) + 1 = Least(page.total, ROWS)
      <4>1. end \in 0 .. page.total /\ (page.total <= ROWS => end = page.total) /\ (page.total > ROWS => end >= ROWS)
        BY <2>3, <3>1
      <4> HIDE DEF end
      <4>2. CASE end > ROWS
        <5>1. first = end - ROWS + 1 /\ page.total > ROWS
          BY <2>3, <4>1, <4>2
        <5> QED
          BY <2>3, <4>1, <4>2, <5>1 DEF Least
      <4>3. CASE ~ (end > ROWS)
        <5>1. first = 1
          BY <4>3
        <5>2. end = Least(page.total, ROWS)
          BY <2>3, <4>1, <4>3 DEF Least
        <5> QED
          BY <2>3, <4>1, <5>1, <5>2
      <4> QED
        BY <4>2, <4>3
    <3> HIDE DEF end, first
    <3>3. \A i \in first .. end : page.items[i] \in ItemsOf(page.id)
      <4>1. \A i \in first .. end : i \in 1 .. Len(page.items)
        BY <2>3, <3>1, <3>2
      <4> QED
        BY <2>3, <4>1, ElementOfSeq
    <3>4. end \in Int
      BY <2>3, <3>2
    <3>5. Len(drawn) = IF first <= end THEN (end - first) + 1 ELSE 0
      BY <3>2, <3>3, <3>4, SubSeqProperties
    <3>6. Len(drawn) = Least(page.total, ROWS)
      BY <2>3, <3>2, <3>4, <3>5, SMTT(30)
    <3>7. DrawnChat(page) = drawn
      BY DEF DrawnChat, end, first
    <3> QED
      BY <2>1, <2>4, <3>6, <3>7
  <2>5. CASE page.id # "chat" /\ page.cursor < page.total
             /\ page.cursor - page.base \in 0 .. Len(page.items) - 1
    <3> DEFINE k == page.cursor - page.offset
    <3>1. page.offset <= page.cursor /\ page.cursor < page.offset + PageRows(page)
      BY <2>2, <2>5 DEF Placed
    <3>2. k \in 0 .. PageRows(page) - 1 /\ page.offset + k = page.cursor
      BY <2>3, <3>1
    <3> HIDE DEF k
    <3>3. DrawnList(page)[k] = [item |-> page.items[page.cursor - page.base + 1], marked |-> TRUE]
      <4>1. page.cursor - page.base >= 0 /\ page.cursor - page.base < Len(page.items)
        BY <2>3, <2>5
      <4> QED
        BY <2>5, <3>2, <4>1 DEF DrawnList
    <3>4. DrawnList(page)[k].marked
      <4>1. PICK r : r = DrawnList(page)[k]
        OBVIOUS
      <4>2. r.marked = TRUE
        BY <3>3, <4>1
      <4> QED
        BY <4>1, <4>2
    <3> QED
      BY <2>1, <2>5, <3>2, <3>4
  <2>6. CASE page.id # "chat" /\ page.id # "contacts"
    <3>1. /\ page.base = 0 /\ page.total = Len(page.items)
          /\ page.cursor < page.total \/ (page.cursor = 0 /\ page.total = 0)
      BY <2>2, <2>6 DEF Loaded, Placed
    <3>2. CASE page.cursor < page.total
      <4>1. page.cursor - page.base \in 0 .. Len(page.items) - 1
        BY <2>3, <3>1, <3>2
      <4> QED
        BY <2>5, <2>6, <3>2, <4>1
    <3>3. CASE page.total = 0
      <4>1. page.items = <<>>
        BY <2>3, <3>1, <3>3, EmptySeq
      <4> QED
        BY <2>1, <2>6, <3>3, <4>1
    <3> QED
      BY <3>1, <3>2, <3>3
  <2>7. CASE page.id = "contacts"
    <3> DEFINE n == Len(nameIndex)  s == ContactList(page.offset, ROWS)
    <3>1. /\ page.base = page.offset /\ page.total = ContactCount /\ page.items = Items(page)
          /\ page.cursor < page.total \/ (page.cursor = 0 /\ page.total = 0)
          /\ page.offset <= page.cursor /\ page.cursor < page.offset + ROWS
      BY <2>2, <2>7 DEF Fetched, Placed, PageRows
    <3>2. page.items = Rows(s)
      BY <2>7, <3>1 DEF Items, ContactRows
    <3>3. /\ n \in Nat /\ s \in Seq(Phones) /\ (\A k \in 1 .. Len(s) : s[k] \in ToSet(nameIndex))
          /\ Len(s) = IF page.offset >= n THEN 0 ELSE IF page.offset + ROWS < n THEN ROWS ELSE n - page.offset
      BY <2>2, <2>3, ContactListIs
    <3>4. Len(page.items) = Len(s)
      <4> HIDE DEF s
      <4>1. \A k \in 1 .. Len(s) : s[k] \in Known
        BY <2>2, <3>3 DEF Listed
      <4> QED
        BY <2>2, <3>2, <3>3, <4>1, RowsAre
    <3> HIDE DEF n, s
    <3>5. CASE page.cursor < page.total /\ page.cursor < n
      <4>1. page.cursor - page.base \in 0 .. Len(page.items) - 1
        BY <2>3, <3>1, <3>3, <3>4, <3>5, SMTT(30)
      <4> QED
        BY <2>5, <2>7, <3>5, <4>1
    <3>6. CASE page.cursor < page.total /\ ~ (page.cursor < n)
      <4>1. page.cursor \in Len(nameIndex) .. ContactCount - 1
        BY <2>3, <3>1, <3>3, <3>6, CountIs DEF n
      <4> QED
        BY <2>1, <2>7, <4>1
    <3>7. CASE page.total = 0
      <4>1. Known = {}
        <5>1. Known \in SUBSET Phones
          BY DEF Known
        <5>2. IsFiniteSet(Known) /\ Cardinality(Known) = 0
          BY <3>1, <3>7, <5>1, PhonesAreOrdered, FS_Subset, CountIs
        <5> QED
          BY <5>2, FS_EmptySet
      <4>2. Len(s) = 0
        <5>1. \A k \in 1 .. Len(s) : FALSE
          BY <2>2, <3>3, <4>1 DEF Listed
        <5>2. Len(s) \in Nat
          BY <3>3, LenProperties
        <5> QED
          BY <5>1, <5>2
      <4>3. page.items = <<>>
        BY <2>3, <3>4, <4>2, EmptySeq
      <4> QED
        BY <2>1, <2>7, <3>7, <4>3
    <3> QED
      BY <3>1, <3>5, <3>6, <3>7
  <2> QED
    BY <2>4, <2>6, <2>7
<1> QED
  BY <1>1, DemoInvariant, PTL
=============================================================================
