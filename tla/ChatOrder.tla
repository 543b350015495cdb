------------------------------ MODULE ChatOrder ------------------------------
(***************************************************************************)
(* The chat order (chat_order.c): the cells of the hash table whose        *)
(* contacts have a chat, the most recent message first.                    *)
(***************************************************************************)
EXTENDS SequencesExt, Scan, Heapsort

CONSTANT ChatCapacity    \* CHAT_ORDER_ENTRIES

(* chat_order_find: the rank, counted from 1, or 0.                        *)
RankOf(order, cell) ==
    IF \E k \in DOMAIN order : order[k] = cell
    THEN CHOOSE k \in DOMAIN order : order[k] = cell /\ \A j \in 1 .. k - 1 : order[j] # cell
    ELSE 0

(* chat_order_touch: a new chat that does not fit leaves the order alone.  *)
Touched(order, cell) ==
    LET rank == RankOf(order, cell)
    IN  IF rank # 0 THEN <<cell>> \o RemoveAt(order, rank)
        ELSE IF Len(order) < ChatCapacity THEN <<cell>> \o order ELSE order

(* chat_order_remove, chat_order_replace                                   *)
ChatRemoved(order, cell) ==
    IF RankOf(order, cell) = 0 THEN order ELSE RemoveAt(order, RankOf(order, cell))

ChatReplaced(order, old, new) ==
    IF RankOf(order, old) = 0 THEN order ELSE [order EXCEPT ![RankOf(order, old)] = new]

(* Mutant: the earliest message first.                                     *)
EarlierFirst(a, b) == a.time < b.time \/ (a.time = b.time /\ a.cell < b.cell)

(* chat_scratch_cmp                                                        *)
LaterFirst(a, b) == a.time > b.time \/ (a.time = b.time /\ a.cell < b.cell)

(* chat_order_build: the cells in ascending order, sorted by the times of  *)
(* their chats' latest messages.                                           *)
BuiltChats(cells, timeOf) ==
    LET order   == Ascending(cells)
        scratch == [k \in 0 .. Len(order) - 1 |->
                       [time |-> timeOf[order[k + 1]], cell |-> order[k + 1]]]
        less    == {p \in Range(scratch) \X Range(scratch) : LaterFirst(p[1], p[2])}
        done    == Sorted(scratch, Len(order), less)
    IN  [k \in 1 .. Len(order) |-> done[k - 1].cell]
=============================================================================
