------------------------------ MODULE Heapsort ------------------------------
(***************************************************************************)
(* The in-place heapsort of sorted_array.c, which chat_order.c repeats:    *)
(* sift_down, chat_scratch_sift_down, sorted_array_sort and                *)
(* chat_scratch_sort.  An array has the indices 0 .. n-1, as in C; less    *)
(* are the pairs of its entries of which the comparison finds the first    *)
(* one smaller.                                                            *)
(***************************************************************************)
EXTENDS Integers

Swap(mem, i, j) == [mem EXCEPT ![i] = mem[j], ![j] = mem[i]]

(* Mutant: the left child always.                                          *)
LeftChild(mem, root, end, less) == 2 * root + 1

(* The child of root that is not smaller than the other one.               *)
LargerChild(mem, root, end, less) ==
    LET child == 2 * root + 1
    IN  IF child + 1 < end /\ <<mem[child], mem[child + 1]>> \in less THEN child + 1 ELSE child

(* The entry at root moves down the max heap of the first end entries.     *)
SiftDown(mem, from, end, less) ==
    LET sift[k \in 0 .. end] ==      \* after k rounds
            IF k = 0 THEN [mem |-> mem, root |-> from]
            ELSE LET at    == sift[k - 1]
                     child == LargerChild(at.mem, at.root, end, less)
                 IN  IF 2 * at.root + 1 < end /\ <<at.mem[at.root], at.mem[child]>> \in less
                     THEN [mem |-> Swap(at.mem, at.root, child), root |-> child]
                     ELSE at
    IN  sift[end].mem

Sorted(mem, n, less) ==
    LET heap[k \in 0 .. n \div 2] ==     \* the k last parents sifted
            IF k = 0 THEN mem ELSE SiftDown(heap[k - 1], n \div 2 - k, n, less)
        rest[k \in 0 .. n - 1] ==        \* the k largest in place
            IF k = 0 THEN heap[n \div 2]
            ELSE SiftDown(Swap(rest[k - 1], 0, n - k), 0, n - k, less)
    IN  IF n < 2 THEN mem ELSE rest[n - 1]
=============================================================================
