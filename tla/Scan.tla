-------------------------------- MODULE Scan --------------------------------
(***************************************************************************)
(* What a loop over an array, from its first index on, comes across.       *)
(***************************************************************************)
EXTENDS Integers, FiniteSets

(* The numbers of a set, in order.                                         *)
Ascending(S) ==
    [n \in 1 .. Cardinality(S) |-> CHOOSE i \in S : Cardinality({j \in S : j < i}) = n - 1]
=============================================================================
