----------------------------- MODULE MCHashTable -----------------------------
(***************************************************************************)
(* A small instance of HashTable: five cells, three slots in two sectors,  *)
(* and phones of which two have the same hash and a third one starts its   *)
(* walk in their first cell.                                               *)
(***************************************************************************)
EXTENDS HashTable

MCPhones == {1, 2, 3}
MCHash   == [p \in MCPhones |-> CASE p = 1 -> 7 [] p = 2 -> 7 [] OTHER -> 12]
=============================================================================
