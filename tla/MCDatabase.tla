----------------------------- MODULE MCDatabase -----------------------------
(***************************************************************************)
(* A small instance of Database: three phones, two of one hash and all of  *)
(* one first cell, three cells, two slots, and two names.                  *)
(***************************************************************************)
EXTENDS Database

MCPhones == {1, 2, 3}
MCHash   == [p \in MCPhones |-> CASE p = 1 -> 3 [] p = 2 -> 3 [] OTHER -> 6]
MCNames  == {<<>>, <<97>>}
MCUnnamed == <<>>

MCNamesGiven == [p \in MCPhones |-> {IF p = 3 THEN <<97>> ELSE <<>>}]
=============================================================================
