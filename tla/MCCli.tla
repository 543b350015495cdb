------------------------------- MODULE MCCli -------------------------------
(***************************************************************************)
(* A small instance of Cli: two phones, one name that is given to them and *)
(* that fits a title, one row on the screen.                               *)
(***************************************************************************)
EXTENDS Cli

MCPhones == {1, 2}
MCNames  == {0, 1}
MCCut(n) == n
=============================================================================
