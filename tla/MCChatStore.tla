---------------------------- MODULE MCChatStore ----------------------------
(***************************************************************************)
(* Small instances of ChatStore.  Phones are interchangeable: nothing      *)
(* orders them but the slots and sectors their data happens to get.        *)
(***************************************************************************)
EXTENDS ChatStore, TLC

PhoneSymmetry == Permutations(Phones)
=============================================================================
