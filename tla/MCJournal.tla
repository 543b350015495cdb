----------------------------- MODULE MCJournal -----------------------------
(***************************************************************************)
(* Small instances of Journal.  One contact sector and one message sector  *)
(* share a bitmap sector, so that a rollback of one restores a copy that   *)
(* also holds the other's bit; the other message sector has its own.       *)
(***************************************************************************)
EXTENDS Journal

CONSTANTS b1, b2, m2

MCBitmapOf(s) == IF s = m2 THEN b2 ELSE b1
=============================================================================
