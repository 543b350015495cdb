------------------------------ MODULE MCMount ------------------------------
(***************************************************************************)
(* A small instance of Mount: words of two bits, two of them and a         *)
(* checksum word per bitmap sector, two bitmap sectors; three contact      *)
(* sectors of two slots, the last one of which does not exist, and three   *)
(* message sectors.  The checksum words read as if all their bits were 1.  *)
(***************************************************************************)
EXTENDS Mount

MCTrailer == {0, 1}
=============================================================================
