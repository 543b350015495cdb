----------------------------- MODULE MCNameIndex -----------------------------
(***************************************************************************)
(* Six contacts, of which the index takes five, in six cells: names that   *)
(* are equal, equal but for their case, equal in their key, prefixes of    *)
(* another and empty.                                                      *)
(***************************************************************************)
EXTENDS NameIndex

a == 97   b == 98   c == 99   A == 65   B == 66

Named(name, phone) == [name |-> name, phone |-> phone]

MCContacts == {Named(<<>>, 1), Named(<<a, b>>, 2), Named(<<a, b>>, 3), Named(<<a, B>>, 4),
               Named(<<A>>, 5), Named(<<b>>, 6)}

MCPrefixes == {<<>>, <<a>>, <<A, b>>, <<a, b, c>>, <<B>>, <<c>>}
=============================================================================
