------------------------------- MODULE MCTyping -------------------------------
(***************************************************************************)
(* Small instances of Typing: texts of one or two characters, blocks of    *)
(* three bytes, two credentials.                                           *)
(***************************************************************************)
EXTENDS Typing

mcFlash == [init |-> <<31>>, pinErr |-> <<33>>,
            options |-> <<35>>, one |-> <<37>>, two |-> <<39>>]
mcNames == {"one", "two"}
mcPinStr == <<40>>
mcEntries == {<<40, 41>>}
mcHashed == [i \in 0 .. 2 |-> 44]

Bytes(s) == [i \in 0 .. 15 |-> At(s, i)]

(* A field that spans two blocks, a pause in the last one, no field that   *)
(* is empty or ends with its block ...                                     *)
Whole == <<51, 0, 52, 53, 0, 54, 55, 0, 56, 22, 57>>

(* ... and one whose first field ends with its block, before an empty one. *)
Edges == <<51, 52, 53, 0, 0, 54, 0, 55>>

mcCred == [n \in mcNames |-> Bytes(IF n = "one" THEN Whole ELSE Edges)]
==============================================================================
