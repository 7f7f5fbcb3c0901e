---------------------------- MODULE MCCollection ----------------------------
(* An instance of Collection: two accounts, and two deposits on one of them. *)
EXTENDS Collection

CONSTANTS d1, d2, r1, r2, v1, v2

\* Of an invoice of 2, d1 is a part, d2 the whole, and both are too much.
MCAmount == [i \in Items |-> IF i = d2 THEN 2 ELSE 1]
=============================================================================
