-------------------------- MODULE MCReconciliation --------------------------
(* An instance of Reconciliation: two deposits and a withdrawal. *)
EXTENDS Reconciliation

CONSTANTS d1, d2, debit, r1

\* d1 alone is partial, d1 and d2 settle the invoice.
MCAmount == [i \in Items |-> IF i \in {d2, debit} THEN 2 ELSE 1]
=============================================================================
