------------------------ MODULE MCTransferRefinement ------------------------
(***************************************************************************)
(* Values of the constants of TransferRefinement for TLC.                  *)
(***************************************************************************)
EXTENDS TransferRefinement, TLC

CONSTANTS c1, c2, w1, w2

SameApp == [c \in {c1, c2} |-> "app1"]

CallWorkerSymmetry == Permutations({w1, w2}) \cup Permutations({c1, c2})
=============================================================================
