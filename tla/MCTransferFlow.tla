--------------------------- MODULE MCTransferFlow ---------------------------
(***************************************************************************)
(* Values of the constants of TransferFlow for TLC.                        *)
(***************************************************************************)
EXTENDS TransferFlow

CONSTANTS c1, w1, w2

OneApp == [c \in {c1} |-> "app1"]
=============================================================================
