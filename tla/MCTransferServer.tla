--------------------------- MODULE MCTransferServer ---------------------------
(* Small instances of TransferServer for TLC.                              *)
EXTENDS TransferServer, TLC

Symmetry == Permutations(Clients)
===============================================================================
