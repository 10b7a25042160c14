------------------------- MODULE MCIngestTransactions -------------------------
(***************************************************************************)
(* IngestTransactions for TLC.                                             *)
(***************************************************************************)
EXTENDS IngestTransactions, TLC

Symmetry == Permutations(Request)
===============================================================================
