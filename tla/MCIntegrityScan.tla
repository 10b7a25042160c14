--------------------------- MODULE MCIntegrityScan ---------------------------
(***************************************************************************)
(* IntegrityScan for TLC.                                                  *)
(***************************************************************************)
EXTENDS IntegrityScan, TLC

Symmetry == Permutations(Log)
=============================================================================
