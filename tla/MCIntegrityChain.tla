--------------------------- MODULE MCIntegrityChain ---------------------------
(***************************************************************************)
(* IntegrityChain for TLC.                                                 *)
(***************************************************************************)
EXTENDS IntegrityChain, TLC

Symmetry == Permutations(StateId) \cup Permutations(Content)
===============================================================================
