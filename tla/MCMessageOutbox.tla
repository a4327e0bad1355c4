--------------------------- MODULE MCMessageOutbox ---------------------------
(***************************************************************************)
(* Small instances of MessageOutbox for TLC.                               *)
(***************************************************************************)
EXTENDS MessageRules, TLC

Symmetry == Permutations(Workers)
=============================================================================
