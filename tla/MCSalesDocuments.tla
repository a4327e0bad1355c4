-------------------------- MODULE MCSalesDocuments --------------------------
(* Instances of SalesDocuments for TLC. *)
EXTENDS SalesDocuments, TLC
Alike == Permutations(Jobs) \cup Permutations(Orders)
=============================================================================
