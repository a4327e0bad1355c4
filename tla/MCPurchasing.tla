---------------------------- MODULE MCPurchasing ----------------------------
(* Instances of Purchasing for TLC. *)
EXTENDS Purchasing, TLC
Few == {1, 3}
Alike == Permutations(Requests) \cup Permutations(Proofs) \cup Permutations(Payments)
           \cup Permutations(Bills)
=============================================================================
