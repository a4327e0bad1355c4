---------------------------- MODULE MCMembership ----------------------------
(* Instances of Membership for TLC. *)
EXTENDS Membership, TLC
Alike == Permutations(Users) \cup Permutations(Companies) \cup Permutations(Passwords)
=============================================================================
