--------------------------- MODULE MCSubscription ---------------------------
(* Instances of Subscription for TLC: two companies with one phone. *)
EXTENDS BillingDesk, TLC
OwnEmail == [c \in Companies |-> c]
SharedPhone == [c \in Companies |-> "phone"]
Lengths == [p \in Plans |-> IF p = "small" THEN 1 ELSE 2]
Limits == [p \in Plans |-> IF p = "small" THEN 1 ELSE 2]
Edits ==
  {NoOverride, [monthly |-> 3600], [monthly |-> 4500, total |-> 27000], [total |-> 36000],
   [monthly |-> 3000, total |-> 36000], [seats |-> 5], [offered |-> FALSE]}
Alike == Permutations(Subs)
=============================================================================
