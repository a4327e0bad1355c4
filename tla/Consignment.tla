----------------------------- MODULE Consignment -----------------------------
(***************************************************************************)
(* What the delivery ledger promises, without rows, requests or sessions:  *)
(* goods are on the shelf, in transit on one delivery, or sold; a delivery *)
(* takes its whole load off the shelf once, and settles it once, by a sale *)
(* that may bring units back or by giving everything back.                 *)
(***************************************************************************)
EXTENDS Integers

CONSTANTS
  Deliveries,
  Items,
  Lines,        (* Lines[d][i]: units of i ordered on delivery d           *)
  Opening       (* Opening[i]: units of i on the shelf at the start        *)

VARIABLES
  phase,        (* "none", "in_transit", "committed" (sold) or "returned"  *)
  shelf,        (* units of each item on the shelf                         *)
  transit,      (* units of each item in transit on each delivery          *)
  sold          (* units of each item expensed as sold                     *)

vars == <<phase, shelf, transit, sold>>

Nothing == [i \in Items |-> 0]

Init ==
  /\ phase = [d \in Deliveries |-> "none"]
  /\ shelf = Opening
  /\ transit = [d \in Deliveries |-> Nothing]
  /\ sold = Nothing

Dispatch(d) ==
  /\ phase[d] = "none"
  /\ \A i \in Items : shelf[i] >= Lines[d][i]
  /\ phase' = [phase EXCEPT ![d] = "in_transit"]
  /\ shelf' = [i \in Items |-> shelf[i] - Lines[d][i]]
  /\ transit' = [transit EXCEPT ![d] = Lines[d]]
  /\ UNCHANGED sold

(* The units between what was sold before and after are this sale's; the   *)
(* rest of the load is back on the shelf.                                  *)
Sell(d) ==
  /\ phase[d] = "in_transit"
  /\ phase' = [phase EXCEPT ![d] = "committed"]
  /\ transit' = [transit EXCEPT ![d] = Nothing]
  /\ \A i \in Items : sold'[i] - sold[i] \in 0..Lines[d][i]
  /\ shelf' = [i \in Items |-> shelf[i] + Lines[d][i] - (sold'[i] - sold[i])]

GiveBack(d) ==
  /\ phase[d] = "in_transit"
  /\ phase' = [phase EXCEPT ![d] = "returned"]
  /\ shelf' = [i \in Items |-> shelf[i] + Lines[d][i]]
  /\ transit' = [transit EXCEPT ![d] = Nothing]
  /\ UNCHANGED sold

(* A sale straight off the shelf, of goods no dispatch took, or its undoing. *)
CounterSale ==
  /\ \A i \in Items : shelf'[i] >= 0 /\ shelf'[i] + sold'[i] = shelf[i] + sold[i]
  /\ UNCHANGED <<phase, transit>>

Next ==
  \/ \E d \in Deliveries : Dispatch(d) \/ Sell(d) \/ GiveBack(d)
  \/ CounterSale

Spec == Init /\ [][Next]_vars
=============================================================================
