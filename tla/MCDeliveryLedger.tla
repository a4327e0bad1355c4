-------------------------- MODULE MCDeliveryLedger --------------------------
(***************************************************************************)
(* Small instances of DeliveryLedger for TLC.                              *)
(***************************************************************************)
EXTENDS DeliveryLedger, TLC

CONSTANTS
  LineQty,      (* units of every item on every delivery                   *)
  OpeningQty    (* units of every item on hand at the start                *)

MCLines == [d \in Deliveries |-> [i \in Items |-> LineQty]]
MCOpening == [i \in Items |-> OpeningQty]

(* A rider who reports no more than was dispatched, and one who makes the   *)
(* mistakes the code clamps: more than was dispatched, or less than nothing *)
(* with a return.                                                           *)
Report(delivered, returned) == [delivered |-> delivered, returned |-> returned]
HonestCounts == {Report(2, 0), Report(1, 1), Report(1, 0)}
WrongCounts == {Report(2, 0), Report(3, 0), Report(-1, 1)}

Symmetry == Permutations(Sessions) \cup Permutations(Requests)
=============================================================================
