----------------------------- MODULE MessageLife -----------------------------
(***************************************************************************)
(* What the outbox promises about one message, whatever its workers, the   *)
(* provider and the webhooks do: it waits, then leaves the queue for good, *)
(* and a status only moves forward (message-status.util.ts).               *)
(***************************************************************************)
CONSTANT Messages

VARIABLE stage    (* "none" until the row is written, then its status with *)
                  (* "queued" and "sending" read as "waiting"              *)

(* The stages that may follow each stage.                                  *)
Follows == [
  none      |-> {"waiting", "skipped", "sent"},
  waiting   |-> {"sent", "failed", "skipped", "cancelled"},
  sent      |-> {"delivered", "read", "failed"},
  delivered |-> {"read", "failed"},
  read      |-> {},
  failed    |-> {},
  skipped   |-> {},
  cancelled |-> {}]

Stages == DOMAIN Follows

Init == stage = [m \in Messages |-> "none"]

(* A posting, a payment or a STOP may move several messages at once.       *)
Next ==
  /\ stage' \in [Messages -> Stages]
  /\ \A m \in Messages : stage'[m] = stage[m] \/ stage'[m] \in Follows[stage[m]]

Spec == Init /\ [][Next]_stage
=============================================================================
