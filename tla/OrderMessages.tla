--------------------------- MODULE OrderMessages ---------------------------
(***************************************************************************)
(* What a vendor is told of one purchase order: the messages its statuses  *)
(* queue, take back and repeat, those people send of it by hand, and the   *)
(* dispatcher that claims them, sends them in no given order, tries them   *)
(* again or gives them up.  A message is a row of outbound_messages, here  *)
(* in the order they were written.                                         *)
(***************************************************************************)
EXTENDS Naturals, FiniteSets, SequencesExt

CONSTANTS MaxSteps,  \* bound: what may happen to a purchase order
          Ordered    \* bound: what it orders

ASSUME OrderAssumption == MaxSteps \in Nat /\ Ordered \in Nat \ {0}

(* lost: why nothing in the code will tell the vendor what became of it.    *)
PoStart == [status |-> "draft", received |-> 0, billed |-> 0, rows |-> <<>>,
            told |-> "nothing", announced |-> FALSE, lost |-> "no"]
Placed == {"sent", "partial", "received"}
TakenBack(po) ==
  po.status \in {"draft", "deleted"} \/ (po.status = "closed" /\ po.received = 0)

Are(po, event, statuses) ==
  {i \in DOMAIN po.rows : po.rows[i].event = event /\ po.rows[i].status \in statuses}
Pending(po, event) == Are(po, event, {"queued", "sending"}) # {}
Lost(po, reason) == IF po.lost = "no" THEN [po EXCEPT !.lost = reason] ELSE po
If(guard, orders) == IF guard THEN orders ELSE {}
LostIf(po, wrong, reason) == IF wrong THEN Lost(po, reason) ELSE po

-----------------------------------------------------------------------------
(* Writing messages. *)

Write(po, event, kind, version, status) ==
  [po EXCEPT !.rows = Append(@, [event |-> event, kind |-> kind, version |-> version,
                                 status |-> status])]
(* autoVersion: a further message of its kind; resent ones do not count.    *)
FirstVersion(po, event) == 1
Version(po, event) ==
  1 + Cardinality({i \in DOMAIN po.rows :
        po.rows[i].event = event /\ po.rows[i].kind \in {"auto", "hand"}})
(* enqueue: status is queued, or skipped for a rule or for the contact.     *)
Tell(po, event, status) ==
  IF \E r \in ToSet(po.rows) : r.event = event /\ r.kind = "auto" /\ r.version = Version(po, event)
    THEN po ELSE Write(po, event, "auto", Version(po, event), status)

(* cancelQueued stops what no dispatcher has claimed; requireSent looks at  *)
(* what was sent.  how: the message is queued, skipped, or was not wanted.  *)
Withdraw(po, how) ==
  LET cancelled == [po EXCEPT !.announced = FALSE, !.rows =
        [i \in DOMAIN @ |-> IF @[i].status = "queued" THEN [@[i] EXCEPT !.status = "cancelled"]
                            ELSE @[i]]]
      left == LostIf(cancelled, Are(po, "po_issued", {"sending"}) # {}, "in flight")
  IN IF Are(po, "po_issued", {"sent"}) = {} THEN left
     ELSE IF how = "queued" THEN Tell(left, "po_cancelled", how)
     ELSE LostIf(IF how = "unwanted" THEN left ELSE Tell(left, "po_cancelled", how),
                 po.told = "po_issued", how)

-----------------------------------------------------------------------------
(* updateStatus, the receipts and bills that move a status, and the rest    *)
(* that may happen to an order.                                             *)

Hows == {"queued", "skipped", "unwanted"}
PoSend(po, how) ==
  LET sent == [po EXCEPT !.status = "sent", !.announced = (how = "queued")]
  IN If(po.status = "draft", {IF how = "unwanted" THEN sent ELSE Tell(sent, "po_issued", how)})
PoRecall(po, how) ==
  If(po.status = "sent" /\ po.received = 0, {Withdraw([po EXCEPT !.status = "draft"], how)})
PoClose(po, how) ==
  LET closed == [po EXCEPT !.status = "closed"]
  IN If(po.status \in Placed /\ po.received <= po.billed,
        {IF po.received > 0 THEN closed ELSE Withdraw(closed, how)})
(* A reopened order sends nothing, to a vendor that may think it cancelled. *)
Open(received) ==
  IF received = Ordered THEN "received" ELSE IF received > 0 THEN "partial" ELSE "sent"
PoReopen(po) ==
  LET cancelled == po.told = "po_cancelled" \/ Pending(po, "po_cancelled")
  IN If(po.status = "closed",
        {LostIf([po EXCEPT !.status = Open(po.received), !.announced = @ \/ cancelled],
                cancelled, "reopened")})
(* deriveStatus                                                             *)
Derived(po) ==
  [po EXCEPT !.status = IF po.received = Ordered /\ po.billed = Ordered THEN "closed"
                        ELSE Open(po.received)]
PoReceive(po) ==
  If(po.status \in Placed, {Derived([po EXCEPT !.received = q]) : q \in po.billed .. Ordered})
PoBill(po) ==
  If(po.status \in Placed, {Derived([po EXCEPT !.billed = q]) : q \in po.billed + 1 .. po.received})
(* A bill that is deleted opens a closed order again.                       *)
PoUnbill(po) ==
  {[po EXCEPT !.billed = q, !.status = IF @ = "closed" THEN Open(po.received) ELSE @] :
     q \in 0 .. po.billed - 1}
(* Edited before anything is received, it may go to another vendor;         *)
(* deleted, it leaves its messages as they are.                             *)
WithVendor(po) == po.status = "sent" /\ (po.told = "po_issued" \/ Pending(po, "po_issued"))
PoMove(po) ==
  If(po.received = 0 /\ WithVendor(po), {Lost([po EXCEPT !.told = "nothing"], "moved")})
PoDelete(po) ==
  If(po.status # "deleted" /\ po.received = 0 /\ po.billed = 0,
     {LostIf([po EXCEPT !.status = "deleted"], WithVendor(po), "deleted")})

-----------------------------------------------------------------------------
(* What people send of it by hand, whatever has become of it.               *)

Contrary(po, event) == TakenBack(po) <=> event = "po_issued"
PoByHand(po) ==
  If(po.status \in Placed \cup {"closed"},
     {LostIf(Write(po, "po_issued", "hand", 1, "queued"), Contrary(po, "po_issued"), "by hand")})
PoResend(po) ==
  {LostIf(Write(po, r.event, "resend", r.version, "queued"), Contrary(po, r.event), "by hand") :
     r \in {r \in ToSet(po.rows) : po.status # "deleted" /\ r.status \notin {"queued", "sending"}}}

-----------------------------------------------------------------------------
(* The dispatcher. *)

Set(po, i, status) == [po EXCEPT !.rows[i].status = status]
Goes(po, i) ==
  LET event == po.rows[i].event
  IN LostIf([Set(po, i, "sent") EXCEPT !.told = event],
            \E j \in 1 .. i - 1 : /\ po.rows[j].status \in {"queued", "sending"}
                                  /\ po.rows[j].event # event, "overtaken")
(* A link shared by hand is recorded as sent, with the first version.       *)
PoShare(po) ==
  If(po.status # "deleted",
     {LostIf(Goes(Write(po, "po_issued", "link", 1, "queued"), Len(po.rows) + 1),
             TakenBack(po), "by hand")})
PoClaim(po) == {Set(po, i, "sending") : i \in {i \in DOMAIN po.rows : po.rows[i].status = "queued"}}
(* Sent, to be tried again, or given up; or sent as soon as it is claimed.  *)
PoAnswer(po) ==
  LET claimed == {i \in DOMAIN po.rows : po.rows[i].status = "sending"}
      queued == {i \in DOMAIN po.rows : po.rows[i].status = "queued"}
  IN {Goes(po, i) : i \in claimed \cup queued} \cup {Set(po, i, "queued") : i \in claimed}
       \cup {Lost(Set(po, i, "failed"), "failed") : i \in claimed}

PoSteps(po) ==
  PoReopen(po) \cup PoReceive(po) \cup PoBill(po)
    \cup PoUnbill(po) \cup PoMove(po) \cup PoDelete(po) \cup PoByHand(po) \cup PoResend(po)
    \cup PoShare(po) \cup PoClaim(po) \cup PoAnswer(po)
    \cup UNION {PoSend(po, how) \cup PoRecall(po, how) \cup PoClose(po, how) : how \in Hows}

(* The orders of up to MaxSteps steps; a lost one is not followed further.  *)
Orders ==
  LET after[n \in 0 .. MaxSteps] ==
        IF n = 0 THEN [all |-> {PoStart}, new |-> {PoStart}]
        ELSE LET next == UNION {PoSteps(po) : po \in {po \in after[n - 1].new : po.lost = "no"}}
             IN [all |-> after[n - 1].all \cup next, new |-> next \ after[n - 1].all]
  IN after[MaxSteps].all

-----------------------------------------------------------------------------
(* Once nothing is under way, a vendor is not left with an order that was   *)
(* taken back, nor without one that was announced to it, sent again or not, *)
(* unless the order was lost for one of the reasons above.                  *)
VendorKnows ==
  \A po \in Orders :
    po.lost = "no" /\ ~Pending(po, "po_issued") /\ ~Pending(po, "po_cancelled") =>
      /\ TakenBack(po) => po.told # "po_issued"
      /\ po.status \in Placed /\ po.announced => po.told = "po_issued"
=============================================================================
