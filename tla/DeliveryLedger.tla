--------------------------- MODULE DeliveryLedger ---------------------------
(***************************************************************************)
(* The life of a delivery and its link to stock and the general ledger:    *)
(* DeliveriesService, DeliveryLedgerService and InventoryApprovalsService.  *)
(*                                                                         *)
(* Every request runs on PostgreSQL at READ COMMITTED.  A service method   *)
(* that takes FOR UPDATE on the delivery before it reads it is one step.   *)
(* A method that reads the delivery (or the review request) without a lock *)
(* is two: Start* keeps the row it read in session[s], and the second step *)
(* writes the whole entity back with TypeORM's save(), as Saved describes. *)
(* Anything may happen between the two.                                    *)
(*                                                                         *)
(* Quantities are whole units and every unit costs 1, so an entry's amount *)
(* is its number of units; the weighted average is left to another module. *)
(***************************************************************************)
EXTENDS Integers, FiniteSets, FiniteSetsExt

CONSTANTS
  Deliveries,   (* delivery ids                                            *)
  Items,        (* inventory item ids                                      *)
  Requests,     (* inventory_update_requests ids                           *)
  Sessions,     (* HTTP requests that may be in flight at the same time    *)
  Lines,        (* Lines[d][i]: units of i ordered on delivery d, 0: none  *)
  Opening,      (* Opening[i]: units of i on hand at the start             *)
  Counts,       (* counts a rider may report for an item of a request      *)
  Ops,          (* operations the instance exercises                       *)
  None

OpNames == {"create", "assign", "autoAssign", "edit", "geocode", "confirm",
            "remove", "status", "billPhoto", "request", "approve", "reject",
            "undo"}

(***************************************************************************)
(* The operations that write a delivery back from an unlocked read.        *)
(***************************************************************************)
StaleSavers == {"assign", "autoAssign", "edit", "geocode", "confirm", "billPhoto"}

ASSUME LinesAssumption == Lines \in [Deliveries -> [Items -> Nat]]
ASSUME OpeningAssumption == Opening \in [Items -> Nat]
ASSUME CountsAssumption == Counts \subseteq [delivered : Int, returned : Int]
ASSUME OpsAssumption == Ops \subseteq OpNames
ASSUME NoneAssumption == None \notin Deliveries /\ None \notin Requests

VARIABLES
  delivery,     (* the deliveries rows                                     *)
  request,      (* the inventory_update_requests rows and their lines      *)
  onHand,       (* inventory_items.quantity_on_hand                        *)
  gl1200,       (* balance of account 1200 Inventory, by item              *)
  gl1250,       (* balance of 1250 Goods in Transit by delivery (source_id)*)
                (* and line                                                *)
  cogs,         (* balance of account 5000 Cost of Goods Sold, by item     *)
  invoices,     (* sales invoices raised by approving the delivery         *)
  session       (* what each in-flight HTTP request holds in memory        *)

vars == <<delivery, request, onHand, gl1200, gl1250, cogs, invoices, session>>
books == <<onHand, gl1200, gl1250, cogs, invoices>>

-----------------------------------------------------------------------------
(* Rows *)

Moving == {"unassigned", "pending", "picked_up", "in_transit", "arrived"}
Dead == {"failed", "returned", "cancelled"}
Live == Moving \cup Dead \cup {"delivered"}
LedgerStatuses == {"none", "in_transit", "committed", "returned"}

(***************************************************************************)
(* The columns the operations read or write.  committed stands for         *)
(* stock_committed_at, sales_order_id and git_journal_entry_id, set and    *)
(* tested together; lines says whether its delivery_items rows exist.      *)
(***************************************************************************)
Row == [status : Live \cup {"absent", "removed"}, rider : BOOLEAN,
        committed : BOOLEAN, ledger : LedgerStatuses, invoiced : BOOLEAN,
        lines : BOOLEAN]

NoRow == [status |-> "absent", rider |-> FALSE, committed |-> FALSE,
          ledger |-> "none", invoiced |-> FALSE, lines |-> FALSE]
NewRow(withRider) ==
  [NoRow EXCEPT !.status = IF withRider THEN "pending" ELSE "unassigned",
                !.rider = withRider, !.lines = TRUE]

Zero == [i \in Items |-> 0]

(* What the journal entry of an approval posted to 1200 and to 5000, by     *)
(* item; NoEntry when journal_entry_id is null.                             *)
Entry == [stock : [Items -> Int], cost : [Items -> Int]]
NoEntry == [stock |-> Zero, cost |-> Zero]

Request == [status : {"absent", "pending", "approved", "rejected", "deleted"},
            d : Deliveries \cup {None}, count : [Items -> Counts \cup {None}],
            entry : Entry]

NoRequest == [status |-> "absent", d |-> None,
              count |-> [i \in Items |-> None], entry |-> NoEntry]

Session == [op : OpNames \cup {"idle"}, d : Deliveries \cup {None},
            r : Requests \cup {None}, row : Row, entry : Entry, answered : BOOLEAN]
Idle == [op |-> "idle", d |-> None, r |-> None, row |-> NoRow, entry |-> NoEntry,
         answered |-> FALSE]

Exists(d) == delivery[d].status \in Live

(***************************************************************************)
(* save(entity): SELECT the row (base), compare it with the entity in      *)
(* memory (mem), UPDATE the columns that differ.  cur is the row when the  *)
(* UPDATE runs; base is any version committed since the entity was read,   *)
(* of which the first and the last are considered.  A row that is gone     *)
(* when it is selected is inserted again, with its lines if the entity was *)
(* loaded with them (cascade); one gone only at the UPDATE stays gone.     *)
(***************************************************************************)
Saved(mem, base, cur, withLines) ==
  IF cur.status \notin Live
    THEN IF base.status \in Live THEN cur ELSE [mem EXCEPT !.lines = withLines]
    ELSE [status    |-> IF mem.status # base.status THEN mem.status ELSE cur.status,
          rider     |-> IF mem.rider # base.rider THEN mem.rider ELSE cur.rider,
          committed |-> IF mem.committed # base.committed THEN mem.committed ELSE cur.committed,
          ledger    |-> IF mem.ledger # base.ledger THEN mem.ledger ELSE cur.ledger,
          invoiced  |-> IF mem.invoiced # base.invoiced THEN mem.invoiced ELSE cur.invoiced,
          lines     |-> cur.lines]

(* Units of item i that a new delivery may still promise. *)
Promised(i) ==
  MapThenSumSet(LAMBDA d : Lines[d][i],
                {d \in Deliveries : /\ delivery[d].status \in {"unassigned", "pending"}
                                    /\ ~delivery[d].committed
                                    /\ delivery[d].lines})
Available(i) == onHand[i] - Promised(i)

Init ==
  /\ delivery = [d \in Deliveries |-> NoRow]
  /\ request = [r \in Requests |-> NoRequest]
  /\ onHand = Opening
  /\ gl1200 = Opening
  /\ gl1250 = [d \in Deliveries |-> Zero]
  /\ cogs = Zero
  /\ invoices = [d \in Deliveries |-> 0]
  /\ session = [s \in Sessions |-> Idle]

Free(s) == session[s].op = "idle"
End(s) == session' = [session EXCEPT ![s] = Idle]
Begin(s, op, d, r, row) ==
  /\ op \in Ops
  /\ Free(s)
  /\ session' = [session EXCEPT ![s] = [Idle EXCEPT !.op = op, !.d = d, !.r = r,
                                                  !.row = row]]
  /\ UNCHANGED <<delivery, request, books>>

-----------------------------------------------------------------------------
(* DeliveryLedgerService, each inside the caller's transaction.  row is the *)
(* delivery as that transaction sees it once it holds the row lock.         *)

(* Units of each item on the lines the delivery still has. *)
Load(d, row) == IF row.lines THEN Lines[d] ELSE Zero

(* The stamp of an earlier dispatch makes a second one a no-op. *)
ToDispatch(row) == ~row.committed /\ row.lines

OversellsStock(d) == \A i \in Items : onHand[i] >= 0
InStock(d) == \A i \in Items : onHand[i] >= Lines[d][i]

(* Stage 1: move the stock into transit, once. *)
CommitStockOnAssign(d, row) ==
  IF ~ToDispatch(row)
    THEN /\ delivery' = [delivery EXCEPT ![d] = row]
         /\ UNCHANGED books
    ELSE /\ InStock(d)
         /\ onHand' = [i \in Items |-> onHand[i] - Lines[d][i]]
         /\ gl1200' = [i \in Items |-> gl1200[i] - Lines[d][i]]
         /\ gl1250' = [gl1250 EXCEPT ![d] = [i \in Items |-> gl1250[d][i] + Lines[d][i]]]
         /\ delivery' = [delivery EXCEPT ![d] = [row EXCEPT !.committed = TRUE,
                                                            !.ledger = "in_transit",
                                                            !.invoiced = FALSE]]
         /\ UNCHANGED <<cogs, invoices>>

(* A sale or a return settles what is in transit, and only that. *)
WasDispatched(row) == row.committed
InTransit(row) == row.ledger = "in_transit"

(* Units of a dispatched line the customer kept, given the rider's count. *)
KeptAsReported(dispatched, n) == n
Kept(dispatched, n) == IF n > dispatched THEN dispatched ELSE IF n < 0 THEN 0 ELSE n

(* Stage 3: the sale.  Goods in transit is relieved in full.  The caller    *)
(* then sets the delivery's status, which is the row's last write.          *)
CommitApproval(d, count) ==
  LET load == Load(d, delivery[d])
      kept == [i \in Items |-> Kept(load[i], count[i].delivered)]
      sold == \E i \in Items : kept[i] > 0
  IN /\ InTransit(delivery[d])
     /\ onHand' = [i \in Items |-> onHand[i] + (load[i] - kept[i])]
     /\ gl1200' = [i \in Items |-> gl1200[i] + (load[i] - kept[i])]
     /\ gl1250' = [gl1250 EXCEPT ![d] = [i \in Items |-> gl1250[d][i] - load[i]]]
     /\ cogs' = [i \in Items |-> cogs[i] + kept[i]]
     /\ invoices' = [invoices EXCEPT ![d] = IF sold THEN @ + 1 ELSE @]
     /\ delivery' = [delivery EXCEPT ![d].ledger = "committed", ![d].status = "delivered",
                                     ![d].invoiced = sold \/ @]

(* Reject, cancel, fail, return: everything in transit goes back on the     *)
(* shelf, and nothing happens unless it is in transit.                      *)
ReleaseOnReject(d, row) ==
  IF ~InTransit(row)
    THEN /\ delivery' = [delivery EXCEPT ![d] = row]
         /\ UNCHANGED books
    ELSE /\ onHand' = [i \in Items |-> onHand[i] + Load(d, row)[i]]
         /\ gl1200' = [i \in Items |-> gl1200[i] + Load(d, row)[i]]
         /\ gl1250' = [gl1250 EXCEPT ![d] = [i \in Items |-> gl1250[d][i] - Load(d, row)[i]]]
         /\ delivery' = [delivery EXCEPT ![d] = [row EXCEPT !.ledger = "returned"]]
         /\ UNCHANGED <<cogs, invoices>>

-----------------------------------------------------------------------------
(* DeliveriesService *)

(* The stock check reads what is free before anything is written. *)
StartCreate(s, d) ==
  /\ delivery[d] = NoRow
  /\ \A t \in Sessions : session[t].d # d
  /\ \A i \in Items : Lines[d][i] <= Available(i)
  /\ Begin(s, "create", d, None, NoRow)

(* With a rider the new delivery is dispatched in the same transaction. *)
Create(s) ==
  /\ session[s].op = "create"
  /\ \E withRider \in BOOLEAN :
       IF withRider
         THEN CommitStockOnAssign(session[s].d, NewRow(TRUE))
         ELSE /\ delivery' = [delivery EXCEPT ![session[s].d] = NewRow(FALSE)]
              /\ UNCHANGED books
  /\ End(s)
  /\ UNCHANGED request

(* POST /deliveries/assign: no lock and no guard on the status. *)
StartAssign(s, d) == Exists(d) /\ Begin(s, "assign", d, None, delivery[d])

StartAutoAssign(s, d) ==
  /\ delivery[d].status = "unassigned"
  /\ Begin(s, "autoAssign", d, None, delivery[d])

StartEdit(s, d) == Exists(d) /\ Begin(s, "edit", d, None, delivery[d])

StartGeocode(s, d) == Exists(d) /\ Begin(s, "geocode", d, None, delivery[d])

(* The entity assignDeliveries and autoAssign save: a rider, and pending if *)
(* the delivery had not set off.                                            *)
Assigned(row) ==
  [row EXCEPT !.rider = TRUE,
              !.status = IF @ \in {"unassigned", "pending"} THEN "pending" ELSE @]

Assign(s) ==
  LET d == session[s].d IN
  /\ session[s].op \in {"assign", "autoAssign"}
  /\ \E base \in {session[s].row, delivery[d]} :
       LET row == Saved(Assigned(session[s].row), base, delivery[d],
                        session[s].op = "assign")
       IN row.status \in Live /\ CommitStockOnAssign(d, row)
  /\ End(s)
  /\ UNCHANGED request

(* PATCH /deliveries/:id: the edit dispatches only when it is what gives an *)
(* unassigned delivery its rider.                                           *)
Edit(s, giveRider) ==
  LET d == session[s].d
      dispatches == giveRider /\ session[s].row.status = "unassigned"
      edited == IF ~giveRider THEN session[s].row
                ELSE IF dispatches THEN Assigned(session[s].row)
                ELSE [session[s].row EXCEPT !.rider = TRUE]
  IN /\ session[s].op = "edit"
     /\ \E base \in {session[s].row, delivery[d]} :
          LET row == Saved(edited, base, delivery[d], TRUE)
          IN IF dispatches
               THEN row.status \in Live /\ CommitStockOnAssign(d, row)
               ELSE delivery' = [delivery EXCEPT ![d] = row] /\ UNCHANGED books
     /\ End(s)
     /\ UNCHANGED request

(* geocodePending writes only coordinates, but saves the whole entity after *)
(* a call to the geocoder.                                                  *)
Geocode(s) ==
  LET d == session[s].d IN
  /\ session[s].op = "geocode"
  /\ \E base \in {session[s].row, delivery[d]} :
       delivery' = [delivery EXCEPT ![d] = Saved(session[s].row, base, delivery[d], FALSE)]
  /\ End(s)
  /\ UNCHANGED <<request, books>>

LegalTransitions ==
  [unassigned |-> {"pending", "cancelled"},
   pending    |-> {"picked_up", "cancelled", "failed"},
   picked_up  |-> {"in_transit", "cancelled", "failed", "returned"},
   in_transit |-> {"arrived", "cancelled", "failed", "returned"},
   arrived    |-> {"delivered", "cancelled", "failed", "returned"},
   delivered  |-> {}, failed |-> {}, returned |-> {}, cancelled |-> {}]

(* Under the row lock; a delivery that dies gives its stock back. *)
UpdateStatus(s, d, to) ==
  /\ "status" \in Ops
  /\ Free(s)
  /\ Exists(d)
  /\ to \in LegalTransitions[delivery[d].status]
  /\ LET row == [delivery[d] EXCEPT !.status = to]
     IN IF to \in Dead
          THEN ReleaseOnReject(d, row)
          ELSE delivery' = [delivery EXCEPT ![d] = row] /\ UNCHANGED books
  /\ UNCHANGED <<request, session>>

(* The rider's confirmation: the entity is read once, outside any          *)
(* transaction, and a delivery that has ended is refused.                  *)
StartConfirm(s, d) == Exists(d) /\ Begin(s, "confirm", d, None, delivery[d])

(* The payment answer, if there is one, saves the entity as it was read. *)
ConfirmAnswer(s) ==
  LET d == session[s].d IN
  /\ session[s].op = "confirm"
  /\ ~session[s].answered
  /\ session[s].row.ledger \in {"none", "in_transit"}
  /\ \E base \in {session[s].row, delivery[d]} :
       delivery' = [delivery EXCEPT ![d] = Saved(session[s].row, base, delivery[d], TRUE)]
  /\ session' = [session EXCEPT ![s].answered = TRUE]
  /\ UNCHANGED <<request, books>>

Confirm(s) ==
  LET d == session[s].d
      row == session[s].row
  IN /\ session[s].op = "confirm"
     /\ IF row.status \in Moving
          THEN \E base \in {row, delivery[d]} :
                 delivery' = [delivery EXCEPT ![d] =
                   Saved([row EXCEPT !.status = "delivered"], base, delivery[d], TRUE)]
          ELSE UNCHANGED delivery
     /\ End(s)
     /\ UNCHANGED <<request, books>>

(* Hard delete: the checks read the row without a lock. *)
NotOnTheRoad(d) == delivery[d].status \in {"unassigned", "cancelled"}
Removable(d) ==
  /\ delivery[d].status \in {"unassigned", "cancelled"}
  /\ ~delivery[d].committed
  /\ ~delivery[d].invoiced

StartRemove(s, d) == Removable(d) /\ Begin(s, "remove", d, None, delivery[d])

Remove(s) ==
  LET d == session[s].d IN
  /\ session[s].op = "remove"
  /\ delivery' = [delivery EXCEPT ![d] = [NoRow EXCEPT !.status = "removed"]]
  /\ request' = [r \in Requests |-> IF request[r].d = d
                                   THEN [request[r] EXCEPT !.status = "deleted"]
                                   ELSE request[r]]
  /\ End(s)
  /\ UNCHANGED books

-----------------------------------------------------------------------------
(* InventoryApprovalsService *)

Pending(d, count) ==
  [status |-> "pending", d |-> d, count |-> count, entry |-> NoEntry]

(* POST /inventory-approvals files a request, whatever the delivery is, one *)
(* that has been removed included.                                          *)
CreateRequest(s, r, d) ==
  /\ "request" \in Ops
  /\ Free(s)
  /\ delivery[d].status # "absent"
  /\ request[r] = NoRequest
  /\ \A t \in Sessions : session[t].r # r
  /\ \E count \in [Items -> Counts] :
       request' = [request EXCEPT ![r] = Pending(d, count)]
  /\ UNCHANGED <<delivery, books, session>>

(* The signed bill: the delivery and the requests are read without a lock. *)
StartBillPhoto(s, r, d) ==
  /\ Exists(d)
  /\ delivery[d].rider
  /\ delivery[d].status \notin {"delivered", "cancelled"}
  /\ \A q \in Requests : request[q].d = d => request[q].status \notin {"pending", "approved"}
  /\ request[r] = NoRequest
  /\ \A t \in Sessions : session[t].r # r
  /\ Begin(s, "billPhoto", d, r, delivery[d])

BillPhoto(s) ==
  LET d == session[s].d
      row == session[s].row
  IN /\ session[s].op = "billPhoto"
     /\ \E count \in [Items -> Counts] :
          /\ \A i \in Items :
               /\ count[i].delivered >= 0 /\ count[i].returned >= 0
               /\ row.committed =>
                    count[i].delivered + count[i].returned <= Load(d, row)[i]
          /\ request' = [request EXCEPT ![session[s].r] = Pending(d, count)]
     /\ \E base \in {row, delivery[d]} :
          delivery' = [delivery EXCEPT ![d] = Saved(row, base, delivery[d], FALSE)]
     /\ End(s)
     /\ UNCHANGED books

(* approve, reject: the request and the delivery are read without a lock. *)
Reviewable(r) == request[r].status = "pending"

StartReview(s, op, r) ==
  /\ Reviewable(r)
  /\ Begin(s, op, request[r].d, r, delivery[request[r].d])

(* save(req) overwrites the status; a request deleted meanwhile is inserted *)
(* again unless it was deleted between save's SELECT and its UPDATE.        *)
SaveRequest(s, status, entry) ==
  \E gone \in {FALSE, request[session[s].r].status = "deleted"} :
    request' = [request EXCEPT ![session[s].r].status = IF gone THEN @ ELSE status,
                               ![session[s].r].entry = IF gone THEN @ ELSE entry]

(* Net units of item i that a request takes from the shelf when no dispatch *)
(* took them before.                                                        *)
Net(count, i) == count[i].delivered - count[i].returned

(* A delivery that was not dispatched when the reviewer read it: the counts *)
(* come straight off the shelf, and the delivery is read again and saved.   *)
LegacyApproval(s, count) ==
  LET d == session[s].d IN
  /\ \A i \in Items : onHand[i] - Net(count, i) >= 0
  /\ onHand' = [i \in Items |-> onHand[i] - Net(count, i)]
  /\ gl1200' = [i \in Items |-> gl1200[i] - Net(count, i)]
  /\ cogs' = [i \in Items |-> cogs[i] + Net(count, i)]
  /\ UNCHANGED <<gl1250, invoices>>
  /\ \E mem \in {session[s].row, delivery[d]} : \E base \in {mem, delivery[d]} :
       delivery' = IF mem.status \in Live \ {"delivered"}
                     THEN [delivery EXCEPT ![d] =
                            Saved([mem EXCEPT !.status = "delivered"], base, delivery[d], FALSE)]
                     ELSE delivery

Approve(s) ==
  LET d == session[s].d
      count == request[session[s].r].count
      load == Load(d, delivery[d])
      kept == [i \in Items |-> Kept(load[i], count[i].delivered)]
      net == [i \in Items |-> Net(count, i)]
  IN /\ session[s].op = "approve"
     /\ IF session[s].row.committed
          THEN /\ CommitApproval(d, count)
               /\ SaveRequest(s, "approved",
                    [stock |-> [i \in Items |-> load[i] - kept[i]], cost |-> kept])
          ELSE /\ LegacyApproval(s, count)
               /\ SaveRequest(s, "approved",
                    [stock |-> [i \in Items |-> -net[i]], cost |-> net])
     /\ End(s)

Reject(s) ==
  LET d == session[s].d IN
  /\ session[s].op = "reject"
  /\ IF session[s].row.committed
       THEN /\ Exists(d)
            /\ ReleaseOnReject(d, [delivery[d] EXCEPT !.status = "returned"])
       ELSE UNCHANGED <<delivery, books>>
  /\ \E entry \in {NoEntry, request[session[s].r].entry} : SaveRequest(s, "rejected", entry)
  /\ End(s)

(* undoApproval: refused once the delivery's sale is in the ledger. *)
IsApproved(r) == request[r].status = "approved"
Undoable(r) == request[r].status = "approved" /\ delivery[request[r].d].ledger # "committed"

StartUndo(s, r) ==
  /\ Undoable(r)
  /\ "undo" \in Ops
  /\ Free(s)
  /\ session' = [session EXCEPT ![s] =
                   [Idle EXCEPT !.op = "undo", !.d = request[r].d, !.r = r,
                                !.entry = request[r].entry]]
  /\ UNCHANGED <<delivery, request, books>>

(* The shelf never goes below zero; the journal is reversed as it was posted. *)
Undo(s) ==
  LET count == request[session[s].r].count IN
  /\ session[s].op = "undo"
  /\ onHand' = [i \in Items |-> LET restored == onHand[i] + Net(count, i)
                                IN IF restored < 0 THEN 0 ELSE restored]
  /\ gl1200' = [i \in Items |-> gl1200[i] - session[s].entry.stock[i]]
  /\ cogs' = [i \in Items |-> cogs[i] - session[s].entry.cost[i]]
  /\ SaveRequest(s, "pending", NoEntry)
  /\ End(s)
  /\ UNCHANGED <<delivery, gl1250, invoices>>

(* Any check not modelled here (credit limit, closed period, a price of     *)
(* zero, a lost connection) rolls the transaction back.                     *)
Rollback(s) == ~Free(s) /\ End(s) /\ UNCHANGED <<delivery, request, books>>

-----------------------------------------------------------------------------
Start(s) ==
  \/ \E d \in Deliveries : \/ StartCreate(s, d) \/ StartAssign(s, d)
                          \/ StartAutoAssign(s, d) \/ StartEdit(s, d)
                          \/ StartGeocode(s, d) \/ StartConfirm(s, d)
                          \/ StartRemove(s, d)
                          \/ \E r \in Requests : StartBillPhoto(s, r, d)
  \/ \E r \in Requests : \/ \E op \in {"approve", "reject"} : StartReview(s, op, r)
                        \/ StartUndo(s, r)

Finish(s) ==
  \/ Create(s) \/ Assign(s) \/ Geocode(s) \/ ConfirmAnswer(s) \/ Confirm(s)
  \/ Remove(s) \/ BillPhoto(s) \/ Approve(s) \/ Reject(s) \/ Undo(s) \/ Rollback(s)
  \/ \E giveRider \in BOOLEAN : Edit(s, giveRider)

AtOnce(s) ==
  \E d \in Deliveries : \/ \E to \in Live : UpdateStatus(s, d, to)
                      \/ \E r \in Requests : CreateRequest(s, r, d)

Next == \E s \in Sessions : Start(s) \/ Finish(s) \/ AtOnce(s)

Spec == Init /\ [][Next]_vars

-----------------------------------------------------------------------------
(* Properties *)

(* Every variable keeps its type. *)
TypeOK ==
  /\ delivery \in [Deliveries -> Row]
  /\ request \in [Requests -> Request]
  /\ onHand \in [Items -> Int]
  /\ gl1200 \in [Items -> Int]
  /\ gl1250 \in [Deliveries -> [Items -> Int]]
  /\ cogs \in [Items -> Int]
  /\ invoices \in [Deliveries -> Nat]
  /\ session \in [Sessions -> Session]

(* qa/invariants.sql I11: stock never goes negative, whatever interleaves,  *)
(* because every path re-reads the item under its row lock before it takes. *)
StockNeverNegative == \A i \in Items : onHand[i] >= 0

(* qa/invariants.sql I13: the shelf is worth what account 1200 says.        *)
SubledgerTies == \A i \in Items : onHand[i] = gl1200[i]

(* A delivery holds in Goods in Transit exactly what left the shelf for it, *)
(* while its ledger status says it is in transit and at no other time: it   *)
(* is never dispatched twice and never relieved twice.                      *)
InTransitExactly ==
  \A d \in Deliveries :
    gl1250[d] = IF delivery[d].ledger = "in_transit" THEN Lines[d] ELSE Zero

(* Approval recognises the sale of a delivery at most once, although two    *)
(* requests may be filed for it and reviewed at the same time.              *)
SoldAtMostOnce == \A d \in Deliveries : invoices[d] <= 1

(* The ledger status of a delivery never goes back, and once sold or        *)
(* returned it stays so, however many answers, edits and reviews follow.    *)
LedgerNeverGoesBack ==
  [][\A d \in Deliveries :
       /\ delivery[d].ledger \in {"committed", "returned"} =>
            delivery'[d].ledger = delivery[d].ledger
       /\ delivery[d].ledger = "in_transit" => delivery'[d].ledger # "none"]_vars

(* The rows and the accounts implement the life of a consignment: the       *)
(* ledger status, the shelf, Goods in Transit and cost of goods sold move   *)
(* together, and no unit is ever gained or lost between them.               *)
Consignment ==
  INSTANCE Consignment WITH
    phase <- [d \in Deliveries |-> delivery[d].ledger],
    shelf <- onHand, transit <- gl1250, sold <- cogs
ImplementsConsignment == Consignment!Spec

=============================================================================
