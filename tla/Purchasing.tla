----------------------------- MODULE Purchasing -----------------------------
(***************************************************************************)
(* What one vendor is owed: a purchase order, what has been received and   *)
(* billed on it, bills, payments with their proofs, vendor credits, the    *)
(* vendor's running balance, and accounts 2050 (received, not yet billed), *)
(* 2000 (payable) and the bank.  The stock a receipt or a return moves is  *)
(* in Inventory.                                                           *)
(*                                                                         *)
(* As in Receivables, an operation that reads without a lock is two steps: *)
(* Ask reads, the action named after it writes.  The order, a bill being   *)
(* posted and a credit are read FOR UPDATE: what touches only those rows   *)
(* is one step.  Amounts are whole units; overdue, derived when a bill is  *)
(* read, is left out, and the company's registration for purchase tax does  *)
(* not change (see the README).                                            *)
(***************************************************************************)
EXTENDS FiniteSets, FiniteSums

CONSTANTS StockLines, ExpenseLines,  \* lines of the order, by what they buy
          Cost, Tax,     \* of one unit, on any line
          MostOrdered,   \* bound: units ordered on a line
          Bills, Credits, Proofs, Payments,
          Amounts,       \* amounts of documents and payments
          HandGrni,      \* whether a bill entered by hand may debit 2050
          Requests, Overlapping,
          MaxWrites      \* bound: transactions that commit

ASSUME PurchasingAssumption ==
  /\ StockLines \cap ExpenseLines = {} /\ IsFiniteSet(StockLines \cup ExpenseLines)
  /\ IsFiniteSet(Bills) /\ IsFiniteSet(Credits) /\ IsFiniteSet(Payments)
  /\ Cost \in Nat \ {0} /\ Tax \in Nat /\ MostOrdered \in Nat
  /\ Amounts \subseteq Nat \ {0}
  /\ HandGrni \in BOOLEAN /\ MaxWrites \in Nat

VARIABLES db,      \* the committed rows, see Init
          req,     \* request -> what it asked and what it has read
          spent,   \* history: credit -> bill -> what it has paid on it
          writes,  \* transactions committed so far
          apart    \* history: no two requests were ever served at once

vars == <<db, req, spent, writes, apart>>

Lines == StockLines \cup ExpenseLines
SmallerOf(a, b) == IF a < b THEN a ELSE b
Above0(a) == IF a > 0 THEN a ELSE 0

Line(q) == [ordered |-> q, received |-> 0, billed |-> 0, accrued |-> 0, cleared |-> 0]
NoLink == [l \in Lines |-> [qty |-> 0, grni |-> 0]]
NoBill == [status |-> "none", total |-> 0, paid |-> 0, balance |-> 0, posted |-> FALSE,
           order |-> FALSE, link |-> NoLink, hand |-> 0]
NoCredit == [status |-> "none", total |-> 0, applied |-> 0, balance |-> 0]
NoPayment == [proof |-> "none", on |-> [b \in Bills |-> 0]]

(* link: what a bill raised from the order bills of a line, and the accrual *)
(* it clears; hand: what lines entered by hand debit 2050 with.             *)
(* used: proofs a payment has claimed.  owed: vendor.balance.               *)
(* The order may have been issued already.                                  *)
Init ==
  /\ \E registered, issued \in BOOLEAN :
       db = [po |-> IF issued THEN "sent" ELSE "none",
             line |-> [l \in Lines |-> Line(IF issued THEN MostOrdered ELSE 0)],
             registered |-> registered,
             bill |-> [b \in Bills |-> NoBill],
             credit |-> [c \in Credits |-> NoCredit],
             pay |-> [p \in Payments |-> NoPayment],
             used |-> {}, owed |-> 0, grni |-> 0, ap |-> 0, bank |-> 0]
  /\ req = [r \in Requests |-> [op |-> "idle"]]
  /\ spent = [c \in Credits |-> [b \in Bills |-> 0]]
  /\ writes = 0
  /\ apart = TRUE

-----------------------------------------------------------------------------
(* Figures the code derives from the rows. *)

Accrued(row) == row.accrued - row.cleared
Unbilled(row) == row.received - row.billed
LandedCost(d, q) == IF d.registered THEN q * Cost ELSE q * (Cost + Tax)

AnyReceived(line) == \E l \in Lines : line[l].received > 0
AllReceived(line) == \A l \in Lines : line[l].received >= line[l].ordered
AllBilled(line) == \A l \in Lines : line[l].billed >= line[l].ordered
DeriveStatus(line, ignoreBilling) ==
  IF AllReceived(line) /\ AllBilled(line) /\ ~ignoreBilling THEN "closed"
  ELSE IF AllReceived(line) THEN "received"
  ELSE IF AnyReceived(line) THEN "partial" ELSE "sent"

Issued(d) == d.po \in {"sent", "partial", "received"}
OfOrder(d) == {b \in Bills : d.bill[b].order /\ d.bill[b].status \notin {"none", "gone"}}
Owing(d) == {b \in Bills : d.bill[b].status \in {"open", "partial", "paid"}}
LiveCredits(d) == {c \in Credits : d.credit[c].status \in {"open", "applied", "closed"}}

-----------------------------------------------------------------------------
(* The pieces transactions are built from: database -> database. *)

(* createJournalEntryForBill, and the vendor's balance.  A line that bills  *)
(* received goods debits 2050 by what their receipts accrued; one entered   *)
(* by hand, by its amount if 2050 is the account it names.                  *)
Cleared(link) == Sum([l \in Lines |-> link[l].grni], Lines)
Debited(row) == Cleared(row.link) + row.hand
Posted(d, b, owed) ==
  [d EXCEPT !.bill[b].posted = TRUE,
            !.grni = @ - Debited(d.bill[b]),
            !.ap = @ + d.bill[b].total,
            !.owed = owed + d.bill[b].total]

(* Locks the bill, then checks.                                             *)
MayPayMore(d, b, a) == d.bill[b].status \in {"open", "partial", "paid"} /\ a > 0
MayPay(d, b, a) == MayPayMore(d, b, a) /\ a <= d.bill[b].balance
PaidBy(row, a) ==
  LET paid == row.paid + a
  IN [row EXCEPT !.paid = paid, !.balance = row.total - paid,
                 !.status = IF paid = row.total THEN "paid" ELSE "partial"]

(* A payment's applications: each of its bills is locked in its turn, and   *)
(* stays so until the payment commits.                                      *)
Shares == {on \in [Bills -> Amounts \cup {0}] : \E b \in Bills : on[b] > 0}
MayPayAll(d, on) == \A b \in Bills : on[b] > 0 => MayPay(d, b, on[b])
PaidInCash(d, p, on, proof, owed) ==
  LET total == Sum(on, Bills)
  IN [d EXCEPT !.bill = [b \in Bills |-> IF on[b] > 0 THEN PaidBy(@[b], on[b]) ELSE @[b]],
               !.pay[p] = [proof |-> proof, on |-> on],
               !.used = @ \cup {proof},
               !.owed = owed - total, !.ap = @ - total, !.bank = @ - total]

(* applyVendorCredit: locks the credit, then the bill; posts nothing.       *)
MayCredit(d, c, b, a) ==
  /\ d.credit[c].status \in {"open", "applied"}
  /\ a <= d.credit[c].balance
  /\ MayPay(d, b, a)
Credited(d, c, b, a) ==
  LET left == d.credit[c].total - (d.credit[c].applied + a)
  IN [d EXCEPT !.bill[b] = PaidBy(@, a),
               !.credit[c] = [d.credit[c] EXCEPT
                                !.applied = @ + a, !.balance = left,
                                !.status = IF left <= 0 THEN "closed" ELSE "applied"]]

(* releasePurchaseOrderBilling: the lines a deleted bill billed.            *)
Released(d, row) ==
  LET line == [l \in Lines |-> [d.line[l] EXCEPT !.billed = Above0(@ - row.link[l].qty),
                                                 !.cleared = @ - row.link[l].grni]]
  IN IF ~row.order THEN d
     ELSE [d EXCEPT !.line = line,
                    !.po = IF d.po = "closed" THEN DeriveStatus(line, TRUE) ELSE @]

-----------------------------------------------------------------------------
(* Requests. *)

Idle(r) == req[r].op = "idle"
Serving(r, op) == req[r].op = op
Alone == \A q \in Requests : Idle(q)
Room == writes < MaxWrites
Done == [op |-> "idle"]

Ask(r, call) ==
  /\ Idle(r)
  /\ Room
  /\ \A q \in Requests : Idle(q) \/ {call.op, req[q].op} \subseteq Overlapping
  /\ req' = [req EXCEPT ![r] = call]
  /\ apart' = (apart /\ Alone)
  /\ UNCHANGED <<db, spent, writes>>
Then(r, d, call) ==
  /\ db' = d
  /\ req' = [req EXCEPT ![r] = call]
  /\ writes' = writes + 1
  /\ UNCHANGED apart
Commit(r, d) == Then(r, d, Done) /\ UNCHANGED spent
Drop(r) ==
  /\ ~Idle(r)
  /\ req' = [req EXCEPT ![r] = Done]
  /\ UNCHANGED <<db, spent, writes, apart>>

(* A locked operation is one step; it meets only requests that may overlap. *)
AtOnce(d) ==
  /\ Room
  /\ \A q \in Requests : Idle(q) \/ req[q].op \in Overlapping
  /\ db' = d
  /\ writes' = writes + 1
  /\ apart' = (apart /\ Alone)
  /\ UNCHANGED req
OrderFree == \A q \in Requests : ~Serving(q, "billOrder")
BillFree(b) == \A q \in Requests : Serving(q, "post") => req[q].b # b
BillsFree(on) == \A b \in Bills : on[b] > 0 => BillFree(b)

(* --- The order: every operation locks it --- *)

CreateOrder ==
  \E n \in [Lines -> 1..MostOrdered] :
    /\ db.po \in {"none", "gone"}
    /\ AtOnce([db EXCEPT !.po = "draft", !.line = [l \in Lines |-> Line(n[l])]])
    /\ UNCHANGED spent
UpdateOrder ==
  \E n \in [Lines -> 1..MostOrdered] :
    /\ OrderFree
    /\ db.po = "draft" \/ Issued(db)
    /\ ~AnyReceived(db.line)
    /\ AtOnce([db EXCEPT !.line = [l \in Lines |-> Line(n[l])]])
    /\ UNCHANGED spent
DeleteOrder ==
  /\ OrderFree
  /\ db.po \notin {"none", "gone"}
  /\ OfOrder(db) = {} /\ ~AnyReceived(db.line)
  /\ AtOnce([db EXCEPT !.po = "gone", !.line = [l \in Lines |-> Line(0)]])
  /\ UNCHANGED spent

MayCloseUnbilled(d) == Issued(d)
MayClose(d) == Issued(d) /\ \A l \in Lines : Unbilled(d.line[l]) <= 0
UpdateStatus ==
  \E status \in {"sent", "draft", "closed"} :
    /\ OrderFree
    /\ CASE status = "sent" -> db.po \in {"draft", "closed"}
         [] status = "draft" -> db.po = "sent" /\ ~AnyReceived(db.line)
         [] OTHER -> MayClose(db)
    /\ AtOnce([db EXCEPT !.po = IF db.po = "closed" THEN DeriveStatus(db.line, TRUE) ELSE status])
    /\ UNCHANGED spent

(* receive: to an absolute quantity, never below what is billed.            *)
ToReverse(d, row, q) == SmallerOf(LandedCost(d, q), Above0(Accrued(row)))
Receive ==
  \E l \in Lines, q \in 0..MostOrdered :
    LET row == db.line[l]
        by == q - row.received
        accrual == IF l \in ExpenseLines THEN 0
                   ELSE IF by > 0 THEN LandedCost(db, by) ELSE -ToReverse(db, row, -by)
        d == [db EXCEPT !.line[l].received = q, !.line[l].accrued = @ + accrual,
                        !.grni = @ + accrual]
    IN /\ OrderFree
       /\ Issued(db)
       /\ by # 0 /\ q <= row.ordered /\ q >= row.billed
       /\ AtOnce([d EXCEPT !.po = DeriveStatus(d.line, FALSE)])
       /\ UNCHANGED spent

(* createBill: locks the order, then reads the vendor.  Where goods were    *)
(* received the bill must clear an accrual (BILL_PO_VIA_RECEIPT): once they *)
(* are billed, a service received later cannot be billed alone.             *)
ToBill(d) == {l \in Lines : Unbilled(d.line[l]) > 0}
GoodsReceived(d) == \E l \in StockLines : d.line[l].received > 0
AskBillOrder(r) ==
  \E b \in Bills :
    /\ OrderFree
    /\ Issued(db) /\ ToBill(db) # {} /\ db.bill[b].status = "none"
    /\ GoodsReceived(db) => ToBill(db) \cap StockLines # {}
    /\ Ask(r, [op |-> "billOrder", b |-> b, owed |-> db.owed])
BillOrder(r) ==
  LET b == req[r].b
      link == [l \in Lines |->
                 [qty |-> IF l \in ToBill(db) THEN Unbilled(db.line[l]) ELSE 0,
                  grni |-> IF l \in ToBill(db) \cap StockLines THEN Accrued(db.line[l]) ELSE 0]]
      total == Sum([l \in Lines |-> link[l].qty * (Cost + Tax)], Lines)
      line == [l \in Lines |-> [db.line[l] EXCEPT !.billed = @ + link[l].qty,
                                                  !.cleared = @ + link[l].grni]]
      d == [db EXCEPT !.bill[b] = [status |-> "open", total |-> total, paid |-> 0,
                                   balance |-> total, posted |-> FALSE, order |-> TRUE,
                                   link |-> link, hand |-> 0],
                      !.line = line, !.po = DeriveStatus(line, FALSE)]
  IN /\ Serving(r, "billOrder")
     /\ db.bill[b].status = "none"
     /\ Commit(r, Posted(d, b, req[r].owed))

(* --- Bills --- *)

(* A bill entered by hand may name the order, unless goods were received    *)
(* and none of its lines debits 2050; with or without an order, its lines   *)
(* may name any account, 2050 too.                                          *)
ByHand == IF HandGrni THEN Amounts \cup {0} ELSE {0}
AskCreateBill(r) ==
  \E b \in Bills, t \in Amounts, hand \in ByHand, draft \in BOOLEAN, order \in BOOLEAN :
    /\ db.bill[b].status = "none" /\ hand <= t
    /\ order => /\ db.po \notin {"none", "gone"}
                /\ GoodsReceived(db) => hand > 0
    /\ Ask(r, [op |-> "createBill", b |-> b, t |-> t, hand |-> hand, draft |-> draft,
               order |-> order, owed |-> db.owed])
CreateBill(r) ==
  LET c == req[r]
      d == [db EXCEPT !.bill[c.b] = [NoBill EXCEPT !.status = IF c.draft THEN "draft" ELSE "open",
                                                   !.total = c.t, !.balance = c.t,
                                                   !.hand = c.hand, !.order = c.order]]
  IN /\ Serving(r, "createBill")
     /\ db.bill[c.b].status = "none"
     /\ Commit(r, IF c.draft THEN d ELSE Posted(d, c.b, c.owed))

AskUpdateBill(r) ==
  \E b \in Bills, t \in Amounts, hand \in ByHand :
    /\ db.bill[b].status = "draft" /\ hand <= t
    /\ t # db.bill[b].total \/ hand # db.bill[b].hand
    /\ Ask(r, [op |-> "updateBill", b |-> b, t |-> t, hand |-> hand, seen |-> db.bill[b]])
UpdateBill(r) ==
  /\ Serving(r, "updateBill")
  /\ Commit(r, [db EXCEPT !.bill[req[r].b] =
                   [req[r].seen EXCEPT !.total = req[r].t, !.balance = req[r].t,
                                       !.hand = req[r].hand]])

(* post: locks the bill, then reads the vendor.                             *)
AskPost(r) ==
  \E b \in Bills :
    /\ BillFree(b)
    /\ db.bill[b].status = "draft"
    /\ Ask(r, [op |-> "post", b |-> b, owed |-> db.owed])
Post(r) ==
  /\ Serving(r, "post")
  /\ Commit(r, Posted([db EXCEPT !.bill[req[r].b].status = "open"], req[r].b, req[r].owed))

(* delete: the bill is read without a lock; the mirror of its entry holds   *)
(* the company's row, so the vendor is read as it is.                       *)
MayDelete(row) == row.status \notin {"none", "gone"} /\ row.paid = 0
AskDeleteBill(r) ==
  \E b \in Bills :
    MayDelete(db.bill[b]) /\ Ask(r, [op |-> "deleteBill", b |-> b, seen |-> db.bill[b]])
DeleteBill(r) ==
  LET row == req[r].seen
      reversed == IF ~row.posted THEN db
                  ELSE [db EXCEPT !.grni = @ + Debited(row), !.ap = @ - row.total,
                                  !.owed = @ - row.total]
  IN /\ Serving(r, "deleteBill")
     /\ OrderFree
     /\ Commit(r, [Released(reversed, row) EXCEPT !.bill[req[r].b] = [NoBill EXCEPT !.status = "gone"]])

(* --- Payments --- *)

(* pay: the vendor and the proof are read before the bills are locked.      *)
AskPay(r) ==
  \E on \in Shares, proof \in Proofs \ db.used :
    Ask(r, [op |-> "pay", on |-> on, proof |-> proof, owed |-> db.owed])
Pay(r) ==
  LET c == req[r]
  IN /\ Serving(r, "pay")
     /\ BillsFree(c.on) /\ MayPayAll(db, c.on)
     /\ \E p \in Payments : /\ db.pay[p] = NoPayment
                            /\ Commit(r, PaidInCash(db, p, c.on, c.proof, c.owed))

ApplyCredit ==
  \E c \in LiveCredits(db), b \in Owing(db), a \in Amounts :
    /\ BillFree(b)
    /\ MayCredit(db, c, b, a)
    /\ AtOnce(Credited(db, c, b, a))
    /\ spent' = [spent EXCEPT ![c][b] = @ + a]

(* settle: credit first, then cash against what the credit left; all or     *)
(* nothing.  The cash leg reads the vendor and the proof after the credit.  *)
Settle ==
  \E c \in LiveCredits(db), b \in Owing(db), a \in Amounts, on \in Shares,
     proof \in Proofs \ db.used, p \in Payments :
    LET credited == Credited(db, c, b, a)
    IN /\ BillFree(b) /\ BillsFree(on)
       /\ MayCredit(db, c, b, a)
       /\ MayPayAll(credited, on)
       /\ db.pay[p] = NoPayment
       /\ AtOnce(PaidInCash(credited, p, on, proof, db.owed))
       /\ spent' = [spent EXCEPT ![c][b] = @ + a]

(* --- Vendor credits --- *)

AskCreateCredit(r) ==
  \E c \in Credits, t \in Amounts :
    /\ db.credit[c].status = "none"
    /\ Ask(r, [op |-> "createCredit", c |-> c, t |-> t, owed |-> db.owed])
CreateCredit(r) ==
  LET c == req[r]
  IN /\ Serving(r, "createCredit")
     /\ db.credit[c.c].status = "none"
     /\ Commit(r, [db EXCEPT !.credit[c.c] = [status |-> "open", total |-> c.t, applied |-> 0,
                                              balance |-> c.t],
                             !.ap = @ - c.t, !.owed = c.owed - c.t])

(* void reads the credit without a lock; delete reads it, voids it in a     *)
(* transaction of its own, and removes the row afterwards.                  *)
MayVoidApplied(row) == row.status \in {"open", "applied", "closed"}
MayVoid(row) == MayVoidApplied(row) /\ row.applied = 0
AskVoidCredit(r) ==
  \E c \in Credits, remove \in BOOLEAN :
    /\ MayVoid(db.credit[c])
    /\ remove => db.credit[c].status = "open"
    /\ Ask(r, [op |-> "voidCredit", c |-> c, seen |-> db.credit[c], remove |-> remove])
VoidCredit(r) ==
  LET c == req[r]
  IN /\ Serving(r, "voidCredit")
     /\ UNCHANGED spent
     /\ Then(r, [db EXCEPT !.credit[c.c] = [c.seen EXCEPT !.status = "void", !.balance = 0],
                           !.ap = @ + c.seen.total, !.owed = @ + c.seen.total],
              IF c.remove THEN [op |-> "removeCredit", c |-> c.c] ELSE Done)
RemoveCredit(r) ==
  /\ Serving(r, "removeCredit")
  /\ Commit(r, [db EXCEPT !.credit[req[r].c] = [NoCredit EXCEPT !.status = "gone"]])

-----------------------------------------------------------------------------
AskStep(r) ==
  \/ AskBillOrder(r) \/ AskCreateBill(r) \/ AskUpdateBill(r) \/ AskPost(r)
  \/ AskDeleteBill(r) \/ AskPay(r) \/ AskCreateCredit(r) \/ AskVoidCredit(r)
ServeStep(r) ==
  \/ BillOrder(r) \/ CreateBill(r) \/ UpdateBill(r) \/ Post(r) \/ DeleteBill(r)
  \/ Pay(r) \/ CreateCredit(r) \/ VoidCredit(r) \/ RemoveCredit(r)
LockedStep ==
  \/ CreateOrder \/ UpdateOrder \/ DeleteOrder \/ UpdateStatus \/ Receive
  \/ ApplyCredit \/ Settle
Next ==
  \/ \E r \in Requests : AskStep(r) \/ ServeStep(r) \/ Drop(r)
  \/ LockedStep

Spec == Init /\ [][Next]_vars

-----------------------------------------------------------------------------
(* Qa invariant I18 and the comment on updateStatus: account 2050 is what   *)
(* the order's lines have accrued and not cleared, however receipts, their  *)
(* corrections, bills and deleted bills alternate, and nothing of it is     *)
(* left on an order that is closed or whose receipts are all billed.        *)
GrniTies ==
  /\ db.grni = Sum([l \in Lines |-> Accrued(db.line[l])], Lines)
  /\ \A l \in Lines : Unbilled(db.line[l]) >= 0
  /\ db.po = "closed" \/ (\A l \in Lines : Unbilled(db.line[l]) = 0) => db.grni = 0

(* Qa invariant I7: account 2000 is what posted bills leave unpaid less     *)
(* what live vendor credits still hold, and, while requests never overlap,  *)
(* the vendor's running balance is the same figure.  A bill says paid just  *)
(* what payments and credits say they paid on it, and none of the three is  *)
(* ever spent beyond its amount (M1).                                       *)
PayablesTie ==
  /\ db.ap = Sum([b \in Bills |-> db.bill[b].balance], Owing(db))
               - Sum([c \in Credits |-> db.credit[c].balance], LiveCredits(db))
  /\ apart => db.owed = db.ap
  /\ \A b \in Owing(db) :
       /\ db.bill[b].paid = Sum([p \in Payments |-> db.pay[p].on[b]], Payments)
                              + Sum([c \in Credits |-> spent[c][b]], Credits)
       /\ db.bill[b].balance >= 0
  /\ \A c \in LiveCredits(db) :
       /\ db.credit[c].applied = Sum(spent[c], Bills)
       /\ db.credit[c].balance >= 0

=============================================================================
