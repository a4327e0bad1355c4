----------------------------- MODULE Inventory -----------------------------
(***************************************************************************)
(* What is on the shelf and what it is worth: the items with their         *)
(* weighted-average cost, the dated record of movements, account 1200, and *)
(* every way stock comes, goes, is corrected and is given back: receipts,  *)
(* sales, returns either way, adjustments, counts, opening stock, imports. *)
(*                                                                         *)
(* A locked operation is one step on db.  One that reads the item, or the  *)
(* document it undoes, without a lock is two: Ask reads, the action named  *)
(* after the operation writes.  Costs are whole units: an operation whose  *)
(* average would need rounding is left out (WholeAverage).  Stock in       *)
(* transit (1250) is in DeliveryLedger.                                    *)
(***************************************************************************)
EXTENDS FiniteSets, FiniteSums

CONSTANTS Goods,
          Documents,   \* 1..n: sales, returns and adjustments, as they come
          Filings,     \* adjustment requests staff file for approval
          Today,       \* the last of the days 1..Today entries are dated
          Costs, Quantities,
          Clients,     \* whose requests may be served at once, one of each
          Overlapping, \* operations that may be asked for meanwhile
          Emptying,    \* may the last units leave at another value than theirs?
          MaxWrites    \* bound: transactions that commit

ASSUME InventoryAssumption ==
  /\ Documents \subseteq Nat /\ IsFiniteSet(Documents) /\ IsFiniteSet(Goods)
  /\ Today \in Nat \ {0} /\ Costs \subseteq Nat \ {0} /\ Quantities \subseteq Nat \ {0}
  /\ Emptying \in BOOLEAN /\ MaxWrites \in Nat

VARIABLES db,      \* the committed rows, see StockInit
          req,     \* request -> what it asked and what it has read
          writes,  \* transactions committed so far
          apart    \* history: no two requests were ever served at once

stockVars == <<db, req, writes, apart>>

Days == 1..Today

Kinds == {"adjusted", "reversal", "sold", "returned", "restocked"}
NoItem == [made |-> FALSE, qty |-> 0, unit |-> 0]
NoDocument == [kind |-> "none"]
NoFiling == [status |-> "none"]
NothingMoved == [n |-> 0, qty |-> 0, value |-> 0]

(* moved: an item's movements of a day, added up.  gl: what a day's entries *)
(* move account 1200 by.  arrived: the days goods were received or opened.   *)
(*  doc: what a document moved, frozen when it did.   *)
StockInit ==
  /\ db = [item |-> [i \in Goods |-> NoItem],
           moved |-> [i \in Goods |-> [d \in Days |-> NothingMoved]],
           arrived |-> [i \in Goods |-> {}],
           gl |-> [d \in Days |-> 0],
           doc |-> [k \in Documents |-> NoDocument],
           filed |-> [f \in Filings |-> NoFiling]]
  /\ req = [r \in Clients |-> [op |-> "idle"]]
  /\ writes = 0
  /\ apart = TRUE

-----------------------------------------------------------------------------
(* An item's row. *)

Worth(row) == row.qty * row.unit

(* Units come or go (qty) that are worth value: the average absorbs them.   *)
WholeAverage(row, qty, value) ==
  row.qty + qty > 0 => (Worth(row) + value) % (row.qty + qty) = 0
Averaged(row, qty, value, ifEmpty) ==
  [row EXCEPT !.qty = @ + qty,
              !.unit = IF row.qty + qty > 0
                         THEN (Worth(row) + value) \div (row.qty + qty) ELSE ifEmpty]
LeavesNothing(row, qty, value) ==
  row.qty + qty = 0 => Emptying \/ Worth(row) + value = 0

AtAverage(row, qty) == qty * row.unit

(* recordInventoryMovement, and the line of its journal entry on 1200.      *)
Moved(d, i, day, entryDay, qty, value) ==
  [d EXCEPT !.moved[i][day] = [n |-> @.n + 1, qty |-> @.qty + qty, value |-> @.value + value],
            !.gl[entryDay] = @ + value]
Stored(d, i, row) == [d EXCEPT !.item[i] = row]
Arrived(d, i, day) == [d EXCEPT !.arrived[i] = @ \cup {day}]

HasHistory(d, i) == \E day \in Days : d.moved[i][day].n > 0
OfKind(K) == {k \in Documents : db.doc[k].kind \in K}
NextDocument(d) == {k \in Documents : \A j \in Documents : d.doc[j].kind = "none" <=> j >= k}
Noted(d, k, kind, i, day, qty, value) ==
  [d EXCEPT !.doc[k] = [kind |-> kind, item |-> i, day |-> day, qty |-> qty, value |-> value,
                        live |-> TRUE]]

-----------------------------------------------------------------------------
(* Reports. *)

Snapshot(d) == Sum([i \in Goods |-> Worth(d.item[i])], Goods)

UpTo(d, i, day) == [qty |-> Sum([t \in Days |-> d.moved[i][t].qty], 1..day),
                    value |-> Sum([t \in Days |-> d.moved[i][t].value], 1..day)]
AsOf(d, day) == Sum([i \in Goods |-> UpTo(d, i, day).value], Goods)
ClosingOf1200(d, day) == Sum(d.gl, 1..day)

(* inventoryItemHistory: from today's figures, back through the movements.  *)
Existed(d, i, day) == \E t \in 1..day : d.moved[i][t].n > 0
WalkedBack(d, i, day) ==
  LET later == (day + 1)..Today
  IN [qty |-> d.item[i].qty - Sum([t \in Days |-> d.moved[i][t].qty], later),
      value |-> Worth(d.item[i]) - Sum([t \in Days |-> d.moved[i][t].value], later)]

-----------------------------------------------------------------------------
(* Requests. *)

Quiet(r) == req[r].op = "idle"
Serving(r, op) == req[r].op = op
Alone == \A q \in Clients : Quiet(q)
Made(i) == db.item[i].made
Room == writes < MaxWrites

Ask(r, call) ==
  /\ Quiet(r)
  /\ Room
  /\ \A q \in Clients : Quiet(q) \/ {call.op, req[q].op} \subseteq Overlapping
  /\ req' = [req EXCEPT ![r] = call]
  /\ apart' = (apart /\ Alone)
  /\ UNCHANGED <<db, writes>>
Commit(r, d) ==
  /\ db' = d
  /\ req' = [req EXCEPT ![r] = [op |-> "idle"]]
  /\ writes' = writes + 1
  /\ UNCHANGED apart
Drop(r) ==
  /\ ~Quiet(r)
  /\ req' = [req EXCEPT ![r] = [op |-> "idle"]]
  /\ UNCHANGED <<db, writes, apart>>

(* A locked operation waits for no one, and meets a request being served    *)
(* only if that request may overlap.                                        *)
Locked(d) ==
  /\ Room
  /\ \A q \in Clients : Quiet(q) \/ req[q].op \in Overlapping
  /\ db' = d
  /\ writes' = writes + 1
  /\ apart' = (apart /\ Alone)
  /\ UNCHANGED req

(* --- Reference data and what was there on day one --- *)

CreateItem ==
  \E i \in Goods, c \in Costs :
    /\ ~Made(i)
    /\ Locked(Stored(db, i, [made |-> TRUE, qty |-> 0, unit |-> c]))

MayOpen(d, i) == d.item[i].qty = 0 /\ ~HasHistory(d, i) /\ d.item[i].unit > 0
SetOpeningStock ==
  \E i \in Goods, q \in Quantities, day \in Days :
    /\ Made(i)
    /\ MayOpen(db, i)
    /\ LET row == [db.item[i] EXCEPT !.qty = q]
       IN Locked(Arrived(Moved(Stored(db, i, row), i, day, day, q, AtAverage(row, q)), i, day))

(* A spreadsheet row, or an agency's item: made and opened at once, or       *)
(* opened at a new cost, and left as it is once it has a history.            *)
MayReprice(row) == row.qty <= 0
Import ==
  \E i \in Goods, q \in Quantities, c \in Costs, day \in Days :
    LET row == [made |-> TRUE, qty |-> q, unit |-> c]
    IN /\ ~Made(i) \/ (db.item[i].qty = 0 /\ ~HasHistory(db, i))
       /\ Locked(Arrived(Moved(Stored(db, i, row), i, day, day, q, AtAverage(row, q)), i, day))

(* updateItem, toggleItem and createTransfer save the whole row they read.  *)
AskEdit(r) ==
  \E i \in Goods, c \in Costs :
    /\ Made(i)
    /\ c # db.item[i].unit => MayReprice(db.item[i])
    /\ Ask(r, [op |-> "edit", i |-> i, c |-> c, seen |-> db.item[i]])
EditItem(r) ==
  /\ Serving(r, "edit")
  /\ Commit(r, Stored(db, req[r].i, [req[r].seen EXCEPT !.unit = req[r].c]))

AskTransfer(r) ==
  \E i \in Goods, day \in Days :
    Made(i) /\ Ask(r, [op |-> "transfer", i |-> i, day |-> day, seen |-> db.item[i]])
Transfer(r) ==
  /\ Serving(r, "transfer")
  /\ Commit(r, Moved(Stored(db, req[r].i, req[r].seen), req[r].i, req[r].day, req[r].day, 0, 0))

(* --- Corrections --- *)

(* adjust: to an absolute quantity, valued at the average.                  *)
Adjusted(d, k, i, to, day) ==
  LET row == d.item[i]
      by == to - row.qty
      now == [row EXCEPT !.qty = to]
  IN Noted(Moved(Stored(d, i, now), i, day, day, by, AtAverage(row, by)),
           k, "adjusted", i, day, by, AtAverage(row, by))
Adjust ==
  \E i \in Goods, to \in Quantities \cup {0}, day \in Days, k \in NextDocument(db) :
    /\ Made(i)
    /\ to # db.item[i].qty
    /\ Locked(Adjusted(db, k, i, to, day))

(* A member of staff files a target, and the day it is posted on; a count   *)
(* is an assertion about the shelf, any other reason a difference.          *)
File ==
  \E f \in Filings, i \in Goods, to \in Quantities \cup {0}, count \in BOOLEAN, day \in Days :
    /\ Made(i)
    /\ db.filed[f].status = "none"
    /\ Locked([db EXCEPT !.filed[f] = [status |-> "filed", item |-> i, to |-> to,
                                       saw |-> db.item[i].qty, count |-> count, day |-> day]])
RebasedToTarget(row, q) == q.to
Rebased(row, q) == IF q.count THEN q.to ELSE row.qty + (q.to - q.saw)
MayApprove(row, q) ==
  IF q.count THEN row.qty = q.saw ELSE Rebased(row, q) >= 0
AskApprove(r) ==
  \E f \in Filings :
    LET q == db.filed[f]
    IN /\ q.status = "filed"
       /\ MayApprove(db.item[q.item], q)
       /\ Ask(r, [op |-> "approve", f |-> f, to |-> Rebased(db.item[q.item], q)])
ApproveFiling(r) ==
  /\ Serving(r, "approve")
  /\ LET f == req[r].f
         i == db.filed[f].item
     IN /\ db.filed[f].status = "filed"
        /\ \E k \in NextDocument(db) :
             Commit(r, [Adjusted(db, k, i, req[r].to, db.filed[f].day)
                           EXCEPT !.filed[f].status = "posted"])

(* createCount: the quantity counted replaces the one read without a lock.  *)
AskCount(r) ==
  \E i \in Goods, q \in Quantities \cup {0}, day \in Days :
    /\ Made(i) /\ q # db.item[i].qty
    /\ Ask(r, [op |-> "count", i |-> i, q |-> q, day |-> day, seen |-> db.item[i]])
Count(r) ==
  LET c == req[r]
      by == c.q - c.seen.qty
  IN /\ Serving(r, "count")
     /\ \E k \in NextDocument(db) :
          Commit(r, Noted(Moved(Stored(db, c.i, [c.seen EXCEPT !.qty = c.q]),
                                c.i, c.day, c.day, by, AtAverage(c.seen, by)),
                          k, "adjusted", c.i, c.day, by, AtAverage(c.seen, by)))

(* reverseAdjustment: at the value the adjustment's own entry posted.       *)
ReverseAdjustment ==
  \E j \in OfKind({"adjusted"}), k \in NextDocument(db) :
    LET was == db.doc[j]
        i == was.item
        row == db.item[i]
    IN /\ row.qty - was.qty >= 0
       /\ WholeAverage(row, -was.qty, -was.value)
       /\ LeavesNothing(row, -was.qty, -was.value)
       /\ Locked(Noted(Moved(Stored(db, i, Averaged(row, -was.qty, -was.value, row.unit)),
                             i, Today, Today, -was.qty, -was.value),
                       k, "reversal", i, Today, -was.qty, -was.value))

(* --- Purchases --- *)

(* Goods received: what they cost is what the average absorbs.              *)
Receive ==
  \E i \in Goods, q \in Quantities, c \in Costs :
    LET row == db.item[i]
    IN /\ Made(i)
       /\ WholeAverage(row, q, q * c)
       /\ Locked(Arrived(Moved(Stored(db, i, Averaged(row, q, q * c, row.unit)),
                               i, Today, Today, q, q * c), i, Today))
(* A receipt corrected downwards: out at today's average.                   *)
CorrectReceipt ==
  \E i \in Goods, q \in Quantities :
    LET row == db.item[i]
    IN /\ Made(i) /\ row.qty >= q
       /\ Locked(Moved(Stored(db, i, [row EXCEPT !.qty = @ - q]),
                       i, Today, Today, -q, -AtAverage(row, q)))

(* Goods go back to the vendor for what the vendor credits.                 *)
Return ==
  \E i \in Goods, q \in Quantities, c \in Costs, day \in Days, k \in NextDocument(db) :
    LET row == db.item[i]
    IN /\ Made(i) /\ row.qty >= q
       /\ WholeAverage(row, -q, -(q * c))
       /\ LeavesNothing(row, -q, -(q * c))
       /\ Locked(Noted(Moved(Stored(db, i, Averaged(row, -q, -(q * c), 0)),
                             i, day, day, -q, -(q * c)),
                       k, "returned", i, day, -q, -(q * c)))

(* --- Sales --- *)

(* postInvoiceCogs on issue: the item is read without a lock.               *)
AskSell(r) ==
  \E i \in Goods, q \in Quantities, day \in Days :
    /\ Made(i) /\ db.item[i].qty >= q
    /\ Ask(r, [op |-> "sell", i |-> i, q |-> q, day |-> day, seen |-> db.item[i]])
SellItem(r) ==
  LET c == req[r]
      cost == AtAverage(c.seen, c.q)
  IN /\ Serving(r, "sell")
     /\ \E k \in NextDocument(db) :
          Commit(r, Noted(Moved(Stored(db, c.i, [c.seen EXCEPT !.qty = @ - c.q]),
                                c.i, c.day, c.day, -c.q, -cost),
                          k, "sold", c.i, c.day, -c.q, -cost))

(* postCreditMemoInventory on issue: at the cost the sale it reverses was   *)
(* frozen at, or today's average.  A line that is worth nothing is skipped. *)
AskRestock(r) ==
  \E i \in Goods, q \in Quantities, day \in Days : \E c \in Costs \cup {db.item[i].unit} :
    /\ Made(i)
    /\ c > 0
    /\ c = db.item[i].unit
         \/ \E j \in OfKind({"sold"}) : db.doc[j].item = i /\ db.doc[j].value = db.doc[j].qty * c
    /\ WholeAverage(db.item[i], q, q * c)
    /\ Ask(r, [op |-> "restock", i |-> i, q |-> q, c |-> c, day |-> day, seen |-> db.item[i]])
Restock(r) ==
  LET c == req[r]
  IN /\ Serving(r, "restock")
     /\ \E k \in NextDocument(db) :
          Commit(r, Noted(Moved(Stored(db, c.i, Averaged(c.seen, c.q, c.q * c.c, c.seen.unit)),
                                c.i, c.day, c.day, c.q, c.q * c.c),
                          k, "restocked", c.i, c.day, c.q, c.q * c.c))

(* --- Voids of sales, returns and restocks --- *)

(* The mirror entry is dated today, the movement as the document was.  The  *)
(* item is locked only for a vendor's credit.                               *)
AskVoid(r) ==
  \E k \in OfKind({"sold", "returned", "restocked"}) :
    LET was == db.doc[k]
        row == db.item[was.item]
    IN /\ was.live
       /\ row.qty - was.qty >= 0
       /\ WholeAverage(row, -was.qty, -was.value)
       /\ LeavesNothing(row, -was.qty, -was.value)
       /\ Ask(r, [op |-> "void", k |-> k, seen |-> row])
ValueOnVoidToday(row, was) == -AtAverage(row, was.qty)
ValueOnVoid(row, was) == -was.value
Void(r) ==
  LET was == db.doc[req[r].k]
      i == was.item
      row == IF was.kind = "returned" THEN db.item[i] ELSE req[r].seen
  IN /\ Serving(r, "void")
     /\ WholeAverage(row, -was.qty, -was.value)
     /\ Commit(r, [Moved(Stored(db, i, Averaged(row, -was.qty, -was.value, 0)),
                         i, was.day, Today, -was.qty, ValueOnVoid(row, was))
                   EXCEPT !.doc[req[r].k].live = FALSE])

-----------------------------------------------------------------------------
AskStep(r) ==
  \/ AskEdit(r) \/ AskTransfer(r) \/ AskApprove(r) \/ AskCount(r)
  \/ AskSell(r) \/ AskRestock(r) \/ AskVoid(r)
ServeStep(r) ==
  \/ EditItem(r) \/ Transfer(r) \/ ApproveFiling(r) \/ Count(r)
  \/ SellItem(r) \/ Restock(r) \/ Void(r)
LockedStep ==
  \/ CreateItem \/ SetOpeningStock \/ Import \/ Adjust \/ File
  \/ ReverseAdjustment \/ Receive \/ CorrectReceipt \/ Return
StockNext ==
  \/ \E r \in Clients : AskStep(r) \/ ServeStep(r) \/ Drop(r)
  \/ LockedStep

StockSpec == StockInit /\ [][StockNext]_stockVars

-----------------------------------------------------------------------------
(* Qa invariants I13 and I23 and the three reports built on them, whatever  *)
(* was received, sold, returned, counted, reversed or voided in whatever    *)
(* order: the valuation table, the movements and account 1200 give one      *)
(* figure for what the stock is worth; and on every earlier day the history *)
(* that walks back from today's figures finds, item by item, the quantity   *)
(* and the value the as-of valuation adds up from the first movement on.    *)
ValuationsAgree ==
  /\ Snapshot(db) = ClosingOf1200(db, Today)
  /\ AsOf(db, Today) = ClosingOf1200(db, Today)
  /\ \A i \in Goods, day \in Days :
       Existed(db, i, day) => WalkedBack(db, i, day) = UpTo(db, i, day)

(* An approved request means what its author saw.  However much stock moved *)
(* between filing and approval, if nothing else happens during the approval *)
(* the shelf moves by the difference that was asked for, and a count is     *)
(* posted only on the very stock that was counted.                          *)
ApprovalKeepsMeaning ==
  [][apart' =>
       \A f \in Filings :
         (db.filed[f].status = "filed" /\ db'.filed[f].status = "posted") =>
           LET q == db.filed[f]
           IN /\ db'.item[q.item].qty - db.item[q.item].qty = q.to - q.saw
              /\ q.count => db.item[q.item].qty = q.saw]_stockVars
=============================================================================
