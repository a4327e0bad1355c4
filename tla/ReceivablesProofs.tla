------------------------- MODULE ReceivablesProofs -------------------------
(***************************************************************************)
(* Theorems about Receivables and ReceivablesReports, for any number of    *)
(* invoices, receipts, memos and requests, any amounts, whatever overlaps. *)
(***************************************************************************)
EXTENDS ReceivablesReports, FiniteSumTheorems

-----------------------------------------------------------------------------
(* Types *)

(* A row's own arithmetic; what is paid is paid on an open invoice.         *)
InvFields == [status : InvoiceStatus, total : Nat, paid : Nat, balance : Int, posted : BOOLEAN]
InvRow == {row \in InvFields : /\ row.balance = row.total - row.paid
                               /\ row.paid > 0 => row.status \in OpenStatus}
RctFields == [status : {"none", "kept", "gone"}, amount : Nat, held : BOOLEAN]
RctRow == {row \in RctFields : row.held => row.status = "kept"}
MemoFields == [status : MemoStatus, total : Nat, applied : Int, balance : Int, of : SUBSET Invoices]
MemoRow == {row \in MemoFields : row.balance > 0 => row.status \in {"open", "applied"}}
Shares == [Invoices -> [at : Nat, later : Nat]]
BookRow == [made : Int, undone : Int]
Alloc == [Invoices -> Nat]
Db == [inv : [Invoices -> InvRow], rct : [Receipts -> RctRow], app : [Receipts -> Shares],
       memo : [Memos -> MemoRow], sale : [Invoices -> PaidStatus], refund : [Memos -> Int],
       book : [Documents -> BookRow], owed : Int, ar : Int, advances : Int, cash : Int]

CreateCall == [op : {"create"}, i : Invoices, t : Amounts, posts : BOOLEAN, owed : Int]
UpdateCall == [op : {"update"}, i : Invoices, t : Amounts, seen : {x \in InvRow : MayUpdate(x)}]
SendCall == [op : {"send"}, i : Invoices, seen : {x \in InvRow : MaySend(x)}]
EndCall == [op : {"void", "delete"}, i : Invoices, seen : {x \in InvRow : x.paid = 0}]
ReceiveCall == [op : {"receive"}, p : Receipts, amount : Amounts, al : Alloc, held : BOOLEAN,
                owed : Int]
ApplyCall == [op : {"apply"}, p : Receipts, al : Alloc, owed : Int]
DeleteCall == [op : {"deleteReceipt"}, p : Receipts, amount : Nat, app : Shares, owed : Int]
SettleCall == [op : {"settle"}, p : Receipts, m : Memos, q : Receipts, i : Invoices,
               a : Amounts, b : Amounts, cash : Amounts \cup {0}, owed : Int]
SaleCall == [op : {"approveSale"}, i : Invoices, t : Amounts, A : SUBSET Receipts, q : Receipts,
             cash : Amounts \cup {0}, owed : Int]
MemoCall == [op : {"memo"}, m : Memos, t : Amounts, S : SUBSET Invoices, refund : BOOLEAN,
             owed : Int]
AbsorbCall == [op : {"absorb"}, m : Memos, left : Int, S : SUBSET Invoices, refund : BOOLEAN]
CreditCall == [op : {"credit"}, m : Memos, i : Invoices, a : Int, refund : BOOLEAN]
RefundCall == [op : {"refund"}, m : Memos, seen : MemoRow]
VoidCall == [op : {"voidMemo"}, m : Memos, seen : MemoRow, remove : BOOLEAN]
RemoveCall == [op : {"removeMemo"}, m : Memos]
Calls ==
  UNION {{Done}, CreateCall, UpdateCall, SendCall, EndCall, ReceiveCall, ApplyCall, DeleteCall,
         SettleCall, SaleCall, MemoCall, AbsorbCall, CreditCall, RefundCall, VoidCall, RemoveCall}

Typed ==
  /\ db \in Db
  /\ req \in [Requests -> Calls]
  /\ spent \in [Memos -> Nat]
  /\ writes \in Nat
  /\ apart \in BOOLEAN

(* A receipt is never applied beyond its amount, and one that is held is    *)
(* whole; so is one about to be received for a delivery.                    *)
SpentWithin(d) == \A p \in Receipts : d.rct[p].status = "kept" => Used(d, p) <= d.rct[p].amount
HeldWhole(d) == \A p \in Receipts : d.rct[p].held => Used(d, p) = 0
ReceiptsSound ==
  /\ SpentWithin(db) /\ HeldWhole(db)
  /\ \A r \in Requests : req[r].op = "receive" /\ req[r].held => req[r].al = Nothing

(* What a credit memo has paid.  While it can still be used or ended by a   *)
(* new request, its row counts exactly that.  A request that will write     *)
(* back a row it read earlier writes a total that is still the memo's: T    *)
(* never changes, whatever becomes of the row.                              *)
Ending(c, m) ==
  /\ c.op \in {"refund", "voidMemo"} /\ c.m = m
  /\ c.op = "refund" => c.seen.balance > 0
Counted(row, paid) ==
  row.status \in {"open", "applied", "closed"} =>
    row.applied = paid /\ row.balance = row.total - row.applied
Unused(m) ==
  db.memo[m].status = "none" =>
    spent[m] = 0 /\ \A r \in Requests : ~Ending(req[r], m)
WorthAtMost(m, T) ==
  /\ spent[m] <= T
  /\ db.memo[m].status \notin {"none", "gone"} => db.memo[m].total = T
  /\ \A r \in Requests : Ending(req[r], m) => req[r].seen.total = T
MemosSound ==
  \A m \in Memos : /\ Counted(db.memo[m], spent[m])
                   /\ Unused(m)
                   /\ \E T \in Nat : WorthAtMost(m, T)

LEMMA DbFields ==
  ASSUME NEW d \in Db
  PROVE  /\ d.inv \in [Invoices -> InvRow] /\ d.rct \in [Receipts -> RctRow]
         /\ d.app \in [Receipts -> Shares] /\ d.memo \in [Memos -> MemoRow]
         /\ d.sale \in [Invoices -> PaidStatus] /\ d.refund \in [Memos -> Int]
         /\ d.book \in [Documents -> BookRow]
         /\ d.owed \in Int /\ d.ar \in Int /\ d.advances \in Int /\ d.cash \in Int
  BY DEF Db

LEMMA InvRowFields ==
  ASSUME NEW row \in InvRow
  PROVE  /\ row.status \in InvoiceStatus /\ row.total \in Nat /\ row.paid \in Nat
         /\ row.balance \in Int /\ row.posted \in BOOLEAN /\ row.balance = row.total - row.paid
         /\ row.paid > 0 => row.status \in OpenStatus
  BY DEF InvRow, InvFields

LEMMA InvRowMade ==
  ASSUME NEW s \in InvoiceStatus, NEW t \in Nat, NEW p \in Nat, NEW b \in BOOLEAN,
         NEW bal \in Int, bal = t - p, p > 0 => s \in OpenStatus
  PROVE  LET row == [status |-> s, total |-> t, paid |-> p, balance |-> bal, posted |-> b]
         IN row \in InvRow
  BY DEF InvRow, InvFields

(* The shape of a call by what it asks for.                                 *)
LEMMA CallShapes ==
  ASSUME NEW c \in Calls
  PROVE  /\ c.op = "idle" <=> c = Done
         /\ c.op = "create" => c \in CreateCall
         /\ c.op = "update" => c \in UpdateCall
         /\ c.op = "send" => c \in SendCall
         /\ c.op \in {"void", "delete"} => c \in EndCall
         /\ c.op = "receive" => c \in ReceiveCall
         /\ c.op = "apply" => c \in ApplyCall
         /\ c.op = "deleteReceipt" => c \in DeleteCall
         /\ c.op = "settle" => c \in SettleCall
         /\ c.op = "approveSale" => c \in SaleCall
         /\ c.op = "memo" => c \in MemoCall
         /\ c.op = "absorb" => c \in AbsorbCall
         /\ c.op = "credit" => c \in CreditCall
         /\ c.op = "refund" => c \in RefundCall
         /\ c.op = "voidMemo" => c \in VoidCall
         /\ c.op = "removeMemo" => c \in RemoveCall
<1>1. CASE c \in {Done} \cup RemoveCall
  BY <1>1 DEF Done, RemoveCall
<1>2. CASE c \in CreateCall
  BY <1>2 DEF Done, CreateCall
<1>3. CASE c \in UpdateCall
  BY <1>3 DEF Done, UpdateCall
<1>4. CASE c \in SendCall
  BY <1>4 DEF Done, SendCall
<1>5. CASE c \in EndCall
  BY <1>5 DEF Done, EndCall
<1>6. CASE c \in ReceiveCall
  BY <1>6 DEF Done, ReceiveCall
<1>7. CASE c \in ApplyCall
  BY <1>7 DEF Done, ApplyCall
<1>8. CASE c \in DeleteCall
  BY <1>8 DEF Done, DeleteCall
<1>9. CASE c \in SettleCall
  BY <1>9 DEF Done, SettleCall
<1>10. CASE c \in SaleCall
  BY <1>10 DEF Done, SaleCall
<1>11. CASE c \in MemoCall
  BY <1>11 DEF Done, MemoCall
<1>12. CASE c \in AbsorbCall
  BY <1>12 DEF Done, AbsorbCall
<1>13. CASE c \in CreditCall
  BY <1>13 DEF Done, CreditCall
<1>14. CASE c \in RefundCall
  BY <1>14 DEF Done, RefundCall
<1>15. CASE c \in VoidCall
  BY <1>15 DEF Done, VoidCall
<1> QED BY <1>1, <1>2, <1>3, <1>4, <1>5, <1>6, <1>7, <1>8, <1>9, <1>10, <1>11, <1>12, <1>13,
           <1>14, <1>15 DEF Calls
-----------------------------------------------------------------------------
(* The pieces of transactions keep the rows well formed, and leave alone    *)
(* what they do not name.                                                   *)

LEMMA InvRowPaid ==
  ASSUME NEW row \in InvRow, NEW s \in InvoiceStatus, s \in OpenStatus, NEW p \in Nat
  PROVE  [row EXCEPT !.paid = p, !.balance = row.total - p, !.status = s] \in InvRow
<1> DEFINE b == row.total - p
           e == [row EXCEPT !.paid = p, !.balance = b, !.status = s]
<1>1. b \in Int /\ row \in InvFields
  BY InvRowFields DEF InvRow
<1>2. b = row.total - p
  OBVIOUS
<1> HIDE DEF b
<1>3. e \in InvFields /\ e.balance = b /\ e.total = row.total /\ e.paid = p /\ e.status = s
  BY <1>1 DEF InvFields
<1> QED BY <1>2, <1>3 DEF InvRow

LEMMA InvRowTotal ==
  ASSUME NEW row \in InvRow, row.paid = 0, NEW t \in Nat
  PROVE  /\ [row EXCEPT !.total = t, !.balance = t] \in InvRow
         /\ [row EXCEPT !.status = "draft", !.total = t, !.balance = t] \in InvRow
<1> DEFINE e == [row EXCEPT !.total = t, !.balance = t]
           f == [row EXCEPT !.status = "draft", !.total = t, !.balance = t]
<1>1. row \in InvFields /\ t \in Int
  BY DEF InvRow
<1>2. e \in InvFields /\ f \in InvFields
  BY <1>1 DEF InvFields, InvoiceStatus
<1>3. e.balance = t /\ e.total = t /\ e.paid = 0 /\ f.balance = t /\ f.total = t /\ f.paid = 0
  BY <1>1 DEF InvFields
<1> HIDE DEF e, f
<1>4. /\ e.balance = e.total - e.paid /\ ~(e.paid > 0)
      /\ f.balance = f.total - f.paid /\ ~(f.paid > 0)
  BY <1>3
<1>5. e \in InvRow /\ f \in InvRow
  BY <1>2, <1>4 DEF InvRow
<1> QED BY <1>5 DEF e, f

LEMMA InvRowStatus ==
  ASSUME NEW row \in InvRow, row.paid = 0, NEW s \in InvoiceStatus
  PROVE  [row EXCEPT !.status = s] \in InvRow
<1> DEFINE e == [row EXCEPT !.status = s]
<1>1. row \in InvFields /\ row.balance = row.total - row.paid
  BY DEF InvRow
<1>2. e \in InvFields
  BY <1>1 DEF InvFields
<1>3. e.balance = row.balance /\ e.total = row.total /\ e.paid = row.paid
  BY <1>1 DEF InvFields
<1> HIDE DEF e
<1>4. e.balance = e.total - e.paid /\ ~(e.paid > 0)
  BY <1>1, <1>3
<1>5. e \in InvRow
  BY <1>2, <1>4 DEF InvRow
<1> QED BY <1>5 DEF e

LEMMA NoInvoiceRow == NoInvoice \in InvRow /\ NoInvoice.paid = 0
  BY DEF NoInvoice, InvRow, InvFields, InvoiceStatus

LEMMA PaidByRow ==
  ASSUME NEW row \in InvRow, NEW a \in Nat
  PROVE  PaidBy(row, a) \in InvRow
<1> DEFINE paid == row.paid + a
           s == IF paid >= row.total THEN "paid" ELSE "partial"
<1>1. /\ s \in InvoiceStatus /\ s \in OpenStatus /\ paid \in Nat
      /\ row.total \in Nat /\ row.posted \in BOOLEAN
  BY InvRowFields DEF InvoiceStatus, OpenStatus
<1>2. PaidBy(row, a) = [row EXCEPT !.paid = paid, !.balance = row.total - paid, !.status = s]
  BY DEF PaidBy
<1> HIDE DEF paid, s
<1>3. [row EXCEPT !.paid = paid, !.balance = row.total - paid, !.status = s] \in InvRow
  BY <1>1, InvRowPaid
<1> QED BY <1>2, <1>3

LEMMA ReopenedRow ==
  ASSUME NEW row \in InvRow, NEW a \in Nat
  PROVE  Reopened(row, a) \in InvRow
<1> DEFINE paid == Above0(row.paid - a)
           s == IF paid >= row.total THEN "paid" ELSE IF paid > 0 THEN "partial" ELSE "sent"
<1>1. /\ s \in InvoiceStatus /\ s \in OpenStatus /\ paid \in Nat
      /\ row.total \in Nat /\ row.posted \in BOOLEAN
  BY InvRowFields DEF InvoiceStatus, OpenStatus, Above0
<1>2. Reopened(row, a) = [row EXCEPT !.paid = paid, !.balance = row.total - paid, !.status = s]
  BY DEF Reopened
<1> HIDE DEF paid, s
<1>3. [row EXCEPT !.paid = paid, !.balance = row.total - paid, !.status = s] \in InvRow
  BY <1>1, InvRowPaid
<1> QED BY <1>2, <1>3

SameBut(d, e) ==
  /\ e.rct = d.rct /\ e.app = d.app /\ e.memo = d.memo /\ e.refund = d.refund
  /\ e.book = d.book /\ e.owed = d.owed /\ e.ar = d.ar
  /\ e.advances = d.advances /\ e.cash = d.cash

LEMMA RefreshedDb ==
  ASSUME NEW d \in Db, NEW S
  PROVE  Refreshed(d, S) \in Db /\ SameBut(d, Refreshed(d, S))
<1> DEFINE f == [i \in Invoices |-> IF i \in S /\ d.sale[i] # "none"
                                      THEN PaidStatusOf(d.inv[i]) ELSE d.sale[i]]
<1>1. f \in [Invoices -> PaidStatus]
  BY DEF Db, PaidStatus, PaidStatusOf
<1>2. Refreshed(d, S) = [d EXCEPT !.sale = f]
  BY DEF Refreshed
<1> HIDE DEF f
<1> QED BY <1>1, <1>2 DEF Db, SameBut

LEMMA PaidAllDb ==
  ASSUME NEW d \in Db, NEW al \in Alloc
  PROVE  PaidAll(d, al) \in Db /\ SameBut(d, PaidAll(d, al))
<1> DEFINE f == [i \in Invoices |-> IF al[i] > 0 THEN PaidBy(d.inv[i], al[i]) ELSE d.inv[i]]
           e == [d EXCEPT !.inv = f]
           S == {i \in Invoices : al[i] > 0}
<1>1. f \in [Invoices -> InvRow]
  BY PaidByRow, DbFields DEF Alloc
<1>2. PaidAll(d, al) = Refreshed(e, S)
  BY DEF PaidAll
<1> HIDE DEF f, S
<1>3. e \in Db /\ SameBut(d, e)
  BY <1>1 DEF Db, SameBut
<1> HIDE DEF e
<1> QED BY <1>2, <1>3, RefreshedDb DEF SameBut

LEMMA AllocatedNat ==
  ASSUME NEW al \in Alloc
  PROVE  Allocated(al) \in Nat
  BY SumNat, ReceivablesAssumption DEF Alloc, Allocated

LEMMA RaisedDb ==
  ASSUME NEW d \in Db, NEW i \in Invoices, NEW t \in Nat, NEW owed \in Int
  PROVE  LET e == Raised(d, i, t, owed)
         IN e \in Db /\ e.rct = d.rct /\ e.app = d.app /\ e.memo = d.memo
<1> DEFINE row == [status |-> "sent", total |-> t, paid |-> 0, balance |-> t, posted |-> TRUE]
           f == [d.inv EXCEPT ![i] = row]
           g == [d.book EXCEPT ![i].made = t]
           o == owed + t
           a == d.ar + t
<1>1. row \in InvRow
  BY DEF InvRow, InvFields, InvoiceStatus
<1>2. /\ d.inv \in [Invoices -> InvRow] /\ d.book \in [Documents -> BookRow] /\ d.ar \in Int
      /\ i \in Documents
  BY DbFields DEF Documents
<1>3. /\ f \in [Invoices -> InvRow] /\ g \in [Documents -> BookRow]
      /\ o \in Int /\ a \in Int
  BY <1>1, <1>2 DEF BookRow
<1>4. Raised(d, i, t, owed) = [d EXCEPT !.inv = f, !.book = g, !.owed = o, !.ar = a]
  BY DEF Raised
<1> HIDE DEF f, g, o, a
<1> QED BY <1>3, <1>4 DEF Db

(* The rows receiving writes. *)
ReceivedRow(amount, held) == [status |-> "kept", amount |-> amount, held |-> held]
ReceivedShare(al) == [i \in Invoices |-> [at |-> al[i], later |-> 0]]

LEMMA ReceivedDb ==
  ASSUME NEW d \in Db, NEW p \in Receipts, NEW amount \in Nat, NEW al \in Alloc,
         NEW held \in BOOLEAN, NEW owed \in Int
  PROVE  LET e == Received(d, p, amount, al, held, owed)
             row == ReceivedRow(amount, held)
             share == ReceivedShare(al)
         IN /\ e \in Db /\ e.memo = d.memo
            /\ e.rct = [d.rct EXCEPT ![p] = row]
            /\ e.app = [d.app EXCEPT ![p] = share]
<1> DEFINE c == PaidAll(d, al)
           row == ReceivedRow(amount, held)
           share == ReceivedShare(al)
           x == [c.rct EXCEPT ![p] = row]
           y == [c.app EXCEPT ![p] = share]
           z == [c.book EXCEPT ![p].made = -amount]
           o == owed - Allocated(al)
           a == c.ar - Allocated(al)
           v == c.advances + (amount - Allocated(al))
           w == c.cash + amount
<1>1. c \in Db /\ SameBut(d, c)
  BY PaidAllDb
<1>2. Allocated(al) \in Nat
  BY AllocatedNat
<1>3. row \in RctRow
  BY DEF RctRow, RctFields, ReceivedRow
<1>4. share \in Shares
  BY DEF Shares, Alloc, ReceivedShare
<1>5. /\ c.rct \in [Receipts -> RctRow] /\ c.app \in [Receipts -> Shares]
      /\ c.book \in [Documents -> BookRow] /\ c.ar \in Int /\ c.advances \in Int
      /\ c.cash \in Int /\ p \in Documents
  BY <1>1, DbFields DEF Documents
<1>6. Received(d, p, amount, al, held, owed) =
        [c EXCEPT !.rct = x, !.app = y, !.book = z, !.owed = o, !.ar = a, !.advances = v,
                  !.cash = w]
  BY DEF Received, ReceivedRow, ReceivedShare
<1> HIDE DEF c, row, share
<1>7. x \in [Receipts -> RctRow] /\ y \in [Receipts -> Shares]
  BY <1>3, <1>4, <1>5
<1>8. z \in [Documents -> BookRow]
  BY <1>5 DEF BookRow
<1>9. o \in Int /\ a \in Int /\ v \in Int /\ w \in Int
  BY <1>2, <1>5
<1>10. x = [d.rct EXCEPT ![p] = row] /\ y = [d.app EXCEPT ![p] = share] /\ c.memo = d.memo
  BY <1>1 DEF SameBut
<1> HIDE DEF x, y, z, o, a, v, w
<1> DEFINE e == Received(d, p, amount, al, held, owed)
<1>11. e = [c EXCEPT !.rct = x, !.app = y, !.book = z, !.owed = o, !.ar = a,
                     !.advances = v, !.cash = w]
  BY <1>6
<1> HIDE DEF e
<1>12. e.memo = c.memo /\ e.rct = x /\ e.app = y
  BY <1>1, <1>11 DEF Db
<1>13. e \in Db
  BY <1>1, <1>7, <1>8, <1>9, <1>11 DEF Db
<1> QED BY <1>10, <1>12, <1>13 DEF e, row, share
WithLater(share, al) == [i \in Invoices |-> [share[i] EXCEPT !.later = @ + al[i]]]

LEMMA AppliedDb ==
  ASSUME NEW d \in Db, NEW p \in Receipts, NEW al \in Alloc, NEW owed \in Int
  PROVE  LET e == Applied(d, p, al, owed)
             share == WithLater(d.app[p], al)
         IN e \in Db /\ e.memo = d.memo /\ e.rct = d.rct /\ e.owed = owed - Allocated(al)
            /\ share \in Shares /\ e.app = [d.app EXCEPT ![p] = share]
<1> DEFINE c == PaidAll(d, al)
           share == WithLater(d.app[p], al)
           y == [c.app EXCEPT ![p] = share]
           o == owed - Allocated(al)
           a == c.ar - Allocated(al)
           v == c.advances - Allocated(al)
<1>1. c \in Db /\ SameBut(d, c)
  BY PaidAllDb
<1>2. Allocated(al) \in Nat
  BY AllocatedNat
<1>3. /\ c.app \in [Receipts -> Shares] /\ c.ar \in Int /\ c.advances \in Int
  BY <1>1, DbFields
<1>4. d.app[p] \in Shares
  BY DbFields
<1>5. share \in Shares
  BY <1>4 DEF Shares, Alloc, WithLater
<1>6. Applied(d, p, al, owed) = [c EXCEPT !.app = y, !.owed = o, !.ar = a, !.advances = v]
  BY DEF Applied, WithLater
<1> HIDE DEF c
<1>7. y = [d.app EXCEPT ![p] = share]
  BY <1>1 DEF SameBut
<1> HIDE DEF share, y
<1>8. y \in [Receipts -> Shares]
  BY <1>5, <1>7, DbFields
<1>9. o \in Int /\ a \in Int /\ v \in Int
  BY <1>2, <1>3
<1>10. o = owed - Allocated(al)
  OBVIOUS
<1> HIDE DEF o, a, v
<1>11. LET e == Applied(d, p, al, owed)
       IN e \in Db /\ e.memo = c.memo /\ e.rct = c.rct /\ e.app = y /\ e.owed = o
  BY <1>1, <1>6, <1>8, <1>9 DEF Db
<1>12. LET e == Applied(d, p, al, owed)
       IN /\ e \in Db /\ e.memo = d.memo /\ e.rct = d.rct
          /\ e.app = [d.app EXCEPT ![p] = share] /\ e.owed = owed - Allocated(al)
  BY <1>1, <1>7, <1>10, <1>11 DEF SameBut
<1> QED BY <1>5, <1>12 DEF share

WithCredit(row, a) ==
  LET left == row.total - (row.applied + a)
  IN [row EXCEPT !.applied = row.applied + a, !.balance = left,
                 !.status = IF left <= 0 THEN "closed" ELSE "applied"]

LEMMA CreditedDb ==
  ASSUME NEW d \in Db, NEW m \in Memos, NEW i \in Invoices, NEW a \in Nat
  PROVE  LET e == Credited(d, m, i, a)
         IN /\ e \in Db /\ e.rct = d.rct /\ e.app = d.app /\ e.owed = d.owed
            /\ e.memo = [d.memo EXCEPT ![m] = WithCredit(d.memo[m], a)]
<1> DEFINE row == d.memo[m]
           now == row.applied + a
           left == row.total - now
           s == IF left <= 0 THEN "closed" ELSE "applied"
           after == [row EXCEPT !.applied = now, !.balance = left, !.status = s]
           f == [d.inv EXCEPT ![i] = PaidBy(@, a)]
           g == [d.memo EXCEPT ![m] = after]
<1>1. row \in MemoRow /\ row \in MemoFields
  BY DbFields DEF MemoRow
<1>2. now \in Int /\ left \in Int /\ s \in MemoStatus /\ (left > 0 => s = "applied")
  BY <1>1 DEF MemoFields, MemoStatus
<1>3. f \in [Invoices -> InvRow]
  BY DbFields, PaidByRow
<1>4. Credited(d, m, i, a) = [d EXCEPT !.inv = f, !.memo = g]
  <2>1. d.memo \in [Memos -> MemoRow] /\ row \in MemoFields
    BY <1>1, DbFields
  <2> DEFINE x == [d EXCEPT !.inv = f]
             h == [row EXCEPT !.applied = @ + a]
  <2>2. Credited(d, m, i, a) =
          [x EXCEPT !.memo[m].applied = @ + a, !.memo[m].balance = left, !.memo[m].status = s]
    BY DEF Credited
  <2>3. x.memo = d.memo
    BY DEF Db
  <2> HIDE DEF f, x, left, s
  <2>4. [x EXCEPT !.memo[m].applied = @ + a, !.memo[m].balance = left, !.memo[m].status = s]
          = [x EXCEPT !.memo = g]
    BY <2>1, <2>3
  <2> QED BY <2>2, <2>4 DEF x
<1> HIDE DEF now, left, s, f
<1>5. after \in MemoFields /\ after.balance = left /\ after.status = s
  BY <1>1, <1>2 DEF MemoFields
<1>6. after \in MemoRow
  BY <1>2, <1>5 DEF MemoRow
<1> HIDE DEF after
<1>7. g \in [Memos -> MemoRow]
  BY <1>6, DbFields
<1> HIDE DEF g
<1>8. LET e == Credited(d, m, i, a)
      IN e \in Db /\ e.rct = d.rct /\ e.app = d.app /\ e.owed = d.owed /\ e.memo = g
  BY <1>3, <1>4, <1>7 DEF Db
<1> QED BY <1>8 DEF g, after, now, left, s, WithCredit

LEMMA ReversedDb ==
  ASSUME NEW d \in Db, NEW i \in Invoices, NEW row \in InvRow
  PROVE  LET e == Reversed(d, i, row)
         IN e \in Db /\ e.rct = d.rct /\ e.app = d.app /\ e.memo = d.memo
<1> DEFINE g == [d.book EXCEPT ![i].undone = @ - row.total]
           o == d.owed - row.total
           a == d.ar - row.total
<1>1. g \in [Documents -> BookRow] /\ o \in Int /\ a \in Int
  BY DbFields, InvRowFields DEF BookRow, Documents
<1>2. Reversed(d, i, row) = [d EXCEPT !.book = g, !.owed = o, !.ar = a]
  BY DEF Reversed
<1> HIDE DEF g, o, a
<1> QED BY <1>1, <1>2 DEF Db

LEMMA InvoiceSaved ==
  ASSUME NEW d \in Db, NEW i \in Invoices, NEW row \in InvRow
  PROVE  LET e == [d EXCEPT !.inv[i] = row]
         IN e \in Db /\ e.rct = d.rct /\ e.app = d.app /\ e.memo = d.memo
<1> DEFINE f == [d.inv EXCEPT ![i] = row]
<1>1. f \in [Invoices -> InvRow]
  BY DbFields
<1>2. [d EXCEPT !.inv[i] = row] = [d EXCEPT !.inv = f]
  OBVIOUS
<1> HIDE DEF f
<1> QED BY <1>1, <1>2 DEF Db

-----------------------------------------------------------------------------
(* What a receipt has settled.                                              *)

Taken(share) == [i \in Invoices |-> share[i].at + share[i].later]

LEMMA UsedIs ==
  ASSUME NEW d, NEW p
  PROVE  Used(d, p) = Sum(Taken(d.app[p]), Invoices)
  BY DEF Used, Taken

LEMMA UsedNat ==
  ASSUME NEW d \in Db, NEW p \in Receipts
  PROVE  Used(d, p) \in Nat
<1>1. d.app[p] \in Shares
  BY DbFields
<1>2. \A i \in Invoices : Taken(d.app[p])[i] \in Nat
  BY <1>1 DEF Taken, Shares
<1> QED BY <1>2, UsedIs, SumNat, ReceivablesAssumption

LEMMA UnusedReceipt ==
  ASSUME NEW d, NEW p, d.app[p] = NotApplied
  PROVE  Used(d, p) = 0
<1>1. \A i \in Invoices : Taken(d.app[p])[i] = 0
  BY DEF Taken, NotApplied
<1> QED BY <1>1, UsedIs, SumZero, ReceivablesAssumption

LEMMA ReceivedUsed ==
  ASSUME NEW al \in Alloc
  PROVE  Sum(Taken(ReceivedShare(al)), Invoices) = Allocated(al)
<1> DEFINE f == Taken(ReceivedShare(al))
<1>1. \A i \in Invoices : f[i] = al[i]
  BY DEF Taken, Alloc, ReceivedShare
<1> HIDE DEF f
<1>2. Sum(f, Invoices) = Sum(al, Invoices)
  BY <1>1, SumSame, ReceivablesAssumption
<1> QED BY <1>2 DEF f, Allocated

LEMMA AppliedUsed ==
  ASSUME NEW share \in Shares, NEW al \in Alloc
  PROVE  Sum(Taken(WithLater(share, al)), Invoices) =
           Sum(Taken(share), Invoices) + Allocated(al)
<1> DEFINE f == Taken(share)
           h == Taken(WithLater(share, al))
<1>1. \A i \in Invoices : f[i] \in Int /\ al[i] \in Int /\ h[i] = f[i] + al[i]
  BY DEF Taken, Shares, Alloc, WithLater
<1> HIDE DEF f, h
<1>2. Sum(h, Invoices) = Sum(f, Invoices) + Sum(al, Invoices)
  BY <1>1, SumPlus, ReceivablesAssumption
<1> QED BY <1>2 DEF f, h, Allocated

LEMMA AllocatedAlone ==
  ASSUME NEW i \in Invoices, NEW a \in Nat
  PROVE  Alone(i, a) \in Alloc /\ Allocated(Alone(i, a)) = a
<1> DEFINE f == Alone(i, a)
<1>1. f \in Alloc /\ f[i] = a /\ \A j \in Invoices \ {i} : f[j] = 0
  BY DEF Alone, Alloc
<1> HIDE DEF f
<1>2. IsFiniteSet(Invoices) /\ IsFiniteSet(Invoices \ {i}) /\ \A j \in Invoices : f[j] \in Int
  BY <1>1, ReceivablesAssumption, FS_RemoveElement DEF Alloc
<1>3. Sum(f, Invoices) = f[i] + Sum(f, Invoices \ {i})
  BY <1>2, SumTakeOut
<1>4. Sum(f, Invoices \ {i}) = 0
  BY <1>1, <1>2, SumZero
<1> QED BY <1>1, <1>3, <1>4 DEF f, Allocated

LEMMA AllocatedNothing ==
  Nothing \in Alloc /\ Allocated(Nothing) = 0
<1>1. \A i \in Invoices : Nothing[i] = 0
  BY DEF Nothing
<1>2. Nothing \in Alloc
  BY DEF Nothing, Alloc
<1> QED BY <1>1, <1>2, SumZero, ReceivablesAssumption DEF Allocated
-----------------------------------------------------------------------------
(* The sweep of new money over what is outstanding hands out no more than   *)
(* it brings: up to any invoice it has given the smaller of the money and   *)
(* what the invoices up to there leave unpaid.                              *)

LEMMA Latest ==
  ASSUME NEW T, T \subseteq Nat, IsFiniteSet(T), T # {}
  PROVE  \E m \in T : \A j \in T : j <= m
<1> DEFINE from(x) == {j \in T : j >= x}
           C == {from(x) : x \in T}
<1>1. C \in SUBSET (SUBSET T) /\ C # {}
  OBVIOUS
<1>2. \A B \in C : \E x \in T : B = from(x)
  OBVIOUS
<1>3. \A x \in T : from(x) \in C
  OBVIOUS
<1> HIDE DEF C
<1>4. PICK A \in C : \A B \in C : B \subseteq A => B = A
  <2>1. C \in SUBSET (SUBSET T) /\ C # {} /\ IsFiniteSet(T)
    BY <1>1
  <2> HIDE DEF from
  <2> QED BY ONLY <2>1, MinimalSet
<1>5. PICK m \in T : A = from(m)
  BY <1>2, <1>4
<1>6. ASSUME NEW j \in T, ~(j <= m)
      PROVE  FALSE
  <2>1. j \in Nat /\ m \in Nat /\ j > m
    BY <1>6
  <2>2. \A x \in T : x >= j => x >= m
    BY <2>1
  <2>3. m \in from(m) /\ m \notin from(j)
    BY <2>1
  <2>4. from(j) \subseteq from(m)
    BY <2>2
  <2> HIDE DEF from
  <2> QED BY <1>3, <1>4, <1>5, <2>3, <2>4
<1> QED BY <1>6

Owing(d) == [i \in Invoices |-> d.inv[i].balance]
UpTo(d, T) == T \subseteq Outstanding(d)
                /\ \A i \in T, j \in Outstanding(d) : j < i => j \in T

LEMMA AutoApplyTerms ==
  ASSUME NEW d \in Db, NEW amount \in Nat
  PROVE  /\ AutoApply(d, amount) \in Alloc
         /\ \A i \in Invoices : Owing(d)[i] \in Int
         /\ \A i \in Outstanding(d) : Owing(d)[i] \in Nat \ {0}
         /\ \A i \in Invoices \ Outstanding(d) : AutoApply(d, amount)[i] = 0
         /\ \A i \in Outstanding(d) : AutoApply(d, amount)[i] =
              SmallerOf(Owing(d)[i], Above0(amount -
                Sum(Owing(d), {j \in Outstanding(d) : j < i})))
<1>1. \A i \in Invoices : d.inv[i].balance \in Int
  BY DbFields, InvRowFields
<1>2. Outstanding(d) \subseteq Invoices /\ \A i \in Outstanding(d) : d.inv[i].balance > 0
  BY DEF Outstanding, Collectable
<1>3. \A i \in Invoices : Owing(d)[i] = d.inv[i].balance
  BY DEF Owing
<1>4. \A i \in Outstanding(d) : AutoApply(d, amount)[i] =
        SmallerOf(Owing(d)[i], Above0(amount - Sum(Owing(d), {j \in Outstanding(d) : j < i})))
  BY <1>2, <1>3 DEF AutoApply, Owing
<1>5. \A i \in Invoices \ Outstanding(d) : AutoApply(d, amount)[i] = 0
  BY DEF AutoApply
<1>6. ASSUME NEW i \in Outstanding(d)
      PROVE  AutoApply(d, amount)[i] \in Nat
  <2> DEFINE S == {j \in Outstanding(d) : j < i}
             s == Sum(Owing(d), S)
  <2>1. IsFiniteSet(S) /\ S \subseteq Invoices
    BY <1>2, ReceivablesAssumption, FS_Subset
  <2>2. s \in Int
    BY <1>1, <1>3, <2>1, SumInt
  <2>3. AutoApply(d, amount)[i] = SmallerOf(Owing(d)[i], Above0(amount - s))
    BY <1>4
  <2>4. Owing(d)[i] \in Int /\ Owing(d)[i] > 0
    BY <1>1, <1>2, <1>3
  <2> HIDE DEF s, S
  <2> QED BY <2>2, <2>3, <2>4 DEF SmallerOf, Above0
<1>7. AutoApply(d, amount) \in Alloc
  <2>1. AutoApply(d, amount) = [i \in Invoices |-> AutoApply(d, amount)[i]]
    BY DEF AutoApply
  <2>2. \A i \in Invoices : AutoApply(d, amount)[i] \in Nat
    BY <1>5, <1>6
  <2> QED BY <2>1, <2>2 DEF Alloc
<1> QED BY <1>1, <1>2, <1>3, <1>4, <1>5, <1>7

LEMMA SweepSoFar ==
  ASSUME NEW d \in Db, NEW amount \in Nat, NEW T, UpTo(d, T)
  PROVE  Sum(AutoApply(d, amount), T) = SmallerOf(Sum(Owing(d), T), amount)
<1> DEFINE al == AutoApply(d, amount)
           bal == Owing(d)
           O == Outstanding(d)
           C == {U \in SUBSET O : UpTo(d, U) /\ Sum(al, U) # SmallerOf(Sum(bal, U), amount)}
<1>1. O \subseteq Invoices /\ O \subseteq Nat /\ IsFiniteSet(O)
  BY ReceivablesAssumption, FS_Subset DEF Outstanding, Collectable
<1>2. \A i \in O : al[i] \in Int /\ bal[i] \in Nat
  BY <1>1, AutoApplyTerms DEF Alloc
<1> SUFFICES ASSUME C # {} PROVE FALSE
  BY DEF UpTo
<1> HIDE DEF C
<1>3. PICK U \in C : \A V \in C : V \subseteq U => V = U
  <2>1. C \in SUBSET (SUBSET O)
    BY DEF C
  <2> QED BY <1>1, <2>1, MinimalSet
<1> USE DEF C
<1>4. U \subseteq O /\ UpTo(d, U) /\ IsFiniteSet(U) /\ U \subseteq Nat
  BY <1>1, <1>3, FS_Subset
<1>5. CASE U = {}
  <2>1. Sum(al, U) = 0 /\ Sum(bal, U) = 0
    BY <1>5, SumEmpty
  <2> QED BY <1>3, <2>1 DEF SmallerOf
<1>6. CASE U # {}
  <2>1. PICK m \in U : \A j \in U : j <= m
    BY <1>4, <1>6, Latest
  <2> DEFINE V == U \ {m}
             B == Sum(bal, V)
  <2>2. V = {j \in O : j < m}
    <3>1. ASSUME NEW j \in V
          PROVE  j \in O /\ j < m
      BY <1>1, <1>4, <2>1
    <3>2. ASSUME NEW j \in O, j < m
          PROVE  j \in V
      <4>1. j \in U
        BY <1>4, <2>1, <3>2 DEF UpTo
      <4>2. j \in Nat /\ m \in Nat
        BY <1>1, <1>4, <2>1
      <4> QED BY <3>2, <4>1, <4>2
    <3> QED BY <3>1, <3>2
  <2>3. UpTo(d, V) /\ V \in SUBSET O /\ V \subseteq U /\ V # U
    BY <1>1, <1>4, <2>1, <2>2 DEF UpTo
  <2>4. Sum(al, V) = SmallerOf(B, amount)
    BY <1>3, <2>3
  <2>5. \A i \in U : al[i] \in Int /\ bal[i] \in Int
    BY <1>2, <1>4
  <2>6. Sum(al, U) = al[m] + Sum(al, V) /\ Sum(bal, U) = bal[m] + B
    BY <1>4, <2>1, <2>5, SumTakeOut
  <2>7. al[m] = SmallerOf(bal[m], Above0(amount - B))
    BY <1>4, <2>1, <2>2, AutoApplyTerms
  <2>8. B \in Nat
    BY <1>2, <1>4, <2>3, FS_Subset, SumNat
  <2>9. bal[m] \in Nat
    BY <1>2, <1>4, <2>1
  <2> HIDE DEF V, B
  <2>10. Sum(al, U) = SmallerOf(Sum(bal, U), amount)
    BY <2>4, <2>6, <2>7, <2>8, <2>9 DEF SmallerOf, Above0
  <2> QED BY <1>3, <2>10
<1> QED BY <1>5, <1>6

LEMMA AutoApplyWithin ==
  ASSUME NEW d \in Db, NEW amount \in Nat
  PROVE  /\ AutoApply(d, amount) \in Alloc
         /\ Allocated(AutoApply(d, amount)) <= amount
<1> DEFINE al == AutoApply(d, amount)
           O == Outstanding(d)
<1>1. O \in SUBSET Invoices /\ IsFiniteSet(O) /\ O \subseteq Nat
  BY ReceivablesAssumption, FS_Subset DEF Outstanding, Collectable
<1>2. al \in Alloc /\ \A i \in Invoices : al[i] \in Int
  BY AutoApplyTerms DEF Alloc
<1>3. Sum(al, Invoices) = Sum(al, O)
  BY <1>1, <1>2, AutoApplyTerms, ReceivablesAssumption, SumWithin
<1>4. Sum(al, O) = SmallerOf(Sum(Owing(d), O), amount)
  BY SweepSoFar DEF UpTo
<1>5. Sum(Owing(d), O) \in Int
  BY <1>1, AutoApplyTerms, SumInt
<1> QED BY <1>2, <1>3, <1>4, <1>5 DEF SmallerOf, Allocated
-----------------------------------------------------------------------------
(* What is common to the steps that ask and to those that commit.           *)

LEMMA UsedSame ==
  ASSUME NEW d, NEW e, NEW p, e.app[p] = d.app[p]
  PROVE  Used(e, p) = Used(d, p)
  BY UsedIs

LEMMA SameReceipts ==
  ASSUME NEW d, NEW e, e.rct = d.rct, e.app = d.app, SpentWithin(d), HeldWhole(d)
  PROVE  SpentWithin(e) /\ HeldWhole(e)
<1>1. \A p : Used(e, p) = Used(d, p)
  BY UsedIs
<1> QED BY <1>1 DEF SpentWithin, HeldWhole

LEMMA AskKeeps ==
  ASSUME Typed, ReceiptsSound, NEW r \in Requests, NEW c \in Calls, Ask(r, c),
         c.op = "receive" /\ c.held => c.al = Nothing
  PROVE  Typed' /\ ReceiptsSound'
<1>1. db' = db /\ spent' = spent /\ writes' = writes /\ req' = [req EXCEPT ![r] = c]
  BY DEF Ask
<1>2. apart' \in BOOLEAN
  BY DEF Ask
<1>3. Typed'
  BY <1>1, <1>2 DEF Typed
<1>4. \A q \in Requests : req'[q] = IF q = r THEN c ELSE req[q]
  BY <1>1 DEF Typed
<1>5. SpentWithin(db') /\ HeldWhole(db')
  BY <1>1 DEF ReceiptsSound
<1>6. ASSUME NEW q \in Requests, req'[q].op = "receive", req'[q].held
      PROVE  req'[q].al = Nothing
  <2>1. CASE q = r
    BY <1>4, <1>6, <2>1
  <2>2. CASE q # r
    BY <1>4, <1>6, <2>2 DEF ReceiptsSound
  <2> QED BY <2>1, <2>2
<1> QED BY <1>3, <1>5, <1>6 DEF ReceiptsSound, SpentWithin, HeldWhole, Used

LEMMA ServeKeeps ==
  ASSUME Typed, ReceiptsSound, NEW r \in Requests, NEW d \in Db, SpentWithin(d), HeldWhole(d),
         NEW c \in Calls, c.op # "receive", db' = d, req' = [req EXCEPT ![r] = c],
         writes' \in Nat, apart' \in BOOLEAN, spent' \in [Memos -> Nat]
  PROVE  Typed' /\ ReceiptsSound'
<1>1. Typed'
  BY DEF Typed
<1>2. \A q \in Requests : req'[q] = IF q = r THEN c ELSE req[q]
  BY DEF Typed
<1>3. SpentWithin(db') /\ HeldWhole(db')
  OBVIOUS
<1>4. ASSUME NEW q \in Requests, req'[q].op = "receive", req'[q].held
      PROVE  req'[q].al = Nothing
  <2>1. q # r /\ req'[q] = req[q]
    BY <1>2, <1>4
  <2> QED BY <1>4, <2>1 DEF ReceiptsSound
<1> QED BY <1>1, <1>3, <1>4 DEF ReceiptsSound, SpentWithin, HeldWhole, Used

LEMMA CallsHave ==
  /\ Done \in Calls /\ CreateCall \subseteq Calls /\ UpdateCall \subseteq Calls
  /\ SendCall \subseteq Calls /\ EndCall \subseteq Calls /\ ReceiveCall \subseteq Calls
  /\ ApplyCall \subseteq Calls /\ DeleteCall \subseteq Calls /\ SettleCall \subseteq Calls
  /\ SaleCall \subseteq Calls /\ MemoCall \subseteq Calls /\ AbsorbCall \subseteq Calls
  /\ CreditCall \subseteq Calls /\ RefundCall \subseteq Calls /\ VoidCall \subseteq Calls
  /\ RemoveCall \subseteq Calls
  BY DEF Calls

(* A step of a request that neither touches a credit memo nor is about to   *)
(* end one.                                                                 *)
Quiet(r) ==
  /\ db'.memo = db.memo /\ spent' = spent
  /\ \E c \in Calls : c.op \notin {"refund", "voidMemo"} /\ req' = [req EXCEPT ![r] = c]

LEMMA SoundCommitKeeps ==
  ASSUME Typed, ReceiptsSound, NEW r \in Requests, NEW d \in Db, SpentWithin(d), HeldWhole(d),
         d.memo = db.memo, Commit(r, d)
  PROVE  Typed' /\ ReceiptsSound' /\ Quiet(r)
<1>1. Done \in Calls /\ Done.op \notin {"receive", "refund", "voidMemo"}
  BY CallsHave DEF Done
<1>2. /\ db' = d /\ req' = [req EXCEPT ![r] = Done] /\ writes' \in Nat /\ apart' \in BOOLEAN
      /\ spent' = spent /\ spent' \in [Memos -> Nat]
  BY DEF Commit, Then, Typed
<1>3. Quiet(r)
  BY <1>1, <1>2 DEF Quiet
<1>4. Typed' /\ ReceiptsSound'
  BY <1>1, <1>2, ServeKeeps
<1> QED BY <1>3, <1>4

(* The commit of a transaction that touches no receipt.                     *)
LEMMA CommitKeeps ==
  ASSUME Typed, ReceiptsSound, NEW r \in Requests, NEW d \in Db, d.rct = db.rct, d.app = db.app,
         d.memo = db.memo, Commit(r, d)
  PROVE  Typed' /\ ReceiptsSound' /\ Quiet(r)
<1>1. SpentWithin(d) /\ HeldWhole(d)
  BY SameReceipts DEF ReceiptsSound
<1> QED BY <1>1, SoundCommitKeeps

-----------------------------------------------------------------------------
(* The requests that are asked for. *)

LEMMA AskInvoices ==
  ASSUME Typed, ReceiptsSound, NEW r \in Requests, AskCreate(r) \/ AskInvoice(r)
  PROVE  Typed' /\ ReceiptsSound'
<1> USE CallsHave, AskKeeps
<1>1. db.owed \in Int /\ \A i \in Invoices : db.inv[i] \in InvRow
  BY DbFields DEF Typed
<1>2. CASE AskCreate(r)
  <2>1. PICK i \in Invoices, t \in Amounts, posts \in BOOLEAN :
          Ask(r, [op |-> "create", i |-> i, t |-> t, posts |-> posts, owed |-> db.owed])
    BY <1>2 DEF AskCreate
  <2> DEFINE c == [op |-> "create", i |-> i, t |-> t, posts |-> posts, owed |-> db.owed]
  <2>2. c \in CreateCall /\ c.op # "receive"
    BY <1>1 DEF CreateCall
  <2> QED BY <2>1, <2>2
<1>3. ASSUME NEW i \in Invoices, MayUpdate(db.inv[i]), NEW t \in Amounts,
             Ask(r, [op |-> "update", i |-> i, t |-> t, seen |-> db.inv[i]])
      PROVE  Typed' /\ ReceiptsSound'
  <2> DEFINE c == [op |-> "update", i |-> i, t |-> t, seen |-> db.inv[i]]
  <2>1. c \in UpdateCall /\ c.op # "receive"
    BY <1>1, <1>3 DEF UpdateCall
  <2> QED BY <1>3, <2>1
<1>4. ASSUME NEW i \in Invoices, MaySend(db.inv[i]),
             Ask(r, [op |-> "send", i |-> i, seen |-> db.inv[i]])
      PROVE  Typed' /\ ReceiptsSound'
  <2> DEFINE c == [op |-> "send", i |-> i, seen |-> db.inv[i]]
  <2>1. c \in SendCall /\ c.op # "receive"
    BY <1>1, <1>4 DEF SendCall
  <2> QED BY <1>4, <2>1
<1>5. ASSUME NEW i \in Invoices, db.inv[i].paid = 0, NEW what \in {"void", "delete"},
             Ask(r, [op |-> what, i |-> i, seen |-> db.inv[i]])
      PROVE  Typed' /\ ReceiptsSound'
  <2> DEFINE c == [op |-> what, i |-> i, seen |-> db.inv[i]]
  <2>1. c \in EndCall /\ c.op # "receive"
    BY <1>1, <1>5 DEF EndCall
  <2> QED BY <1>5, <2>1
<1>6. CASE AskInvoice(r)
  BY <1>3, <1>4, <1>5, <1>6 DEF AskInvoice, MayVoid, MayDelete
<1> QED BY <1>2, <1>6

LEMMA AskReceipts ==
  ASSUME Typed, ReceiptsSound, NEW r \in Requests,
         AskReceive(r) \/ AskApply(r) \/ AskDeleteReceipt(r)
  PROVE  Typed' /\ ReceiptsSound'
<1> USE CallsHave, AskKeeps
<1>1. /\ db \in Db /\ db.owed \in Int /\ \A p \in Receipts : db.rct[p] \in RctRow
      /\ \A p \in Receipts : db.app[p] \in Shares
      /\ Amounts \subseteq Nat /\ Kept(db) \subseteq Receipts /\ Collectable(db) \subseteq Invoices
  BY DbFields, ReceivablesAssumption DEF Typed, Kept, Collectable
<1>2. CASE AskReceive(r)
  <2>0. PICK p \in Receipts, amount \in Amounts :
          \E al \in Allocations(db, amount), held \in BOOLEAN :
            /\ held => al = Nothing
            /\ Ask(r, [op |-> "receive", p |-> p, amount |-> amount, al |-> al,
                       held |-> held, owed |-> db.owed])
    BY <1>2 DEF AskReceive
  <2>1. PICK al \in Allocations(db, amount), held \in BOOLEAN :
          /\ held => al = Nothing
          /\ Ask(r, [op |-> "receive", p |-> p, amount |-> amount, al |-> al,
                     held |-> held, owed |-> db.owed])
    BY <2>0
  <2> DEFINE c == [op |-> "receive", p |-> p, amount |-> amount, al |-> al,
                   held |-> held, owed |-> db.owed]
  <2>2. al \in Alloc
    BY <1>1, AllocatedNothing, AutoApplyWithin, AllocatedAlone DEF Allocations
  <2>3. c \in ReceiveCall
    BY <1>1, <2>2 DEF ReceiveCall
  <2>4. c.held => c.al = Nothing
    BY <2>1
  <2> QED BY <2>1, <2>3, <2>4
<1>3. CASE AskApply(r)
  <2>1. PICK p \in Kept(db), i \in Collectable(db), a \in Amounts :
          Ask(r, [op |-> "apply", p |-> p, al |-> Alone(i, a), owed |-> db.owed])
    BY <1>3 DEF AskApply
  <2> DEFINE c == [op |-> "apply", p |-> p, al |-> Alone(i, a), owed |-> db.owed]
  <2>2. Alone(i, a) \in Alloc
    BY <1>1, AllocatedAlone
  <2>3. c \in ApplyCall /\ c.op # "receive"
    BY <1>1, <2>2 DEF ApplyCall
  <2> QED BY <2>1, <2>3
<1>4. CASE AskDeleteReceipt(r)
  <2>1. PICK p \in Kept(db) :
          Ask(r, [op |-> "deleteReceipt", p |-> p, amount |-> db.rct[p].amount,
                  app |-> db.app[p], owed |-> db.owed])
    BY <1>4 DEF AskDeleteReceipt
  <2> DEFINE c == [op |-> "deleteReceipt", p |-> p, amount |-> db.rct[p].amount,
                   app |-> db.app[p], owed |-> db.owed]
  <2>2. p \in Receipts /\ db.rct[p].amount \in Nat
    BY <1>1 DEF RctRow, RctFields
  <2>3. c \in DeleteCall /\ c.op # "receive"
    BY <1>1, <2>2 DEF DeleteCall
  <2> QED BY <2>1, <2>3
<1> QED BY <1>2, <1>3, <1>4

LEMMA AskSales ==
  ASSUME Typed, ReceiptsSound, NEW r \in Requests, AskSettle(r) \/ AskApproveSale(r)
  PROVE  Typed' /\ ReceiptsSound'
<1> USE CallsHave, AskKeeps
<1>1. /\ db.owed \in Int /\ Kept(db) \subseteq Receipts /\ Collectable(db) \subseteq Invoices
      /\ LiveMemos(db) \subseteq Memos
  BY DbFields DEF Typed, Kept, Collectable, LiveMemos
<1>2. CASE AskSettle(r)
  <2>1. PICK p \in Kept(db), m \in LiveMemos(db), q \in Receipts, i \in Collectable(db),
             a \in Amounts, b \in Amounts, cash \in Amounts \cup {0} :
          Ask(r, [op |-> "settle", p |-> p, m |-> m, q |-> q, i |-> i,
                  a |-> a, b |-> b, cash |-> cash, owed |-> db.owed])
    BY <1>2 DEF AskSettle
  <2> DEFINE c == [op |-> "settle", p |-> p, m |-> m, q |-> q, i |-> i,
                   a |-> a, b |-> b, cash |-> cash, owed |-> db.owed]
  <2>2. c \in SettleCall /\ c.op # "receive"
    BY <1>1 DEF SettleCall
  <2> QED BY <2>1, <2>2
<1>3. CASE AskApproveSale(r)
  <2>1. PICK i \in Invoices, t \in Amounts, A \in SUBSET Kept(db), q \in Receipts,
             cash \in Amounts \cup {0} :
          Ask(r, [op |-> "approveSale", i |-> i, t |-> t, A |-> A, q |-> q,
                  cash |-> cash, owed |-> db.owed])
    BY <1>3 DEF AskApproveSale
  <2> DEFINE c == [op |-> "approveSale", i |-> i, t |-> t, A |-> A, q |-> q,
                   cash |-> cash, owed |-> db.owed]
  <2>2. c \in SaleCall /\ c.op # "receive"
    BY <1>1 DEF SaleCall
  <2> QED BY <2>1, <2>2
<1> QED BY <1>2, <1>3

LEMMA AskMemos ==
  ASSUME Typed, ReceiptsSound, NEW r \in Requests, AskMemo(r) \/ AskCredit(r) \/ AskMemoEnd(r)
  PROVE  Typed' /\ ReceiptsSound'
<1> USE CallsHave, AskKeeps
<1>1. /\ db.owed \in Int /\ Collectable(db) \subseteq Invoices /\ LiveMemos(db) \subseteq Memos
      /\ \A m \in Memos : db.memo[m] \in MemoRow
      /\ Amounts \subseteq Int
  BY DbFields, ReceivablesAssumption DEF Typed, Collectable, LiveMemos
<1>2. CASE AskMemo(r)
  <2>1. PICK m \in Memos, t \in Amounts, S \in SUBSET Collectable(db), refund \in BOOLEAN :
          Ask(r, [op |-> "memo", m |-> m, t |-> t, S |-> S, refund |-> refund, owed |-> db.owed])
    BY <1>2 DEF AskMemo
  <2> DEFINE c == [op |-> "memo", m |-> m, t |-> t, S |-> S, refund |-> refund, owed |-> db.owed]
  <2>2. c \in MemoCall /\ c.op # "receive"
    BY <1>1 DEF MemoCall
  <2> QED BY <2>1, <2>2
<1>3. CASE AskCredit(r)
  <2>1. PICK m \in LiveMemos(db), i \in Collectable(db), a \in Amounts :
          Ask(r, [op |-> "credit", m |-> m, i |-> i, a |-> a, refund |-> FALSE])
    BY <1>3 DEF AskCredit
  <2> DEFINE c == [op |-> "credit", m |-> m, i |-> i, a |-> a, refund |-> FALSE]
  <2>2. c \in CreditCall /\ c.op # "receive"
    BY <1>1 DEF CreditCall
  <2> QED BY <2>1, <2>2
<1>4. ASSUME NEW m \in Memos, Ask(r, [op |-> "refund", m |-> m, seen |-> db.memo[m]])
      PROVE  Typed' /\ ReceiptsSound'
  <2> DEFINE c == [op |-> "refund", m |-> m, seen |-> db.memo[m]]
  <2>1. c \in RefundCall /\ c.op # "receive"
    BY <1>1 DEF RefundCall
  <2> QED BY <1>4, <2>1
<1>5. ASSUME NEW m \in Memos, NEW remove \in BOOLEAN,
             Ask(r, [op |-> "voidMemo", m |-> m, seen |-> db.memo[m], remove |-> remove])
      PROVE  Typed' /\ ReceiptsSound'
  <2> DEFINE c == [op |-> "voidMemo", m |-> m, seen |-> db.memo[m], remove |-> remove]
  <2>1. c \in VoidCall /\ c.op # "receive"
    BY <1>1 DEF VoidCall
  <2> QED BY <1>5, <2>1
<1>6. CASE AskMemoEnd(r)
  BY <1>4, <1>5, <1>6 DEF AskMemoEnd
<1> QED BY <1>2, <1>3, <1>6
-----------------------------------------------------------------------------
(* The requests that are served: invoices. *)

LEMMA ServeInvoices ==
  ASSUME Typed, ReceiptsSound, NEW r \in Requests,
         Create(r) \/ Update(r) \/ Send(r) \/ Void(r) \/ Delete(r)
  PROVE  Typed' /\ ReceiptsSound' /\ Quiet(r)
<1> DEFINE c == req[r]
<1>1. c \in Calls /\ db \in Db
  BY DEF Typed
<1>2. Amounts \subseteq Nat
  BY ReceivablesAssumption
<1>3. CASE Create(r)
  <2>1. c \in CreateCall
    BY <1>1, <1>3, CallShapes DEF Create, Serving
  <2>2. c.i \in Invoices /\ c.t \in Nat /\ c.owed \in Int
    BY <1>2, <2>1 DEF CreateCall
  <2> DEFINE raised == Raised(db, c.i, c.t, c.owed)
             row == [NoInvoice EXCEPT !.status = "draft", !.total = c.t, !.balance = c.t]
             drafted == [db EXCEPT !.inv[c.i] = row]
  <2>3. raised \in Db /\ raised.rct = db.rct /\ raised.app = db.app /\ raised.memo = db.memo
    BY <1>1, <2>2, RaisedDb
  <2>4. row \in InvRow
    BY <2>2, NoInvoiceRow, InvRowTotal
  <2>5. drafted \in Db /\ drafted.rct = db.rct /\ drafted.app = db.app /\ drafted.memo = db.memo
    BY <1>1, <2>2, <2>4, InvoiceSaved
  <2>6. Commit(r, raised) \/ Commit(r, drafted)
    BY <1>3 DEF Create
  <2> HIDE DEF raised, drafted
  <2> QED BY <2>3, <2>5, <2>6, CommitKeeps
<1>4. CASE Update(r)
  <2>1. c \in UpdateCall
    BY <1>1, <1>4, CallShapes DEF Update, Serving
  <2>2. /\ c.i \in Invoices /\ c.t \in Nat /\ c.seen \in InvRow /\ c.seen \in InvFields
        /\ c.seen.status = "draft"
    BY <1>2, <2>1 DEF UpdateCall, MayUpdate, InvRow
  <2> DEFINE row == [c.seen EXCEPT !.total = c.t, !.balance = c.t]
             d == [db EXCEPT !.inv[c.i] = row]
  <2>3. c.seen.paid = 0
    BY <2>2, InvRowFields DEF OpenStatus
  <2>5. row \in InvRow
    BY <2>2, <2>3, InvRowTotal
  <2>6. d \in Db /\ d.rct = db.rct /\ d.app = db.app /\ d.memo = db.memo
    BY <1>1, <2>2, <2>5, InvoiceSaved
  <2>7. Commit(r, d)
    BY <1>4 DEF Update
  <2> HIDE DEF d
  <2> QED BY <2>6, <2>7, CommitKeeps
<1>5. CASE Send(r)
  <2>1. c \in SendCall
    BY <1>1, <1>5, CallShapes DEF Send, Serving
  <2>2. c.i \in Invoices /\ c.seen \in InvRow /\ c.seen \in InvFields
    BY <2>1 DEF SendCall, InvRow
  <2> DEFINE row == c.seen
             s == IF row.status = "draft" THEN "sent" ELSE row.status
             now == [row EXCEPT !.posted = TRUE, !.status = s]
             d == [db EXCEPT !.inv[c.i] = now]
             g == [d.book EXCEPT ![c.i].made = @ + row.total]
             o == d.owed + row.total
             a == d.ar + row.total
             e == [d EXCEPT !.book = g, !.owed = o, !.ar = a]
  <2>3. s \in InvoiceStatus /\ (row.paid > 0 => s \in OpenStatus)
    BY <2>2, InvRowFields DEF InvoiceStatus, OpenStatus
  <2> HIDE DEF s
  <2>4. /\ now \in InvFields /\ now.total = row.total /\ now.balance = row.balance
        /\ now.paid = row.paid /\ now.status = s
    BY <2>2, <2>3 DEF InvFields
  <2>5. now \in InvRow
    BY <2>2, <2>3, <2>4, InvRowFields DEF InvRow
  <2>6. d \in Db /\ d.rct = db.rct /\ d.app = db.app /\ d.memo = db.memo
    BY <1>1, <2>2, <2>5, InvoiceSaved
  <2> HIDE DEF now
  <2>7. Commit(r, IF row.posted THEN d
                  ELSE [d EXCEPT !.book[c.i].made = @ + row.total,
                                 !.owed = @ + row.total, !.ar = @ + row.total])
    BY <1>5 DEF Send, now, s
  <2> HIDE DEF d
  <2>8. [d EXCEPT !.book[c.i].made = @ + row.total, !.owed = @ + row.total,
                  !.ar = @ + row.total] = e
    BY <2>6 DEF Db
  <2>9. g \in [Documents -> BookRow] /\ o \in Int /\ a \in Int
    BY <2>2, <2>6, DbFields, InvRowFields DEF BookRow, Documents
  <2> HIDE DEF g, o, a
  <2>10. e \in Db /\ e.rct = db.rct /\ e.app = db.app /\ e.memo = db.memo
    BY <2>6, <2>9 DEF Db
  <2>11. Commit(r, d) \/ Commit(r, e)
    BY <2>7, <2>8
  <2> HIDE DEF e
  <2> QED BY <2>6, <2>10, <2>11, CommitKeeps
<1>6. ASSUME NEW row \in InvRow, NEW now \in InvRow, NEW i \in Invoices,
             LET d == [db EXCEPT !.inv[i] = now]
             IN Commit(r, d) \/ Commit(r, Reversed(d, i, row))
      PROVE  Typed' /\ ReceiptsSound' /\ Quiet(r)
  <2> DEFINE d == [db EXCEPT !.inv[i] = now]
             e == Reversed(d, i, row)
  <2>1. d \in Db /\ d.rct = db.rct /\ d.app = db.app /\ d.memo = db.memo
    BY <1>1, <1>6, InvoiceSaved
  <2> HIDE DEF d
  <2>2. e \in Db /\ e.rct = d.rct /\ e.app = d.app /\ e.memo = d.memo
    BY <1>6, <2>1, ReversedDb
  <2>3. Commit(r, d) \/ Commit(r, e)
    BY <1>6 DEF d
  <2> HIDE DEF e
  <2> QED BY <2>1, <2>2, <2>3, CommitKeeps
<1>7. CASE Void(r)
  <2>1. c \in EndCall
    BY <1>1, <1>7, CallShapes DEF Void, Serving
  <2>2. c.i \in Invoices /\ c.seen \in InvRow /\ c.seen \in InvFields /\ c.seen.paid = 0
    BY <2>1 DEF EndCall, InvRow
  <2> DEFINE now == [c.seen EXCEPT !.status = "void"]
  <2>3. now \in InvRow
    BY <2>2, InvRowStatus DEF InvoiceStatus
  <2> QED BY <1>6, <1>7, <2>2, <2>3 DEF Void
<1>8. CASE Delete(r)
  <2>1. c \in EndCall
    BY <1>1, <1>8, CallShapes DEF Delete, Serving
  <2>2. c.i \in Invoices /\ c.seen \in InvRow
    BY <2>1 DEF EndCall
  <2>3. [NoInvoice EXCEPT !.status = "gone"] \in InvRow
    BY NoInvoiceRow, InvRowStatus DEF InvoiceStatus
  <2> QED BY <1>6, <1>8, <2>2, <2>3 DEF Delete
<1> QED BY <1>3, <1>4, <1>5, <1>7, <1>8
-----------------------------------------------------------------------------
(* The requests that are served: receipts, settlements, delivery sales. *)

LEMMA ReceivedKeeps ==
  ASSUME NEW d \in Db, SpentWithin(d), HeldWhole(d), NEW p \in Receipts, NEW amount \in Nat,
         NEW al \in Alloc, NEW held \in BOOLEAN, NEW owed \in Int,
         Allocated(al) <= amount, held => al = Nothing
  PROVE  LET e == Received(d, p, amount, al, held, owed)
         IN e \in Db /\ SpentWithin(e) /\ HeldWhole(e) /\ e.memo = d.memo
<1> DEFINE e == Received(d, p, amount, al, held, owed)
           row == ReceivedRow(amount, held)
           share == ReceivedShare(al)
<1>1. /\ e \in Db /\ e.memo = d.memo
      /\ e.rct = [d.rct EXCEPT ![p] = row] /\ e.app = [d.app EXCEPT ![p] = share]
  BY ReceivedDb
<1>2. /\ d.rct \in [Receipts -> RctRow] /\ d.app \in [Receipts -> Shares]
  BY DbFields
<1>3. row.amount = amount /\ (row.held <=> held)
  BY DEF ReceivedRow
<1>4. Sum(Taken(share), Invoices) = Allocated(al)
  BY ReceivedUsed
<1>5. held => Allocated(al) = 0
  BY AllocatedNothing
<1> HIDE DEF e, row, share
<1>6. \A q \in Receipts : q # p => e.rct[q] = d.rct[q] /\ e.app[q] = d.app[q]
  BY <1>1, <1>2
<1>7. e.rct[p] = row /\ e.app[p] = share
  BY <1>1, <1>2
<1>8. \A q \in Receipts : q # p => Used(e, q) = Used(d, q)
  BY <1>6, UsedSame
<1>9. Used(e, p) = Allocated(al)
  BY <1>4, <1>7, UsedIs
<1>10. SpentWithin(e)
  BY <1>3, <1>6, <1>7, <1>8, <1>9 DEF SpentWithin
<1>11. HeldWhole(e)
  BY <1>3, <1>5, <1>6, <1>7, <1>8, <1>9 DEF HeldWhole
<1> QED BY <1>1, <1>10, <1>11 DEF e

(* The same for a receipt no delivery holds.                                *)
LEMMA ReceivedFree ==
  ASSUME NEW d \in Db, SpentWithin(d), HeldWhole(d), NEW p \in Receipts, NEW amount \in Nat,
         NEW al \in Alloc, NEW owed \in Int, Allocated(al) <= amount
  PROVE  /\ Received(d, p, amount, al, FALSE, owed) \in Db
         /\ SpentWithin(Received(d, p, amount, al, FALSE, owed))
         /\ HeldWhole(Received(d, p, amount, al, FALSE, owed))
         /\ Received(d, p, amount, al, FALSE, owed).memo = d.memo
<1>1. ASSUME NEW held \in BOOLEAN, ~held
      PROVE  LET e == Received(d, p, amount, al, held, owed)
             IN e \in Db /\ SpentWithin(e) /\ HeldWhole(e) /\ e.memo = d.memo
  BY <1>1, ReceivedKeeps
<1>2. FALSE \in BOOLEAN /\ ~FALSE
  OBVIOUS
<1> QED BY <1>1, <1>2

LEMMA ReceivedMemo ==
  ASSUME NEW d \in Db, NEW p \in Receipts, NEW amount \in Nat, NEW al \in Alloc,
         NEW held \in BOOLEAN, NEW owed \in Int
  PROVE  Received(d, p, amount, al, held, owed).memo = d.memo
<1> DEFINE e == Received(d, p, amount, al, held, owed)
           row == ReceivedRow(amount, held)
           share == ReceivedShare(al)
<1>1. /\ e \in Db /\ e.memo = d.memo
      /\ e.rct = [d.rct EXCEPT ![p] = row] /\ e.app = [d.app EXCEPT ![p] = share]
  BY ReceivedDb
<1> QED BY <1>1

LEMMA AppliedKeeps ==
  ASSUME NEW d \in Db, SpentWithin(d), NEW p \in Receipts, NEW al \in Alloc, NEW owed \in Int,
         Allocated(al) <= Unapplied(d, p)
  PROVE  LET e == Applied(d, p, al, owed)
         IN /\ e \in Db /\ SpentWithin(e) /\ e.memo = d.memo /\ e.rct = d.rct /\ e.owed \in Int
            /\ \A q \in Receipts : q # p => Used(e, q) = Used(d, q)
<1> DEFINE e == Applied(d, p, al, owed)
           share == WithLater(d.app[p], al)
<1>1. /\ e \in Db /\ e.memo = d.memo /\ e.rct = d.rct /\ e.owed = owed - Allocated(al)
      /\ share \in Shares /\ e.app = [d.app EXCEPT ![p] = share]
  BY AppliedDb
<1>2. /\ d.rct \in [Receipts -> RctRow] /\ d.app \in [Receipts -> Shares] /\ e.owed \in Int
  BY <1>1, DbFields
<1>3. d.app[p] \in Shares
  BY <1>2
<1>4. Sum(Taken(share), Invoices) = Sum(Taken(d.app[p]), Invoices) + Allocated(al)
  BY <1>3, AppliedUsed
<1> HIDE DEF e, share
<1>5. \A q \in Receipts : q # p => e.app[q] = d.app[q]
  BY <1>1, <1>2
<1>6. e.app[p] = share
  BY <1>1, <1>2
<1>7. \A q \in Receipts : q # p => Used(e, q) = Used(d, q)
  BY <1>5, UsedSame
<1>8. Used(e, p) = Used(d, p) + Allocated(al)
  BY <1>4, <1>6, UsedIs
<1>9. Used(d, p) \in Nat /\ d.rct[p].amount \in Nat /\ Allocated(al) \in Nat
  BY <1>2, UsedNat, AllocatedNat DEF RctRow, RctFields
<1>10. Used(e, p) <= d.rct[p].amount
  BY <1>8, <1>9 DEF Unapplied
<1>11. SpentWithin(e)
  BY <1>1, <1>7, <1>10 DEF SpentWithin
<1> QED BY <1>1, <1>2, <1>7, <1>11 DEF e

LEMMA ServeReceipts ==
  ASSUME Typed, ReceiptsSound, NEW r \in Requests, Receive(r) \/ Apply(r)
  PROVE  Typed' /\ ReceiptsSound' /\ Quiet(r)
<1> DEFINE c == req[r]
<1>1. c \in Calls /\ db \in Db /\ Amounts \subseteq Nat /\ SpentWithin(db) /\ HeldWhole(db)
  BY ReceivablesAssumption DEF Typed, ReceiptsSound
<1>4. CASE Receive(r)
  <2>1. c \in ReceiveCall
    BY <1>1, <1>4, CallShapes DEF Receive, Serving
  <2>2. /\ c.p \in Receipts /\ c.amount \in Nat /\ c.al \in Alloc /\ c.held \in BOOLEAN
        /\ c.owed \in Int
    BY <1>1, <2>1 DEF ReceiveCall
  <2>3. c.held => c.al = Nothing
    BY <1>4 DEF Receive, Serving, ReceiptsSound
  <2> DEFINE d == Received(db, c.p, c.amount, c.al, c.held, c.owed)
  <2>4. Allocated(c.al) <= c.amount /\ Commit(r, d)
    BY <1>4 DEF Receive, MayReceive
  <2>5. d \in Db /\ SpentWithin(d) /\ HeldWhole(d) /\ d.memo = db.memo
    BY <1>1, <2>2, <2>3, <2>4, ReceivedKeeps
  <2> HIDE DEF d
  <2> QED BY <2>4, <2>5, SoundCommitKeeps
<1>5. CASE Apply(r)
  <2>1. c \in ApplyCall
    BY <1>1, <1>5, CallShapes DEF Apply, Serving
  <2>2. c.p \in Receipts /\ c.al \in Alloc /\ c.owed \in Int
    BY <2>1 DEF ApplyCall
  <2> DEFINE d == Applied(db, c.p, c.al, c.owed)
  <2>3. /\ ~db.rct[c.p].held /\ Allocated(c.al) <= Unapplied(db, c.p) /\ Commit(r, d)
    BY <1>5 DEF Apply, MayApply, Left
  <2>4. /\ d \in Db /\ SpentWithin(d) /\ d.rct = db.rct /\ d.memo = db.memo
        /\ \A q \in Receipts : q # c.p => Used(d, q) = Used(db, q)
    BY <1>1, <2>2, <2>3, AppliedKeeps
  <2> HIDE DEF d
  <2>5. HeldWhole(d)
    BY <1>1, <2>3, <2>4 DEF HeldWhole
  <2> QED BY <2>3, <2>4, <2>5, SoundCommitKeeps
<1> QED BY <1>4, <1>5
LEMMA ServeDeleteReceipt ==
  ASSUME Typed, ReceiptsSound, NEW r \in Requests, DeleteReceipt(r)
  PROVE  Typed' /\ ReceiptsSound' /\ Quiet(r)
<1> DEFINE c == req[r]
           of == [i \in Invoices |-> c.app[i].at + c.app[i].later]
           touched == {i \in Invoices : of[i] > 0 /\ Exists(db.inv[i])}
           f == [i \in Invoices |-> IF i \in touched THEN Reopened(db.inv[i], of[i])
                                                      ELSE db.inv[i]]
           opened == [db EXCEPT !.inv = f]
           reopened == Refreshed(opened, touched)
           at == Sum([i \in Invoices |-> c.app[i].at], Invoices)
           later == Sum([i \in Invoices |-> c.app[i].later], Invoices)
           row == [NoReceipt EXCEPT !.status = "gone"]
           d(owed) == [reopened EXCEPT
                         !.rct[c.p] = row,
                         !.app[c.p] = NotApplied,
                         !.book[c.p].undone = @ + c.amount,
                         !.owed = owed + at + later,
                         !.ar = @ + at + later,
                         !.advances = @ - (c.amount - at) + later,
                         !.cash = @ - c.amount]
<1>1. c \in Calls /\ db \in Db /\ SpentWithin(db) /\ HeldWhole(db)
  BY DEF Typed, ReceiptsSound
<1>2. c \in DeleteCall
  BY <1>1, CallShapes DEF DeleteReceipt, Serving
<1>3. c.p \in Receipts /\ c.amount \in Nat /\ c.app \in Shares /\ c.owed \in Int /\ db.owed \in Int
  BY <1>1, <1>2, DbFields DEF DeleteCall
<1>4. PICK owed \in Int : Commit(r, d(owed))
  BY <1>3 DEF DeleteReceipt
<1>5. \A i \in Invoices : of[i] \in Nat
  BY <1>3 DEF Shares
<1>6. f \in [Invoices -> InvRow]
  BY <1>1, <1>5, DbFields, ReopenedRow
<1>7. at \in Int /\ later \in Int
  <2> DEFINE g == [i \in Invoices |-> c.app[i].at]
             h == [i \in Invoices |-> c.app[i].later]
  <2>1. \A i \in Invoices : g[i] \in Int /\ h[i] \in Int
    BY <1>3 DEF Shares
  <2> HIDE DEF g, h
  <2>2. Sum(g, Invoices) \in Int /\ Sum(h, Invoices) \in Int
    BY <2>1, ReceivablesAssumption, SumInt
  <2> QED BY <2>2 DEF g, h
<1>8. row \in RctRow /\ ~row.held /\ row.status # "kept"
  BY DEF RctRow, RctFields, NoReceipt
<1>9. NotApplied \in Shares
  BY DEF NotApplied, Shares
<1> HIDE DEF c, f, touched, at, later, row
<1>10. opened \in Db /\ SameBut(db, opened)
  BY <1>1, <1>6 DEF Db, SameBut
<1> HIDE DEF opened
<1>11. reopened \in Db /\ SameBut(opened, reopened)
  BY <1>10, RefreshedDb
<1> HIDE DEF reopened
<1>12. reopened.rct = db.rct /\ reopened.app = db.app /\ reopened.memo = db.memo
  BY <1>10, <1>11 DEF SameBut
<1> DEFINE x == [reopened.rct EXCEPT ![c.p] = row]
           y == [reopened.app EXCEPT ![c.p] = NotApplied]
           z == [reopened.book EXCEPT ![c.p].undone = @ + c.amount]
           o == owed + at + later
           a == reopened.ar + at + later
           v == reopened.advances - (c.amount - at) + later
           w == reopened.cash - c.amount
           e == [reopened EXCEPT !.rct = x, !.app = y, !.book = z, !.owed = o, !.ar = a,
                                 !.advances = v, !.cash = w]
<1>13. d(owed) = e
  OBVIOUS
<1>14. /\ reopened.rct \in [Receipts -> RctRow] /\ reopened.app \in [Receipts -> Shares]
       /\ reopened.book \in [Documents -> BookRow] /\ reopened.ar \in Int
       /\ reopened.advances \in Int /\ reopened.cash \in Int /\ c.p \in Documents
  BY <1>3, <1>11, DbFields DEF Documents
<1>15. x \in [Receipts -> RctRow] /\ y \in [Receipts -> Shares]
  BY <1>3, <1>8, <1>9, <1>14
<1>16. z \in [Documents -> BookRow]
  BY <1>3, <1>14 DEF BookRow
<1>17. o \in Int /\ a \in Int /\ v \in Int /\ w \in Int
  BY <1>3, <1>7, <1>14
<1>18. /\ \A q \in Receipts : q # c.p => x[q] = db.rct[q] /\ y[q] = db.app[q]
       /\ x[c.p] = row
  BY <1>3, <1>12, <1>14
<1> HIDE DEF x, y, z, o, a, v, w
<1>19. e \in Db /\ e.rct = x /\ e.app = y /\ e.memo = db.memo
  BY <1>11, <1>12, <1>15, <1>16, <1>17 DEF Db
<1> HIDE DEF e
<1>20. \A q \in Receipts : q # c.p => Used(e, q) = Used(db, q)
  BY <1>18, <1>19, UsedSame
<1>21. SpentWithin(e) /\ HeldWhole(e)
  BY <1>1, <1>8, <1>18, <1>19, <1>20 DEF SpentWithin, HeldWhole
<1>22. Commit(r, e)
  BY <1>4, <1>13
<1> QED BY <1>19, <1>21, <1>22, SoundCommitKeeps

LEMMA ServeSettle ==
  ASSUME Typed, ReceiptsSound, NEW r \in Requests, Settle(r)
  PROVE  Typed' /\ ReceiptsSound'
<1> DEFINE c == req[r]
           alone == Alone(c.i, c.a)
           advanced == Applied(db, c.p, alone, c.owed)
           credited == Credited(advanced, c.m, c.i, c.b)
           al == AutoApply(credited, c.cash)
           received == Received(credited, c.q, c.cash, al, FALSE, credited.owed)
<1>1. c \in Calls /\ db \in Db /\ SpentWithin(db) /\ HeldWhole(db) /\ Amounts \subseteq Nat
  BY ReceivablesAssumption DEF Typed, ReceiptsSound
<1>2. c \in SettleCall
  BY <1>1, CallShapes DEF Settle, Serving
<1>3. /\ c.p \in Receipts /\ c.m \in Memos /\ c.q \in Receipts /\ c.i \in Invoices
      /\ c.a \in Nat /\ c.b \in Nat /\ c.cash \in Nat /\ c.owed \in Int
  <2>1. /\ c.p \in Receipts /\ c.m \in Memos /\ c.q \in Receipts /\ c.i \in Invoices
        /\ c.a \in Amounts /\ c.b \in Amounts /\ c.cash \in Amounts \cup {0} /\ c.owed \in Int
    BY <1>2 DEF SettleCall
  <2> HIDE DEF c
  <2>2. Amounts \cup {0} \subseteq Nat
    BY <1>1
  <2> QED BY <1>1, <2>1, <2>2
<1>4. alone \in Alloc
  BY <1>3, AllocatedAlone
<1>5. ~db.rct[c.p].held /\ Allocated(alone) <= Unapplied(db, c.p)
  BY DEF Settle, MayApply, Left
<1>6. /\ IF c.cash = 0 THEN db' = credited ELSE db' = received
      /\ req' = [req EXCEPT ![r] = Done] /\ writes' = writes + 1 /\ apart' = apart
      /\ spent' = [spent EXCEPT ![c.m] = @ + c.b]
  BY DEF Settle, Then
<1> HIDE DEF alone, c
<1>7. /\ advanced \in Db /\ SpentWithin(advanced) /\ advanced.rct = db.rct /\ advanced.owed \in Int
      /\ \A q \in Receipts : q # c.p => Used(advanced, q) = Used(db, q)
  BY <1>1, <1>3, <1>4, <1>5, AppliedKeeps
<1> HIDE DEF advanced
<1>8. HeldWhole(advanced)
  BY <1>1, <1>5, <1>7 DEF HeldWhole
<1>9. /\ credited \in Db /\ credited.rct = advanced.rct /\ credited.app = advanced.app
      /\ credited.owed = advanced.owed
  <2>1. /\ credited \in Db /\ credited.rct = advanced.rct /\ credited.app = advanced.app
        /\ credited.owed = advanced.owed
        /\ credited.memo = [advanced.memo EXCEPT ![c.m] = WithCredit(advanced.memo[c.m], c.b)]
    BY <1>3, <1>7, CreditedDb
  <2> QED BY <2>1
<1> HIDE DEF credited
<1>10. SpentWithin(credited) /\ HeldWhole(credited) /\ credited.owed \in Int
  BY <1>7, <1>8, <1>9, SameReceipts
<1>11. al \in Alloc /\ Allocated(al) <= c.cash
  BY <1>3, <1>9, AutoApplyWithin
<1> HIDE DEF al
<1>12. received \in Db /\ SpentWithin(received) /\ HeldWhole(received)
  BY <1>3, <1>9, <1>10, <1>11, ReceivedFree
<1> HIDE DEF received
<1>13. Done \in Calls /\ Done.op # "receive"
  BY CallsHave DEF Done
<1>14. writes' \in Nat /\ apart' \in BOOLEAN /\ spent' \in [Memos -> Nat]
  BY <1>3, <1>6 DEF Typed
<1>15. db' \in Db /\ SpentWithin(db') /\ HeldWhole(db')
  BY <1>6, <1>9, <1>10, <1>12
<1> QED BY <1>6, <1>13, <1>14, <1>15, ServeKeeps

LEMMA ServeApproveSale ==
  ASSUME Typed, ReceiptsSound, NEW r \in Requests, ApproveSale(r)
  PROVE  Typed' /\ ReceiptsSound' /\ Quiet(r)
<1> DEFINE c == req[r]
           raised == Raised(db, c.i, c.t, c.owed)
           use(p) == SmallerOf(Unapplied(db, p), c.t)
           P == CHOOSE p \in c.A : TRUE
           applied == Applied(raised, P, Alone(c.i, use(P)), raised.owed)
           advanced == IF \A p \in c.A : use(p) = 0 THEN raised ELSE applied
           f == [p \in Receipts |-> IF p \in c.A THEN [advanced.rct[p] EXCEPT !.held = FALSE]
                                                 ELSE advanced.rct[p]]
           freed == [advanced EXCEPT !.rct = f]
           al == Alone(c.i, c.cash)
           received == Received(freed, c.q, c.cash, al, FALSE, freed.owed)
           collected == IF c.cash = 0 THEN freed ELSE received
           e == [collected EXCEPT !.sale[c.i] = PaidStatusOf(collected.inv[c.i])]
<1>1. c \in Calls /\ db \in Db /\ SpentWithin(db) /\ HeldWhole(db) /\ Amounts \subseteq Nat
  BY ReceivablesAssumption DEF Typed, ReceiptsSound
<1>2. c \in SaleCall
  BY <1>1, CallShapes DEF ApproveSale, Serving
<1>3. /\ c.i \in Invoices /\ c.t \in Nat /\ c.A \subseteq Receipts /\ c.q \in Receipts
      /\ c.cash \in Nat /\ c.owed \in Int
  <2>1. /\ c.i \in Invoices /\ c.t \in Amounts /\ c.A \subseteq Receipts /\ c.q \in Receipts
        /\ c.cash \in Amounts \cup {0} /\ c.owed \in Int
    BY <1>2 DEF SaleCall
  <2> HIDE DEF c
  <2>2. Amounts \cup {0} \subseteq Nat
    BY <1>1
  <2> QED BY <1>1, <2>1, <2>2
<1>4. \A p \in c.A : db.rct[p].held
  BY DEF ApproveSale
<1>5. Commit(r, e)
  BY DEF ApproveSale
<1>6. /\ raised \in Db /\ raised.rct = db.rct /\ raised.app = db.app /\ raised.memo = db.memo
  BY <1>1, <1>3, RaisedDb
<1> HIDE DEF c
<1>7. \A p \in Receipts : Used(raised, p) = Used(db, p) /\ Unapplied(raised, p) = Unapplied(db, p)
  BY <1>6, UsedIs DEF Unapplied
<1> HIDE DEF raised
<1>8. SpentWithin(raised) /\ HeldWhole(raised) /\ raised.owed \in Int
  BY <1>1, <1>6, SameReceipts, DbFields
<1>9. \A p \in c.A : p \in Receipts /\ use(p) \in Nat /\ use(p) <= Unapplied(db, p)
  <2> TAKE p \in c.A
  <2>1. p \in Receipts /\ db.rct[p] \in RctRow
    BY <1>1, <1>3, DbFields
  <2>2. db.rct[p].status = "kept" /\ db.rct[p].amount \in Nat
    BY <1>4, <2>1 DEF RctRow, RctFields
  <2>3. Used(db, p) \in Nat /\ Used(db, p) <= db.rct[p].amount
    BY <1>1, <2>1, <2>2, UsedNat DEF SpentWithin
  <2> QED BY <1>3, <2>1, <2>2, <2>3 DEF SmallerOf, Unapplied
<1>10. /\ advanced \in Db /\ SpentWithin(advanced) /\ advanced.rct = db.rct
       /\ advanced.memo = db.memo
       /\ \A q \in Receipts \ c.A : Used(advanced, q) = Used(db, q)
  <2>1. CASE \A p \in c.A : use(p) = 0
    BY <1>6, <1>7, <1>8, <2>1
  <2>2. CASE ~ \A p \in c.A : use(p) = 0
    <3>1. P \in c.A
      BY <2>2
    <3>2. P \in Receipts /\ use(P) \in Nat /\ use(P) <= Unapplied(raised, P)
      BY <1>7, <1>9, <3>1
    <3> HIDE DEF P, use
    <3>3. Alone(c.i, use(P)) \in Alloc /\ Allocated(Alone(c.i, use(P))) = use(P)
      BY <1>3, <3>2, AllocatedAlone
    <3>4. Allocated(Alone(c.i, use(P))) <= Unapplied(raised, P)
      BY <3>2, <3>3
    <3>5. /\ applied \in Db /\ SpentWithin(applied) /\ applied.rct = raised.rct
          /\ applied.memo = raised.memo
          /\ \A q \in Receipts : q # P => Used(applied, q) = Used(raised, q)
      BY <1>6, <1>8, <3>2, <3>3, <3>4, AppliedKeeps
    <3> HIDE DEF applied
    <3>6. advanced = applied
      BY <2>2
    <3> HIDE DEF advanced
    <3> QED BY <1>6, <1>7, <3>1, <3>5, <3>6
  <2> QED BY <2>1, <2>2
<1> HIDE DEF advanced
<1>11. advanced.rct \in [Receipts -> RctRow]
  BY <1>10, DbFields
<1>12. \A p \in Receipts : /\ f[p] \in RctRow /\ f[p].status = db.rct[p].status
                           /\ f[p].amount = db.rct[p].amount
                           /\ f[p].held => db.rct[p].held /\ p \notin c.A
  <2> TAKE p \in Receipts
  <2>1. advanced.rct[p] \in RctRow /\ advanced.rct[p] = db.rct[p]
    BY <1>10, <1>11
  <2>2. [advanced.rct[p] EXCEPT !.held = FALSE] \in RctRow
    BY <2>1 DEF RctRow, RctFields
  <2>3. /\ [advanced.rct[p] EXCEPT !.held = FALSE].status = db.rct[p].status
        /\ [advanced.rct[p] EXCEPT !.held = FALSE].amount = db.rct[p].amount
        /\ ~[advanced.rct[p] EXCEPT !.held = FALSE].held
    BY <2>1 DEF RctRow, RctFields
  <2>4. CASE p \in c.A
    BY <2>2, <2>3, <2>4
  <2>5. CASE p \notin c.A
    BY <2>1, <2>5
  <2> QED BY <2>4, <2>5
<1>13. f \in [Receipts -> RctRow]
  BY <1>12
<1> HIDE DEF f
<1>14. freed \in Db /\ freed.rct = f /\ freed.app = advanced.app /\ freed.memo = advanced.memo
  BY <1>10, <1>13 DEF Db
<1> HIDE DEF freed
<1>15. \A p \in Receipts : Used(freed, p) = Used(advanced, p)
  BY <1>14, UsedIs
<1>16. SpentWithin(freed)
  BY <1>10, <1>12, <1>14, <1>15 DEF SpentWithin
<1>17. HeldWhole(freed)
  BY <1>1, <1>10, <1>12, <1>14, <1>15 DEF HeldWhole
<1>18. al \in Alloc /\ Allocated(al) <= c.cash
  BY <1>3, AllocatedAlone
<1> HIDE DEF al
<1>19. received \in Db /\ SpentWithin(received) /\ HeldWhole(received) /\ received.memo = freed.memo
  <2>1. freed.owed \in Int
    BY <1>14, DbFields
  <2>2. received \in Db /\ SpentWithin(received) /\ HeldWhole(received) /\ received.memo = freed.memo
    BY <1>3, <1>14, <1>16, <1>17, <1>18, <2>1, ReceivedFree
  <2> QED BY <2>2
<1> HIDE DEF received
<1>20. collected \in Db /\ SpentWithin(collected) /\ HeldWhole(collected) /\ collected.memo = db.memo
  BY <1>10, <1>14, <1>16, <1>17, <1>19
<1> HIDE DEF collected
<1> DEFINE g == [collected.sale EXCEPT ![c.i] = PaidStatusOf(collected.inv[c.i])]
<1>21. g \in [Invoices -> PaidStatus] /\ e = [collected EXCEPT !.sale = g]
  BY <1>3, <1>20, DbFields DEF PaidStatusOf, PaidStatus
<1> HIDE DEF g, e
<1>22. e \in Db /\ e.rct = collected.rct /\ e.app = collected.app /\ e.memo = collected.memo
  BY <1>20, <1>21 DEF Db
<1>23. SpentWithin(e) /\ HeldWhole(e)
  BY <1>20, <1>22, SameReceipts
<1> QED BY <1>5, <1>20, <1>22, <1>23, SoundCommitKeeps

-----------------------------------------------------------------------------
(* The requests that are served: credit memos. *)

(* A transaction that saves one memo's row.                                 *)
LEMMA MemoKeeps ==
  ASSUME Typed, ReceiptsSound, NEW r \in Requests, NEW c \in Calls, c.op # "receive",
         NEW d \in Db, d.rct = db.rct, d.app = db.app, Then(r, d, c),
         spent' \in [Memos -> Nat]
  PROVE  Typed' /\ ReceiptsSound'
<1>1. SpentWithin(d) /\ HeldWhole(d)
  BY SameReceipts DEF ReceiptsSound
<1>2. /\ db' = d /\ req' = [req EXCEPT ![r] = c] /\ writes' \in Nat /\ apart' \in BOOLEAN
  BY DEF Then, Typed
<1> QED BY <1>1, <1>2, ServeKeeps

LEMMA ServeMemo ==
  ASSUME Typed, ReceiptsSound, NEW r \in Requests, Memo(r)
  PROVE  Typed' /\ ReceiptsSound'
<1> DEFINE c == req[r]
           absorb == [op |-> "absorb", m |-> c.m, left |-> c.t, S |-> c.S, refund |-> c.refund]
           next == IF c.S = {} /\ ~c.refund THEN Done ELSE absorb
           row == [status |-> "open", total |-> c.t, applied |-> 0, balance |-> c.t, of |-> c.S]
           g == [db.book EXCEPT ![c.m].made = -c.t]
           o == c.owed - c.t
           a == db.ar - c.t
           h == [db.memo EXCEPT ![c.m] = row]
           d == [db EXCEPT !.memo = h, !.book = g, !.owed = o, !.ar = a]
<1>1. c \in Calls /\ db \in Db /\ Amounts \subseteq Nat
  BY ReceivablesAssumption DEF Typed
<1>2. c \in MemoCall
  BY <1>1, CallShapes DEF Memo, Serving
<1>3. /\ c.m \in Memos /\ c.t \in Nat /\ c.t \in Int /\ c.S \subseteq Invoices
      /\ c.refund \in BOOLEAN /\ c.owed \in Int
  <2>1. /\ c.m \in Memos /\ c.t \in Amounts /\ c.S \subseteq Invoices /\ c.refund \in BOOLEAN
        /\ c.owed \in Int
    BY <1>2 DEF MemoCall
  <2> HIDE DEF c
  <2>2. c.t \in Nat
    BY <1>1, <2>1
  <2> QED BY <2>1, <2>2
<1>4. absorb \in AbsorbCall /\ absorb.op # "receive"
  BY <1>3 DEF AbsorbCall
<1>5. next \in Calls /\ next.op # "receive"
  BY <1>4, CallsHave DEF Done
<1>6. /\ Then(r, [db EXCEPT !.memo[c.m] = row, !.book[c.m].made = -c.t, !.owed = c.owed - c.t,
                            !.ar = @ - c.t], next)
      /\ spent' = spent
  BY DEF Memo
<1> HIDE DEF c, next
<1>7. row \in MemoRow
  BY <1>3 DEF MemoRow, MemoFields, MemoStatus
<1> HIDE DEF row
<1>8. [db EXCEPT !.memo[c.m] = row, !.book[c.m].made = -c.t, !.owed = c.owed - c.t,
                 !.ar = @ - c.t] = d
  BY <1>1 DEF Db
<1>9. /\ g \in [Documents -> BookRow] /\ o \in Int /\ a \in Int /\ db.cash \in Int
      /\ db.refund \in [Memos -> Int]
  BY <1>1, <1>3, DbFields DEF BookRow, Documents
<1>10. h \in [Memos -> MemoRow]
  BY <1>1, <1>3, <1>7, DbFields
<1> HIDE DEF g, h, o, a
<1>11. d \in Db /\ d.rct = db.rct /\ d.app = db.app
  BY <1>1, <1>9, <1>10 DEF Db
<1>12. Then(r, d, next) /\ spent' \in [Memos -> Nat]
  BY <1>6, <1>8 DEF Typed
<1> HIDE DEF d
<1> QED BY <1>5, <1>11, <1>12, MemoKeeps

LEMMA ServeAbsorb ==
  ASSUME Typed, ReceiptsSound, NEW r \in Requests, Absorb(r)
  PROVE  Typed' /\ ReceiptsSound'
<1> DEFINE c == req[r]
           refund == [op |-> "refund", m |-> c.m, seen |-> db.memo[c.m]]
           a(i) == SmallerOf(c.left, db.inv[i].balance)
           credit(i) == [op |-> "credit", m |-> c.m, i |-> i, a |-> a(i), refund |-> c.refund]
<1>1. c \in Calls /\ db \in Db /\ SpentWithin(db) /\ HeldWhole(db)
  BY DEF Typed, ReceiptsSound
<1>2. c \in AbsorbCall
  BY <1>1, CallShapes DEF Absorb, Serving
<1>3. /\ c.m \in Memos /\ c.left \in Int /\ c.S \subseteq Invoices /\ c.refund \in BOOLEAN
  BY <1>2 DEF AbsorbCall
<1>4. db.memo[c.m] \in MemoRow /\ \A i \in Invoices : db.inv[i].balance \in Int
  BY <1>1, <1>3, DbFields, InvRowFields
<1>5. refund \in Calls /\ refund.op # "receive"
  BY <1>3, <1>4, CallsHave DEF RefundCall
<1>6. \A i \in c.S : credit(i) \in Calls /\ credit(i).op # "receive"
  <2> TAKE i \in c.S
  <2>1. i \in Invoices /\ a(i) \in Int
    BY <1>3, <1>4 DEF SmallerOf
  <2> HIDE DEF a
  <2>2. credit(i) \in CreditCall
    BY <1>3, <2>1 DEF CreditCall
  <2> QED BY <2>2, CallsHave
<1>7. Done \in Calls /\ Done.op # "receive"
  BY CallsHave DEF Done
<1>8. /\ db' = db /\ spent' = spent /\ writes' = writes /\ apart' = apart
      /\ \/ req' = [req EXCEPT ![r] = refund]
         \/ req' = [req EXCEPT ![r] = Done]
         \/ \E i \in c.S : req' = [req EXCEPT ![r] = credit(i)]
  BY DEF Absorb
<1> HIDE DEF c, refund, credit
<1>9. PICK k \in Calls : k.op # "receive" /\ req' = [req EXCEPT ![r] = k]
  BY <1>5, <1>6, <1>7, <1>8
<1>10. writes' \in Nat /\ apart' \in BOOLEAN /\ spent' \in [Memos -> Nat]
  BY <1>8 DEF Typed
<1> QED BY <1>1, <1>8, <1>9, <1>10, ServeKeeps

LEMMA ServeCredit ==
  ASSUME Typed, ReceiptsSound, NEW r \in Requests, Credit(r)
  PROVE  Typed' /\ ReceiptsSound'
<1> DEFINE c == req[r]
           now == Credited(db, c.m, c.i, c.a)
           absorb == [op |-> "absorb", m |-> c.m, left |-> now.memo[c.m].balance, S |-> {},
                      refund |-> TRUE]
           next == IF c.refund THEN absorb ELSE Done
<1>1. c \in Calls /\ db \in Db
  BY DEF Typed
<1>2. c \in CreditCall
  BY <1>1, CallShapes DEF Credit, Serving
<1>3. c.m \in Memos /\ c.i \in Invoices /\ c.a \in Int /\ c.a > 0
  BY <1>2 DEF CreditCall, Credit, MayCredit, MayPay
<1>4. Then(r, now, next) /\ spent' = [spent EXCEPT ![c.m] = @ + c.a]
  BY DEF Credit
<1> HIDE DEF c
<1>5. c.a \in Nat
  BY <1>3
<1>6. /\ now \in Db /\ now.rct = db.rct /\ now.app = db.app /\ now.owed = db.owed
      /\ now.memo = [db.memo EXCEPT ![c.m] = WithCredit(db.memo[c.m], c.a)]
  BY <1>1, <1>3, <1>5, CreditedDb
<1> HIDE DEF now
<1>7. now.memo[c.m].balance \in Int
  BY <1>3, <1>6, DbFields DEF MemoRow, MemoFields
<1>8. absorb \in AbsorbCall /\ absorb.op # "receive"
  BY <1>3, <1>7 DEF AbsorbCall
<1>9. next \in Calls /\ next.op # "receive"
  BY <1>8, CallsHave DEF Done
<1>10. spent' \in [Memos -> Nat]
  BY <1>3, <1>4, <1>5 DEF Typed
<1> HIDE DEF next
<1> QED BY <1>4, <1>6, <1>9, <1>10, MemoKeeps

LEMMA MemoEnded ==
  ASSUME NEW row \in MemoRow, NEW s \in {"refunded", "void"}
  PROVE  [row EXCEPT !.balance = 0, !.status = s] \in MemoRow
<1> DEFINE e == [row EXCEPT !.balance = 0, !.status = s]
<1>1. row \in MemoFields
  BY DEF MemoRow
<1>0. s \in MemoStatus /\ 0 \in Int
  BY DEF MemoStatus
<1>2. e \in MemoFields /\ e.balance = 0
  BY <1>0, <1>1 DEF MemoFields
<1> HIDE DEF e
<1>3. e \in MemoRow
  BY <1>2 DEF MemoRow
<1> QED BY <1>3 DEF e

LEMMA ServeMemoEnd ==
  ASSUME Typed, ReceiptsSound, NEW r \in Requests, Refund(r) \/ VoidMemo(r) \/ RemoveMemo(r)
  PROVE  Typed' /\ ReceiptsSound'
<1> DEFINE c == req[r]
<1>1. /\ c \in Calls /\ db \in Db /\ db.refund \in [Memos -> Int]
      /\ db.book \in [Documents -> BookRow] /\ db.owed \in Int /\ db.ar \in Int /\ db.cash \in Int
  BY DbFields DEF Typed
<1>2. Done \in Calls /\ Done.op # "receive"
  BY CallsHave DEF Done
<1>3. CASE Refund(r)
  <2> DEFINE row == [c.seen EXCEPT !.balance = 0, !.status = "refunded"]
             f == [db.refund EXCEPT ![c.m] = @ + c.seen.balance]
             o == db.owed + c.seen.balance
             a == db.ar + c.seen.balance
             w == db.cash - c.seen.balance
             h == [db.memo EXCEPT ![c.m] = row]
             d == [db EXCEPT !.memo = h, !.refund = f, !.owed = o, !.ar = a, !.cash = w]
  <2>1. c \in RefundCall
    BY <1>1, <1>3, CallShapes DEF Refund, Serving
  <2>2. c.m \in Memos /\ c.seen \in MemoRow /\ c.seen.balance \in Int
    BY <2>1 DEF RefundCall, MemoRow, MemoFields
  <2>3. /\ Then(r, [db EXCEPT !.memo[c.m] = row, !.refund[c.m] = @ + c.seen.balance,
                              !.owed = @ + c.seen.balance, !.ar = @ + c.seen.balance,
                              !.cash = @ - c.seen.balance], Done)
        /\ spent' = spent
    BY <1>3 DEF Refund, Commit
  <2> HIDE DEF c
  <2>4. row \in MemoRow
    BY <2>2, MemoEnded
  <2> HIDE DEF row
  <2>5. [db EXCEPT !.memo[c.m] = row, !.refund[c.m] = @ + c.seen.balance,
                   !.owed = @ + c.seen.balance, !.ar = @ + c.seen.balance,
                   !.cash = @ - c.seen.balance] = d
    BY <1>1 DEF Db
  <2>6. /\ f \in [Memos -> Int] /\ o \in Int /\ a \in Int /\ w \in Int
        /\ h \in [Memos -> MemoRow]
    BY <1>1, <2>2, <2>4, DbFields
  <2> HIDE DEF f, h, o, a, w
  <2>7. d \in Db /\ d.rct = db.rct /\ d.app = db.app
    BY <1>1, <2>6 DEF Db
  <2>8. Then(r, d, Done) /\ spent' \in [Memos -> Nat]
    BY <2>3, <2>5 DEF Typed
  <2> HIDE DEF d
  <2> QED BY <1>2, <2>7, <2>8, MemoKeeps
<1>4. CASE VoidMemo(r)
  <2> DEFINE row == [c.seen EXCEPT !.balance = 0, !.status = "void"]
             g == [db.book EXCEPT ![c.m].undone = @ + c.seen.total]
             o == db.owed + c.seen.total
             a == db.ar + c.seen.total
             h == [db.memo EXCEPT ![c.m] = row]
             d == [db EXCEPT !.memo = h, !.book = g, !.owed = o, !.ar = a]
             remove == [op |-> "removeMemo", m |-> c.m]
             next == IF c.remove THEN remove ELSE Done
  <2>1. c \in VoidCall
    BY <1>1, <1>4, CallShapes DEF VoidMemo, Serving
  <2>2. c.m \in Memos /\ c.seen \in MemoRow /\ c.seen.total \in Int
    BY <2>1 DEF VoidCall, MemoRow, MemoFields
  <2>3. /\ Then(r, [db EXCEPT !.memo[c.m] = row, !.book[c.m].undone = @ + c.seen.total,
                              !.owed = @ + c.seen.total, !.ar = @ + c.seen.total], next)
        /\ spent' = spent
    BY <1>4 DEF VoidMemo
  <2> HIDE DEF c
  <2>4. row \in MemoRow
    BY <2>2, MemoEnded
  <2> HIDE DEF row
  <2>5. [db EXCEPT !.memo[c.m] = row, !.book[c.m].undone = @ + c.seen.total,
                   !.owed = @ + c.seen.total, !.ar = @ + c.seen.total] = d
    BY <1>1 DEF Db
  <2>6. g \in [Documents -> BookRow] /\ o \in Int /\ a \in Int
    BY <1>1, <2>2 DEF BookRow, Documents
  <2>11. h \in [Memos -> MemoRow]
    BY <1>1, <2>2, <2>4, DbFields
  <2> HIDE DEF g, h, o, a
  <2>7. d \in Db /\ d.rct = db.rct /\ d.app = db.app
    BY <1>1, <2>6, <2>11 DEF Db
  <2>8. remove \in Calls /\ remove.op # "receive"
    BY <2>2, CallsHave DEF RemoveCall
  <2>9. next \in Calls /\ next.op # "receive"
    BY <1>2, <2>8
  <2>10. Then(r, d, next) /\ spent' \in [Memos -> Nat]
    BY <2>3, <2>5 DEF Typed
  <2> HIDE DEF d, next
  <2> QED BY <2>7, <2>9, <2>10, MemoKeeps
<1>5. CASE RemoveMemo(r)
  <2> DEFINE row == [NoMemo EXCEPT !.status = "gone"]
             h == [db.memo EXCEPT ![c.m] = row]
             d == [db EXCEPT !.memo = h]
  <2>1. c \in RemoveCall
    BY <1>1, <1>5, CallShapes DEF RemoveMemo, Serving
  <2>2. c.m \in Memos
    BY <2>1 DEF RemoveCall
  <2>3. Then(r, [db EXCEPT !.memo[c.m] = row], Done) /\ spent' = spent
    BY <1>5 DEF RemoveMemo, Commit
  <2> HIDE DEF c
  <2>4. row \in MemoRow
    BY DEF NoMemo, MemoRow, MemoFields, MemoStatus
  <2> HIDE DEF row
  <2>5. [db EXCEPT !.memo[c.m] = row] = d
    BY <1>1 DEF Db
  <2>8. h \in [Memos -> MemoRow]
    BY <1>1, <2>2, <2>4, DbFields
  <2> HIDE DEF h
  <2>6. d \in Db /\ d.rct = db.rct /\ d.app = db.app
    BY <1>1, <2>8 DEF Db
  <2>7. Then(r, d, Done) /\ spent' \in [Memos -> Nat]
    BY <2>3, <2>5 DEF Typed
  <2> HIDE DEF d
  <2> QED BY <1>2, <2>6, <2>7, MemoKeeps
<1> QED BY <1>3, <1>4, <1>5

LEMMA DropKeeps ==
  ASSUME Typed, ReceiptsSound, NEW r \in Requests, Drop(r)
  PROVE  Typed' /\ ReceiptsSound'
<1>1. /\ db' = db /\ req' = [req EXCEPT ![r] = Done] /\ spent' = spent /\ writes' = writes
      /\ apart' = apart
  BY DEF Drop
<1>2. Done \in Calls /\ Done.op # "receive"
  BY CallsHave DEF Done
<1>3. /\ db \in Db /\ SpentWithin(db) /\ HeldWhole(db) /\ writes' \in Nat /\ apart' \in BOOLEAN
      /\ spent' \in [Memos -> Nat]
  BY <1>1 DEF Typed, ReceiptsSound
<1> QED BY <1>1, <1>2, <1>3, ServeKeeps

LEMMA ReleaseKeeps ==
  ASSUME Typed, ReceiptsSound, ReleaseAdvance
  PROVE  Typed' /\ ReceiptsSound'
<1>1. PICK p \in Receipts : db' = [db EXCEPT !.rct[p].held = FALSE]
  BY DEF ReleaseAdvance, Kept
<1>2. req' = req /\ spent' = spent /\ writes' = writes /\ apart' = apart
  BY DEF ReleaseAdvance
<1>3. db \in Db /\ db.rct \in [Receipts -> RctRow] /\ SpentWithin(db) /\ HeldWhole(db)
  BY DbFields DEF Typed, ReceiptsSound
<1> DEFINE row == [db.rct[p] EXCEPT !.held = FALSE]
           f == [db.rct EXCEPT ![p] = row]
           d == [db EXCEPT !.rct = f]
<1>4. row \in RctRow /\ row.status = db.rct[p].status /\ row.amount = db.rct[p].amount /\ ~row.held
  BY <1>3 DEF RctRow, RctFields
<1>5. db' = d
  BY <1>1, <1>3 DEF Db
<1> HIDE DEF row
<1>6. f \in [Receipts -> RctRow] /\ f[p] = row /\ \A q \in Receipts : q # p => f[q] = db.rct[q]
  BY <1>3, <1>4
<1> HIDE DEF f
<1>7. d \in Db /\ d.rct = f /\ d.app = db.app
  BY <1>3, <1>6 DEF Db
<1> HIDE DEF d
<1>8. \A q : Used(d, q) = Used(db, q)
  BY <1>7, UsedIs
<1>9. SpentWithin(d) /\ HeldWhole(d)
  BY <1>3, <1>4, <1>6, <1>7, <1>8 DEF SpentWithin, HeldWhole
<1>10. Typed'
  BY <1>2, <1>5, <1>7 DEF Typed
<1>11. SpentWithin(db') /\ HeldWhole(db')
  BY <1>5, <1>9
<1> QED BY <1>2, <1>10, <1>11 DEF ReceiptsSound, SpentWithin, HeldWhole, Used
-----------------------------------------------------------------------------
(* Every request is served on well-formed rows, and no receipt is ever      *)
(* applied beyond its amount, or while a delivery holds it: from the row    *)
(* locks of applyInTransaction and what is read under them, whatever        *)
(* requests overlap.                                                        *)
LEMMA InitSound ==
  ASSUME Init
  PROVE  Typed /\ ReceiptsSound
<1>1. db.inv \in [Invoices -> InvRow] /\ db.sale \in [Invoices -> PaidStatus]
  BY NoInvoiceRow DEF Init, PaidStatus
<1>2. NoReceipt \in RctRow /\ NoReceipt.status # "kept" /\ ~NoReceipt.held
  BY DEF NoReceipt, RctRow, RctFields
<1>3. NotApplied \in Shares /\ NoMemo \in MemoRow
  BY DEF NotApplied, Shares, NoMemo, MemoRow, MemoFields, MemoStatus
<1>4. /\ db.rct \in [Receipts -> RctRow] /\ db.app \in [Receipts -> Shares]
      /\ db.memo \in [Memos -> MemoRow]
      /\ \A p \in Receipts : db.rct[p] = NoReceipt
  BY <1>2, <1>3 DEF Init
<1>5. db.refund \in [Memos -> Int] /\ db.book \in [Documents -> BookRow]
  BY DEF Init, BookRow
<1>6. db \in Db
  BY <1>1, <1>4, <1>5 DEF Init, Db
<1>7. Done \in Calls /\ Done.op # "receive"
  BY CallsHave DEF Done
<1>8. \A r \in Requests : req[r] = Done
  BY DEF Init, Done
<1>9. req \in [Requests -> Calls]
  BY <1>7 DEF Init, Done
<1>10. spent \in [Memos -> Nat] /\ writes \in Nat /\ apart \in BOOLEAN
  BY DEF Init
<1>11. SpentWithin(db) /\ HeldWhole(db)
  BY <1>2, <1>4 DEF SpentWithin, HeldWhole
<1> QED BY <1>6, <1>7, <1>8, <1>9, <1>10, <1>11 DEF Typed, ReceiptsSound

LEMMA StepSound ==
  ASSUME Typed, ReceiptsSound, [Next]_vars
  PROVE  Typed' /\ ReceiptsSound'
<1>1. ASSUME NEW r \in Requests, AskStep(r)
      PROVE  Typed' /\ ReceiptsSound'
  BY <1>1, AskInvoices, AskReceipts, AskSales, AskMemos DEF AskStep
<1>2. ASSUME NEW r \in Requests, ServeStep(r)
      PROVE  Typed' /\ ReceiptsSound'
  BY <1>2, ServeInvoices, ServeReceipts, ServeDeleteReceipt, ServeSettle, ServeApproveSale,
     ServeMemo, ServeAbsorb, ServeCredit, ServeMemoEnd DEF ServeStep
<1>3. CASE UNCHANGED vars
  BY <1>3 DEF vars, Typed, ReceiptsSound, SpentWithin, HeldWhole, Used
<1> QED BY <1>1, <1>2, <1>3, DropKeeps, ReleaseKeeps DEF Next

THEOREM ReceiptsAlwaysSound == Spec => [](Typed /\ ReceiptsSound)
<1>1. Init => Typed /\ ReceiptsSound
  BY InitSound
<1>2. Typed /\ ReceiptsSound /\ [Next]_vars => Typed' /\ ReceiptsSound'
  BY StepSound
<1> QED BY <1>1, <1>2, PTL DEF Spec

(* Rows have their statuses, and an invoice's balance is its total less     *)
(* what is paid on it: save(entity) writes rows read earlier, but always    *)
(* whole ones.                                                              *)
THEOREM RowsAddUp == Spec => []TypeOK
<1>1. Typed => TypeOK
  <2> SUFFICES ASSUME Typed PROVE TypeOK
    OBVIOUS
  <2>1. /\ \A i \in Invoices : db.inv[i] \in InvRow /\ db.sale[i] \in PaidStatus
        /\ \A m \in Memos : db.memo[m] \in MemoRow
        /\ \A p \in Receipts : db.rct[p] \in RctRow
    BY DbFields DEF Typed
  <2> QED BY <2>1, InvRowFields DEF TypeOK, MemoRow, MemoFields, RctRow, RctFields
<1> QED BY <1>1, ReceiptsAlwaysSound, PTL
-----------------------------------------------------------------------------
(* What a credit memo pays. *)

LEMMA NotEnding ==
  ASSUME NEW c, c.op \notin {"refund", "voidMemo"}
  PROVE  \A m : ~Ending(c, m)
  BY DEF Ending

(* Rows as they were; a request that may now be about to end a memo has     *)
(* just read its row, while it could still be used.                         *)
LEMMA MemosUntouched ==
  ASSUME Typed, MemosSound, NEW r \in Requests, NEW c, req' = [req EXCEPT ![r] = c],
         db'.memo = db.memo, spent' = spent,
         \A m \in Memos : Ending(c, m) => /\ db.memo[m].status \in {"open", "applied", "closed"}
                                          /\ c.seen.total = db.memo[m].total
  PROVE  MemosSound'
<1>1. \A q \in Requests : req'[q] = IF q = r THEN c ELSE req[q]
  BY DEF Typed
<1>2. ASSUME NEW m \in Memos
      PROVE  Counted(db.memo[m], spent[m])' /\ Unused(m)' /\ \E T \in Nat : WorthAtMost(m, T)'
  <2>1. /\ Counted(db.memo[m], spent[m]) /\ Unused(m)
        /\ Ending(c, m) => /\ db.memo[m].status \in {"open", "applied", "closed"}
                           /\ c.seen.total = db.memo[m].total
    BY DEF MemosSound
  <2>2. PICK T \in Nat : WorthAtMost(m, T)
    BY DEF MemosSound
  <2>3. Counted(db.memo[m], spent[m])'
    BY <2>1 DEF Counted
  <2>4. Unused(m)'
    <3> SUFFICES ASSUME db.memo[m].status = "none"
                 PROVE  spent[m] = 0 /\ \A q \in Requests : ~Ending(req'[q], m)
      BY DEF Unused, Ending
    <3> QED BY <1>1, <2>1 DEF Unused
  <2>5. WorthAtMost(m, T)'
    <3>1. ASSUME NEW q \in Requests, Ending(req'[q], m)
          PROVE  req'[q].seen.total = T
      BY <1>1, <2>1, <2>2, <3>1 DEF WorthAtMost
    <3> QED BY <2>2, <3>1 DEF WorthAtMost, Ending
  <2> QED BY <2>3, <2>4, <2>5
<1> QED BY <1>2 DEF MemosSound

LEMMA QuietMemos ==
  ASSUME Typed, MemosSound, NEW r \in Requests, Quiet(r)
  PROVE  MemosSound'
<1>1. PICK c \in Calls : c.op \notin {"refund", "voidMemo"} /\ req' = [req EXCEPT ![r] = c]
  BY DEF Quiet
<1>2. \A m \in Memos : ~Ending(c, m)
  BY <1>1, NotEnding
<1> QED BY <1>1, <1>2, MemosUntouched DEF Quiet

(* One memo's row is written and its payments counted, by a request that    *)
(* is not about to end one; what remains to show is about that memo.        *)
LEMMA MemoChanged ==
  ASSUME Typed, MemosSound, NEW r \in Requests, NEW c, req' = [req EXCEPT ![r] = c],
         c.op \notin {"refund", "voidMemo"}, NEW m \in Memos, NEW row, NEW paid \in Nat,
         db'.memo = [db.memo EXCEPT ![m] = row], spent' = [spent EXCEPT ![m] = paid],
         row.status # "none", Counted(row, paid),
         NEW T \in Nat, WorthAtMost(m, T) \/ \A q \in Requests : ~Ending(req[q], m),
         paid <= T, row.status # "gone" => row.total = T
  PROVE  MemosSound'
<1>1. \A q \in Requests : req'[q] = IF q = r THEN c ELSE req[q]
  BY DEF Typed
<1>2. \A x \in Memos : ~Ending(c, x)
  BY NotEnding
<1>3. db.memo \in [Memos -> MemoRow] /\ spent \in [Memos -> Nat]
  BY DbFields DEF Typed
<1>4. ASSUME NEW x \in Memos, NEW q \in Requests, Ending(req'[q], x)
      PROVE  Ending(req[q], x) /\ req'[q] = req[q]
  BY <1>1, <1>2, <1>4
<1>5. ASSUME NEW x \in Memos, x # m
      PROVE  Counted(db.memo[x], spent[x])' /\ Unused(x)' /\ \E N \in Nat : WorthAtMost(x, N)'
  <2>1. db'.memo[x] = db.memo[x] /\ spent'[x] = spent[x]
    BY <1>3, <1>5
  <2>2. PICK N \in Nat : WorthAtMost(x, N)
    BY DEF MemosSound
  <2>3. Counted(db.memo[x], spent[x]) /\ Unused(x)
    BY DEF MemosSound
  <2>4. WorthAtMost(x, N)'
    <3>1. ASSUME NEW q \in Requests, Ending(req'[q], x)
          PROVE  req'[q].seen.total = N
      BY <1>4, <2>2, <3>1 DEF WorthAtMost
    <3> QED BY <2>1, <2>2, <3>1 DEF WorthAtMost, Ending
  <2>5. Unused(x)'
    <3> SUFFICES ASSUME db'.memo[x].status = "none"
                 PROVE  spent'[x] = 0 /\ \A q \in Requests : ~Ending(req'[q], x)
      BY DEF Unused, Ending
    <3> QED BY <1>4, <2>1, <2>3 DEF Unused
  <2>6. Counted(db.memo[x], spent[x])'
    BY <2>1, <2>3 DEF Counted
  <2> QED BY <2>4, <2>5, <2>6
<1>6. db'.memo[m] = row /\ spent'[m] = paid
  BY <1>3
<1>7. Counted(db.memo[m], spent[m])' /\ Unused(m)'
  BY <1>6 DEF Counted, Unused
<1>8. WorthAtMost(m, T)'
  <2>1. ASSUME NEW q \in Requests, Ending(req'[q], m)
        PROVE  req'[q].seen.total = T
    BY <1>4, <2>1 DEF WorthAtMost
  <2> QED BY <1>6, <2>1 DEF WorthAtMost, Ending
<1>9. \A x \in Memos : /\ Counted(db.memo[x], spent[x])'
                       /\ Unused(x)'
                       /\ \E N \in Nat : WorthAtMost(x, N)'
  BY <1>5, <1>7, <1>8
<1> QED BY <1>9 DEF MemosSound

(* applyInTransaction, under the memo's lock: what it pays is within what   *)
(* the row says is left, and the row says what was ever paid.               *)
LEMMA MemoCredited ==
  ASSUME Typed, MemosSound, NEW r \in Requests, NEW c, req' = [req EXCEPT ![r] = c],
         c.op \notin {"refund", "voidMemo"}, NEW m \in Memos, NEW a \in Nat,
         db.memo[m].status \in {"open", "applied"}, a <= db.memo[m].balance,
         db'.memo = [db.memo EXCEPT ![m] = WithCredit(db.memo[m], a)],
         spent' = [spent EXCEPT ![m] = @ + a]
  PROVE  MemosSound'
<1> DEFINE old == db.memo[m]
           row == WithCredit(old, a)
           paid == spent[m] + a
<1>1. old \in MemoFields /\ spent[m] \in Nat
  BY DbFields DEF Typed, MemoRow
<1>2. old.applied = spent[m] /\ old.balance = old.total - old.applied /\ old.total \in Nat
  BY <1>1 DEF MemosSound, Counted, MemoFields
<1>3. PICK T \in Nat : WorthAtMost(m, T)
  BY DEF MemosSound
<1>4. old.total = T /\ paid <= T
  BY <1>1, <1>2, <1>3 DEF WorthAtMost
<1>5. /\ row.applied = old.applied + a /\ row.balance = old.total - (old.applied + a)
      /\ row.status \in {"closed", "applied"} /\ row.total = old.total
  BY <1>1 DEF WithCredit, MemoFields
<1> HIDE DEF row
<1>6. Counted(row, paid)
  BY <1>1, <1>2, <1>5 DEF Counted
<1>7. row.status # "none" /\ row.total = T
  BY <1>4, <1>5
<1>8. spent' = [spent EXCEPT ![m] = paid] /\ db'.memo = [db.memo EXCEPT ![m] = row] /\ paid \in Nat
  BY <1>1 DEF Typed, row
<1> HIDE DEF paid
<1> QED BY <1>3, <1>4, <1>6, <1>7, <1>8, MemoChanged
LEMMA AskOther ==
  ASSUME Typed, MemosSound, NEW r \in Requests, NEW c, Ask(r, c),
         c.op \notin {"refund", "voidMemo"}
  PROVE  MemosSound'
<1>1. req' = [req EXCEPT ![r] = c] /\ db'.memo = db.memo /\ spent' = spent
  BY DEF Ask
<1>2. \A m \in Memos : ~Ending(c, m)
  BY NotEnding
<1> QED BY <1>1, <1>2, MemosUntouched

LEMMA AskMemosSound ==
  ASSUME Typed, MemosSound, NEW r \in Requests, AskStep(r)
  PROVE  MemosSound'
<1>1. ASSUME ~AskMemoEnd(r)
      PROVE  \E c : Ask(r, c) /\ c.op \notin {"refund", "voidMemo"}
  <2>1. CASE AskCreate(r)
    BY <2>1 DEF AskCreate
  <2>2. CASE AskInvoice(r)
    <3> DEFINE update(i, t) == [op |-> "update", i |-> i, t |-> t, seen |-> db.inv[i]]
               other(op, i) == [op |-> op, i |-> i, seen |-> db.inv[i]]
    <3>1. PICK i \in Invoices :
            \/ \E t \in Amounts : Ask(r, update(i, t))
            \/ Ask(r, other("send", i))
            \/ Ask(r, other("void", i))
            \/ Ask(r, other("delete", i))
      BY <2>2 DEF AskInvoice
    <3>2. /\ \A t : update(i, t).op = "update"
          /\ \A op : other(op, i).op = op
      OBVIOUS
    <3> HIDE DEF update, other
    <3> QED BY <3>1, <3>2
  <2>3. CASE AskReceive(r)
    BY <2>3 DEF AskReceive
  <2>4. CASE AskApply(r)
    BY <2>4 DEF AskApply
  <2>5. CASE AskDeleteReceipt(r)
    BY <2>5 DEF AskDeleteReceipt
  <2>6. CASE AskSettle(r)
    BY <2>6 DEF AskSettle
  <2>7. CASE AskApproveSale(r)
    BY <2>7 DEF AskApproveSale
  <2>8. CASE AskMemo(r)
    BY <2>8 DEF AskMemo
  <2>9. CASE AskCredit(r)
    BY <2>9 DEF AskCredit
  <2> QED BY <1>1, <2>1, <2>2, <2>3, <2>4, <2>5, <2>6, <2>7, <2>8, <2>9 DEF AskStep
<1>2. CASE AskMemoEnd(r)
  <2>0. PICK m \in Memos :
          \E c : /\ Ask(r, c) /\ c.m = m /\ c.seen = db.memo[m]
                /\ \/ db.memo[m].balance > 0
                   \/ db.memo[m].status \in {"open", "applied", "closed"}
    BY <1>2 DEF AskMemoEnd
  <2>1. PICK c : /\ Ask(r, c) /\ c.m = m /\ c.seen = db.memo[m]
                 /\ \/ db.memo[m].balance > 0
                    \/ db.memo[m].status \in {"open", "applied", "closed"}
    BY <2>0
  <2>2. db.memo[m] \in MemoRow
    BY DbFields DEF Typed
  <2>3. db.memo[m].status \in {"open", "applied", "closed"}
    BY <2>1, <2>2 DEF MemoRow
  <2>4. \A x \in Memos : Ending(c, x) => x = m
    BY <2>1 DEF Ending
  <2>5. req' = [req EXCEPT ![r] = c] /\ db'.memo = db.memo /\ spent' = spent
    BY <2>1 DEF Ask
  <2> QED BY <2>1, <2>3, <2>4, <2>5, MemosUntouched
<1> QED BY <1>1, <1>2, AskOther

LEMMA SettleMemosSound ==
  ASSUME Typed, MemosSound, NEW r \in Requests, Settle(r)
  PROVE  MemosSound'
<1> DEFINE c == req[r]
           alone == Alone(c.i, c.a)
           advanced == Applied(db, c.p, alone, c.owed)
           credited == Credited(advanced, c.m, c.i, c.b)
           al == AutoApply(credited, c.cash)
           received == Received(credited, c.q, c.cash, al, FALSE, credited.owed)
<1>1. c \in Calls /\ db \in Db /\ Amounts \subseteq Nat
  BY ReceivablesAssumption DEF Typed
<1>2. c \in SettleCall
  BY <1>1, CallShapes DEF Settle, Serving
<1>3. /\ c.p \in Receipts /\ c.m \in Memos /\ c.q \in Receipts /\ c.i \in Invoices
      /\ c.a \in Nat /\ c.b \in Nat /\ c.cash \in Nat /\ c.owed \in Int
  <2>1. /\ c.p \in Receipts /\ c.m \in Memos /\ c.q \in Receipts /\ c.i \in Invoices
        /\ c.a \in Amounts /\ c.b \in Amounts /\ c.cash \in Amounts \cup {0} /\ c.owed \in Int
    BY <1>2 DEF SettleCall
  <2> HIDE DEF c
  <2>2. Amounts \cup {0} \subseteq Nat
    BY <1>1
  <2> QED BY <1>1, <2>1, <2>2
<1>4. alone \in Alloc
  BY <1>3, AllocatedAlone
<1>5. /\ IF c.cash = 0 THEN db' = credited ELSE db' = received
      /\ req' = [req EXCEPT ![r] = Done] /\ spent' = [spent EXCEPT ![c.m] = @ + c.b]
      /\ advanced.memo[c.m].status \in {"open", "applied"} /\ c.b <= advanced.memo[c.m].balance
  BY DEF Settle, Then, MayCredit
<1> HIDE DEF alone, c
<1>6. /\ advanced \in Db /\ advanced.memo = db.memo /\ advanced.rct = db.rct
      /\ advanced.owed = c.owed - Allocated(alone)
      /\ WithLater(db.app[c.p], alone) \in Shares
      /\ advanced.app = [db.app EXCEPT ![c.p] = WithLater(db.app[c.p], alone)]
  BY <1>1, <1>3, <1>4, AppliedDb
<1> HIDE DEF advanced
<1>7. /\ credited \in Db /\ credited.rct = advanced.rct /\ credited.app = advanced.app
      /\ credited.owed = advanced.owed
      /\ credited.memo = [advanced.memo EXCEPT ![c.m] = WithCredit(advanced.memo[c.m], c.b)]
  BY <1>3, <1>6, CreditedDb
<1> HIDE DEF credited
<1>8. credited.owed \in Int /\ al \in Alloc
  BY <1>3, <1>7, DbFields, AutoApplyWithin
<1> HIDE DEF al
<1>9. received.memo = credited.memo
  <2>1. \A held \in BOOLEAN :
          Received(credited, c.q, c.cash, al, held, credited.owed).memo = credited.memo
    BY <1>3, <1>7, <1>8, ReceivedMemo
  <2> QED BY <2>1, Zenon
<1> HIDE DEF received
<1>10. db'.memo = [db.memo EXCEPT ![c.m] = WithCredit(db.memo[c.m], c.b)]
  BY <1>5, <1>6, <1>7, <1>9
<1>11. db.memo[c.m].status \in {"open", "applied"} /\ c.b <= db.memo[c.m].balance
  BY <1>5, <1>6
<1>12. Done.op \notin {"refund", "voidMemo"}
  BY DEF Done
<1> QED BY <1>3, <1>5, <1>10, <1>11, <1>12, MemoCredited

LEMMA ServeMemosSound ==
  ASSUME Typed, MemosSound, NEW r \in Requests,
         Memo(r) \/ Absorb(r) \/ Credit(r) \/ Refund(r) \/ VoidMemo(r) \/ RemoveMemo(r)
  PROVE  MemosSound'
<1> DEFINE c == req[r]
<1>1. c \in Calls /\ db \in Db /\ Amounts \subseteq Nat
  BY ReceivablesAssumption DEF Typed
<1>2. /\ db.memo \in [Memos -> MemoRow] /\ spent \in [Memos -> Nat]
  BY DbFields DEF Typed
<1>3. Done.op \notin {"refund", "voidMemo"}
  BY DEF Done
<1>4. CASE Memo(r)
  <2> DEFINE row == [status |-> "open", total |-> c.t, applied |-> 0, balance |-> c.t, of |-> c.S]
  <2>1. c \in MemoCall
    BY <1>1, <1>4, CallShapes DEF Memo, Serving
  <2>2. c.m \in Memos /\ c.t \in Amounts
    BY <2>1 DEF MemoCall
  <2> DEFINE absorb == [op |-> "absorb", m |-> c.m, left |-> c.t, S |-> c.S,
                        refund |-> c.refund]
             k == IF c.S = {} /\ ~c.refund THEN Done ELSE absorb
  <2>3. req' = [req EXCEPT ![r] = k] /\ k.op \notin {"refund", "voidMemo"}
    BY <1>3, <1>4 DEF Memo, Then
  <2> HIDE DEF k
  <2>4. db.memo[c.m].status = "none" /\ spent' = spent
    BY <1>4 DEF Memo
  <2>5. db'.memo = [db.memo EXCEPT ![c.m] = row]
    BY <1>1, <1>4 DEF Memo, Then, Db
  <2> HIDE DEF c
  <2>6. spent[c.m] = 0 /\ \A q \in Requests : ~Ending(req[q], c.m)
    BY <2>2, <2>4 DEF MemosSound, Unused
  <2>7. c.t \in Nat
    BY <1>1, <2>2
  <2>8. row.total = c.t /\ row.applied = 0 /\ row.balance = c.t /\ row.status = "open"
    OBVIOUS
  <2> HIDE DEF row
  <2>9. Counted(row, 0)
    BY <2>7, <2>8 DEF Counted
  <2>10. spent' = [spent EXCEPT ![c.m] = 0] /\ 0 <= c.t
    BY <1>2, <2>2, <2>4, <2>6, <2>7
  <2> QED BY <2>2, <2>3, <2>5, <2>6, <2>7, <2>8, <2>9, <2>10, MemoChanged
<1>5. CASE Absorb(r)
  <2>1. c \in AbsorbCall
    BY <1>1, <1>5, CallShapes DEF Absorb, Serving
  <2>2. c.m \in Memos /\ db.memo[c.m] \in MemoRow
    BY <1>2, <2>1 DEF AbsorbCall
  <2> DEFINE refund == [op |-> "refund", m |-> c.m, seen |-> db.memo[c.m]]
             a(i) == SmallerOf(c.left, db.inv[i].balance)
             credit(i) == [op |-> "credit", m |-> c.m, i |-> i, a |-> a(i), refund |-> c.refund]
  <2>6. \/ req' = [req EXCEPT ![r] = refund]
        \/ req' = [req EXCEPT ![r] = Done]
        \/ \E i \in c.S : req' = [req EXCEPT ![r] = credit(i)]
    BY <1>5 DEF Absorb
  <2>7. \A i : credit(i).op = "credit"
    OBVIOUS
  <2> HIDE DEF credit
  <2>3. PICK k : /\ req' = [req EXCEPT ![r] = k]
                 /\ k.op \notin {"refund", "voidMemo"} \/ k = refund
    BY <1>3, <2>6, <2>7
  <2>4. db'.memo = db.memo /\ spent' = spent
    BY <1>5 DEF Absorb
  <2>5. ASSUME NEW m \in Memos, Ending(k, m)
        PROVE  /\ db.memo[m].status \in {"open", "applied", "closed"}
               /\ k.seen.total = db.memo[m].total
    <3>1. k = refund /\ m = c.m /\ db.memo[m].balance > 0
      BY <2>3, <2>5 DEF Ending
    <3> QED BY <2>2, <3>1 DEF MemoRow
  <2> QED BY <2>3, <2>4, <2>5, MemosUntouched
<1>6. CASE Credit(r)
  <2>1. c \in CreditCall
    BY <1>1, <1>6, CallShapes DEF Credit, Serving
  <2>2. /\ c.m \in Memos /\ c.i \in Invoices /\ c.a \in Int /\ c.a > 0
        /\ db.memo[c.m].status \in {"open", "applied"} /\ c.a <= db.memo[c.m].balance
    BY <1>6, <2>1 DEF CreditCall, Credit, MayCredit, MayPay
  <2> DEFINE now == Credited(db, c.m, c.i, c.a)
             absorb == [op |-> "absorb", m |-> c.m, left |-> now.memo[c.m].balance,
                        S |-> {}, refund |-> TRUE]
             k == IF c.refund THEN absorb ELSE Done
  <2>3. req' = [req EXCEPT ![r] = k] /\ k.op \notin {"refund", "voidMemo"}
    BY <1>3, <1>6 DEF Credit, Then
  <2> HIDE DEF k
  <2>4. db' = Credited(db, c.m, c.i, c.a) /\ spent' = [spent EXCEPT ![c.m] = @ + c.a]
    BY <1>6 DEF Credit, Then
  <2> HIDE DEF c
  <2>5. c.a \in Nat
    BY <2>2
  <2>6. /\ now \in Db /\ now.rct = db.rct /\ now.app = db.app /\ now.owed = db.owed
        /\ now.memo = [db.memo EXCEPT ![c.m] = WithCredit(db.memo[c.m], c.a)]
    BY <1>1, <2>2, <2>5, CreditedDb
  <2>7. db'.memo = [db.memo EXCEPT ![c.m] = WithCredit(db.memo[c.m], c.a)]
    BY <2>4, <2>6
  <2> QED BY <2>2, <2>3, <2>4, <2>5, <2>7, MemoCredited
<1>7. ASSUME NEW m \in Memos, NEW seen, seen \in MemoRow, NEW s \in {"refunded", "void"}, NEW k,
             Ending(c, m), c.seen = seen, k.op \notin {"refund", "voidMemo"},
             req' = [req EXCEPT ![r] = k], spent' = spent,
             db'.memo = [db.memo EXCEPT ![m] = [seen EXCEPT !.balance = 0, !.status = s]]
      PROVE  MemosSound'
  <2> DEFINE row == [seen EXCEPT !.balance = 0, !.status = s]
  <2>1. PICK T \in Nat : WorthAtMost(m, T)
    BY DEF MemosSound
  <2>2. spent[m] <= T /\ seen.total = T
    BY <1>7, <2>1 DEF WorthAtMost
  <2>3. row.total = seen.total /\ row.status = s
    BY <1>7 DEF MemoRow, MemoFields
  <2>4. db'.memo = [db.memo EXCEPT ![m] = row]
    BY <1>7
  <2> HIDE DEF row
  <2>5. Counted(row, spent[m]) /\ row.status # "none"
    BY <2>3 DEF Counted
  <2>6. spent' = [spent EXCEPT ![m] = spent[m]] /\ spent[m] \in Nat
    BY <1>2, <1>7
  <2> QED BY <1>7, <2>1, <2>2, <2>3, <2>4, <2>5, <2>6, MemoChanged
<1>8. CASE Refund(r)
  <2>1. c \in RefundCall /\ c.op = "refund"
    BY <1>1, <1>8, CallShapes DEF Refund, Serving
  <2>2. c.m \in Memos /\ c.seen \in MemoRow
    BY <2>1 DEF RefundCall
  <2>3. Ending(c, c.m)
    BY <1>8, <2>1 DEF Ending, Refund
  <2>4. req' = [req EXCEPT ![r] = Done] /\ spent' = spent
    BY <1>8 DEF Refund, Commit, Then
  <2>5. db'.memo = [db.memo EXCEPT ![c.m] = [c.seen EXCEPT !.balance = 0, !.status = "refunded"]]
    BY <1>1, <1>8 DEF Refund, Commit, Then, Db
  <2> QED BY <1>3, <1>7, <2>2, <2>3, <2>4, <2>5
<1>9. CASE VoidMemo(r)
  <2>1. c \in VoidCall /\ c.op = "voidMemo"
    BY <1>1, <1>9, CallShapes DEF VoidMemo, Serving
  <2>2. c.m \in Memos /\ c.seen \in MemoRow
    BY <2>1 DEF VoidCall
  <2>3. Ending(c, c.m)
    BY <2>1 DEF Ending
  <2> DEFINE remove == [op |-> "removeMemo", m |-> c.m]
             k == IF c.remove THEN remove ELSE Done
  <2>4. req' = [req EXCEPT ![r] = k] /\ k.op \notin {"refund", "voidMemo"}
    BY <1>3, <1>9 DEF VoidMemo, Then
  <2> HIDE DEF k
  <2>5. spent' = spent
    BY <1>9 DEF VoidMemo
  <2>6. db'.memo = [db.memo EXCEPT ![c.m] = [c.seen EXCEPT !.balance = 0, !.status = "void"]]
    BY <1>1, <1>9 DEF VoidMemo, Then, Db
  <2> QED BY <1>7, <2>2, <2>3, <2>4, <2>5, <2>6
<1>10. CASE RemoveMemo(r)
  <2> DEFINE row == [NoMemo EXCEPT !.status = "gone"]
  <2>1. c \in RemoveCall
    BY <1>1, <1>10, CallShapes DEF RemoveMemo, Serving
  <2>2. c.m \in Memos
    BY <2>1 DEF RemoveCall
  <2>3. req' = [req EXCEPT ![r] = Done] /\ spent' = spent
    BY <1>10 DEF RemoveMemo, Commit, Then
  <2>4. db'.memo = [db.memo EXCEPT ![c.m] = row]
    BY <1>1, <1>10 DEF RemoveMemo, Commit, Then, Db
  <2>5. row.status = "gone"
    BY DEF NoMemo
  <2> HIDE DEF row, c
  <2>6. PICK T \in Nat : WorthAtMost(c.m, T)
    BY <2>2 DEF MemosSound
  <2>7. Counted(row, spent[c.m])
    BY <2>5 DEF Counted
  <2>8. spent[c.m] <= T /\ spent[c.m] \in Nat /\ spent' = [spent EXCEPT ![c.m] = spent[c.m]]
    BY <1>2, <2>2, <2>3, <2>6 DEF WorthAtMost
  <2> QED BY <1>3, <2>2, <2>3, <2>4, <2>5, <2>6, <2>7, <2>8, MemoChanged
<1> QED BY <1>4, <1>5, <1>6, <1>8, <1>9, <1>10

LEMMA MemosStaySound ==
  ASSUME Typed, ReceiptsSound, MemosSound, [Next]_vars
  PROVE  MemosSound'
<1>1. ASSUME NEW r \in Requests, AskStep(r)
      PROVE  MemosSound'
  BY <1>1, AskMemosSound
<1>2. ASSUME NEW r \in Requests, ServeStep(r)
      PROVE  MemosSound'
  BY <1>2, ServeInvoices, ServeReceipts, ServeDeleteReceipt, ServeApproveSale, QuietMemos,
     SettleMemosSound, ServeMemosSound DEF ServeStep
<1>3. ASSUME NEW r \in Requests, Drop(r)
      PROVE  MemosSound'
  <2>1. req' = [req EXCEPT ![r] = Done] /\ db'.memo = db.memo /\ spent' = spent
    BY <1>3 DEF Drop
  <2>2. \A m \in Memos : ~Ending(Done, m)
    BY DEF Ending, Done
  <2> QED BY <2>1, <2>2, MemosUntouched
<1>4. CASE ReleaseAdvance
  <2>1. db'.memo = db.memo /\ req' = req /\ spent' = spent
    BY <1>4 DEF ReleaseAdvance, Typed, Db
  <2> QED BY <2>1 DEF MemosSound, Counted, Unused, WorthAtMost, Ending
<1>5. CASE UNCHANGED vars
  BY <1>5 DEF vars, MemosSound, Counted, Unused, WorthAtMost, Ending
<1> QED BY <1>1, <1>2, <1>3, <1>4, <1>5 DEF Next

LEMMA MemosAlwaysSound == Spec => []MemosSound
<1>1. Init => MemosSound
  <2> SUFFICES ASSUME Init PROVE MemosSound
    OBVIOUS
  <2>1. \A m \in Memos : db.memo[m].status = "none" /\ spent[m] = 0
    BY DEF Init, NoMemo
  <2>2. \A r \in Requests, m \in Memos : ~Ending(req[r], m)
    BY DEF Init, Ending
  <2>3. \A m \in Memos : Counted(db.memo[m], spent[m]) /\ Unused(m) /\ WorthAtMost(m, 0)
    BY <2>1, <2>2 DEF Counted, Unused, WorthAtMost
  <2> QED BY <2>3 DEF MemosSound
<1>2. Typed /\ ReceiptsSound /\ MemosSound /\ [Next]_vars => MemosSound'
  BY MemosStaySound
<1> QED BY <1>1, <1>2, ReceiptsAlwaysSound, PTL DEF Spec

-----------------------------------------------------------------------------
(* The books of the customer: what account 1100 and the running balance     *)
(* say, what the open documents say, and what receipts and memos say they   *)
(* paid.                                                                    *)

OpenBalance(row) == IF row.status \in OpenStatus THEN row.balance ELSE 0
LiveBalance(row) == IF row.status \in {"none", "void", "gone"} THEN 0 ELSE row.balance
Owes(d) == [i \in Invoices |-> OpenBalance(d.inv[i])]
Holds(d) == [m \in Memos |-> LiveBalance(d.memo[m])]
PaidOf(d) == [i \in Invoices |-> d.inv[i].paid]
UsedOf(d) == [p \in Receipts |-> Used(d, p)]
ShareOf(d, i) == [p \in Receipts |-> Taken(d.app[p])[i]]

(* An open invoice has posted, and one that neither is nor was open has not. *)
PostedOnce(row) ==
  /\ row.status \in OpenStatus => row.posted
  /\ row.status \notin OpenStatus \cup {"void"} => ~row.posted

(* s is what memos paid, ever.  No invoice says it was paid less than the   *)
(* receipts say they paid on it.                                            *)
Books(d, s) ==
  /\ d.owed = d.ar
  /\ d.ar = Sum(Owes(d), Invoices) - Sum(Holds(d), Memos)
  /\ Sum(PaidOf(d), Invoices) = Sum(UsedOf(d), Receipts) + s
  /\ \A i \in Invoices : /\ Sum(ShareOf(d, i), Receipts) <= d.inv[i].paid
                         /\ PostedOnce(d.inv[i])
  /\ \A p \in Receipts : d.rct[p].status # "kept" => d.app[p] = NotApplied

LEMMA FigureTypes ==
  ASSUME NEW d \in Db
  PROVE  /\ \A i \in Invoices : /\ Owes(d)[i] \in Int /\ PaidOf(d)[i] \in Int
                                /\ Owes(d)[i] = OpenBalance(d.inv[i])
                                /\ PaidOf(d)[i] = d.inv[i].paid
                                /\ d.inv[i].paid \in Nat
         /\ \A m \in Memos : Holds(d)[m] \in Int /\ Holds(d)[m] = LiveBalance(d.memo[m])
         /\ \A p \in Receipts : UsedOf(d)[p] \in Int /\ UsedOf(d)[p] = Used(d, p)
         /\ \A i \in Invoices, p \in Receipts :
              ShareOf(d, i)[p] = Taken(d.app[p])[i] /\ ShareOf(d, i)[p] \in Nat
<1>1. /\ d.inv \in [Invoices -> InvRow] /\ d.memo \in [Memos -> MemoRow]
      /\ d.app \in [Receipts -> Shares]
  BY DbFields
<1>2. \A i \in Invoices : d.inv[i].balance \in Int /\ d.inv[i].paid \in Nat
  BY <1>1, InvRowFields
<1>3. \A m \in Memos : d.memo[m].balance \in Int
  BY <1>1 DEF MemoRow, MemoFields
<1>4. \A p \in Receipts, i \in Invoices : Taken(d.app[p])[i] \in Nat
  BY <1>1 DEF Taken, Shares
<1>5. \A p \in Receipts : Used(d, p) \in Int
  BY UsedNat
<1>6. \A i \in Invoices : /\ Owes(d)[i] \in Int /\ PaidOf(d)[i] \in Int
                          /\ Owes(d)[i] = OpenBalance(d.inv[i])
                          /\ PaidOf(d)[i] = d.inv[i].paid
  BY <1>2 DEF Owes, PaidOf, OpenBalance
<1>7. \A m \in Memos : Holds(d)[m] \in Int /\ Holds(d)[m] = LiveBalance(d.memo[m])
  BY <1>3 DEF Holds, LiveBalance
<1>8. \A p \in Receipts : UsedOf(d)[p] \in Int /\ UsedOf(d)[p] = Used(d, p)
  BY <1>5 DEF UsedOf
<1>9. \A i \in Invoices, p \in Receipts :
        ShareOf(d, i)[p] = Taken(d.app[p])[i] /\ ShareOf(d, i)[p] \in Nat
  BY <1>4 DEF ShareOf
<1> QED BY <1>2, <1>6, <1>7, <1>8, <1>9

LEMMA FigureSums ==
  ASSUME NEW d \in Db
  PROVE  /\ Sum(Owes(d), Invoices) \in Int /\ Sum(PaidOf(d), Invoices) \in Int
         /\ Sum(Holds(d), Memos) \in Int /\ Sum(UsedOf(d), Receipts) \in Int
         /\ \A i \in Invoices : Sum(ShareOf(d, i), Receipts) \in Nat
<1>1. IsFiniteSet(Invoices) /\ IsFiniteSet(Receipts) /\ IsFiniteSet(Memos)
  BY ReceivablesAssumption
<1>2. Sum(Owes(d), Invoices) \in Int
  BY <1>1, FigureTypes, SumInt
<1>3. Sum(PaidOf(d), Invoices) \in Int
  BY <1>1, FigureTypes, SumInt
<1>4. Sum(Holds(d), Memos) \in Int
  BY <1>1, FigureTypes, SumInt
<1>5. Sum(UsedOf(d), Receipts) \in Int
  BY <1>1, FigureTypes, SumInt
<1>6. ASSUME NEW i \in Invoices
      PROVE  Sum(ShareOf(d, i), Receipts) \in Nat
  BY <1>1, FigureTypes, SumNat
<1> QED BY <1>2, <1>3, <1>4, <1>5, <1>6

(* e is d with al[i] more paid on each invoice, ...                         *)
PaidMore(d, e, al) ==
  \A i \in Invoices : /\ e.inv[i].paid = d.inv[i].paid + al[i]
                      /\ OpenBalance(d.inv[i]) = OpenBalance(e.inv[i]) + al[i]
                      /\ PostedOnce(d.inv[i]) <=> PostedOnce(e.inv[i])
(* ... and with al[i] more of receipt p applied to it.                      *)
SharesMore(d, e, p, al) ==
  /\ \A q \in Receipts \ {p} : e.app[q] = d.app[q]
  /\ \A i \in Invoices : Taken(e.app[p])[i] = Taken(d.app[p])[i] + al[i]

LEMMA PaidMoreSums ==
  ASSUME NEW d \in Db, NEW e \in Db, NEW al \in Alloc, PaidMore(d, e, al)
  PROVE  /\ Sum(Owes(d), Invoices) = Sum(Owes(e), Invoices) + Allocated(al)
         /\ Sum(PaidOf(e), Invoices) = Sum(PaidOf(d), Invoices) + Allocated(al)
<1>1. \A i \in Invoices : al[i] \in Int
  BY DEF Alloc
<1>2. \A i \in Invoices : /\ Owes(e)[i] \in Int /\ al[i] \in Int
                          /\ Owes(d)[i] = Owes(e)[i] + al[i]
  BY <1>1, FigureTypes DEF PaidMore
<1>3. \A i \in Invoices : /\ PaidOf(d)[i] \in Int /\ al[i] \in Int
                          /\ PaidOf(e)[i] = PaidOf(d)[i] + al[i]
  BY <1>1, FigureTypes DEF PaidMore
<1>4. Sum(Owes(d), Invoices) = Sum(Owes(e), Invoices) + Sum(al, Invoices)
  BY <1>2, SumPlus, ReceivablesAssumption
<1>5. Sum(PaidOf(e), Invoices) = Sum(PaidOf(d), Invoices) + Sum(al, Invoices)
  BY <1>3, SumPlus, ReceivablesAssumption
<1> QED BY <1>4, <1>5 DEF Allocated

LEMMA SharesMoreSums ==
  ASSUME NEW d \in Db, NEW e \in Db, NEW p \in Receipts, NEW al \in Alloc,
         SharesMore(d, e, p, al)
  PROVE  /\ Sum(UsedOf(e), Receipts) = Sum(UsedOf(d), Receipts) + Allocated(al)
         /\ \A i \in Invoices :
              Sum(ShareOf(e, i), Receipts) = Sum(ShareOf(d, i), Receipts) + al[i]
<1>1. IsFiniteSet(Invoices) /\ IsFiniteSet(Receipts)
  BY ReceivablesAssumption
<1>2. \A q \in Receipts \ {p} : UsedOf(e)[q] = UsedOf(d)[q]
  BY UsedSame, FigureTypes DEF SharesMore
<1>3. Used(e, p) = Used(d, p) + Allocated(al)
  <2> DEFINE f == Taken(d.app[p])
             h == Taken(e.app[p])
  <2>1. d.app[p] \in Shares
    BY DbFields
  <2>2. \A i \in Invoices : f[i] \in Int
    BY <2>1 DEF Taken, Shares
  <2>3. \A i \in Invoices : al[i] \in Int /\ h[i] = f[i] + al[i]
    BY DEF SharesMore, Alloc
  <2> HIDE DEF f, h
  <2>4. Sum(h, Invoices) = Sum(f, Invoices) + Sum(al, Invoices)
    BY <1>1, <2>2, <2>3, SumPlus
  <2> QED BY <2>4, UsedIs DEF f, h, Allocated
<1>4. Sum(UsedOf(e), Receipts) = Sum(UsedOf(d), Receipts) + Allocated(al)
  <2>1. \A q \in Receipts : UsedOf(d)[q] \in Int /\ UsedOf(e)[q] \in Int
    BY FigureTypes
  <2>2. Sum(UsedOf(e), Receipts) = Sum(UsedOf(d), Receipts) + UsedOf(e)[p] - UsedOf(d)[p]
    BY <1>1, <1>2, <2>1, SumChange
  <2>3. UsedOf(e)[p] = Used(d, p) + Allocated(al) /\ UsedOf(d)[p] = Used(d, p)
    BY <1>3, FigureTypes
  <2> QED BY <2>2, <2>3, FigureSums, UsedNat, AllocatedNat
<1>5. ASSUME NEW i \in Invoices
      PROVE  Sum(ShareOf(e, i), Receipts) = Sum(ShareOf(d, i), Receipts) + al[i]
  <2>1. \A q \in Receipts : ShareOf(d, i)[q] \in Int /\ ShareOf(e, i)[q] \in Int
    BY FigureTypes
  <2>2. \A q \in Receipts \ {p} : ShareOf(e, i)[q] = ShareOf(d, i)[q]
    BY FigureTypes DEF SharesMore
  <2>3. Sum(ShareOf(e, i), Receipts) =
          Sum(ShareOf(d, i), Receipts) + ShareOf(e, i)[p] - ShareOf(d, i)[p]
    BY <1>1, <2>1, <2>2, SumChange
  <2>4. /\ ShareOf(e, i)[p] = ShareOf(d, i)[p] + al[i]
        /\ ShareOf(d, i)[p] \in Int /\ al[i] \in Int
    BY FigureTypes DEF SharesMore, Alloc
  <2>5. Sum(ShareOf(d, i), Receipts) \in Int
    BY FigureSums
  <2> QED BY <2>3, <2>4, <2>5
<1> QED BY <1>4, <1>5

(* Money of a receipt paid on invoices, and taken back from them.           *)
LEMMA BooksPaid ==
  ASSUME NEW d \in Db, NEW e \in Db, NEW s \in Int, NEW p \in Receipts, NEW al \in Alloc,
         Books(d, s), PaidMore(d, e, al), SharesMore(d, e, p, al), e.memo = d.memo,
         e.ar = d.ar - Allocated(al), e.owed = d.owed - Allocated(al),
         \A q \in Receipts : e.rct[q].status # "kept" => e.app[q] = NotApplied
  PROVE  Books(e, s)
<1>1. Holds(e) = Holds(d)
  BY DEF Holds
<1>2. /\ Sum(Owes(e), Invoices) \in Int /\ Sum(Holds(d), Memos) \in Int
      /\ Sum(PaidOf(d), Invoices) \in Int /\ Sum(UsedOf(d), Receipts) \in Int
      /\ Allocated(al) \in Int
  BY FigureSums, AllocatedNat
<1>3. e.ar = Sum(Owes(e), Invoices) - Sum(Holds(e), Memos)
  BY <1>1, <1>2, PaidMoreSums DEF Books
<1>4. Sum(PaidOf(e), Invoices) = Sum(UsedOf(e), Receipts) + s
  BY <1>2, PaidMoreSums, SharesMoreSums DEF Books
<1>5. ASSUME NEW i \in Invoices
      PROVE  Sum(ShareOf(e, i), Receipts) <= e.inv[i].paid /\ PostedOnce(e.inv[i])
  <2>1. /\ Sum(ShareOf(d, i), Receipts) \in Int /\ d.inv[i].paid \in Int /\ al[i] \in Int
    BY FigureSums, FigureTypes DEF Alloc
  <2>2. /\ Sum(ShareOf(d, i), Receipts) <= d.inv[i].paid /\ PostedOnce(d.inv[i])
        /\ e.inv[i].paid = d.inv[i].paid + al[i]
        /\ Sum(ShareOf(e, i), Receipts) = Sum(ShareOf(d, i), Receipts) + al[i]
        /\ PostedOnce(e.inv[i])
    BY SharesMoreSums DEF Books, PaidMore
  <2> QED BY <2>1, <2>2
<1>6. e.owed = e.ar
  BY DEF Books
<1> QED BY <1>3, <1>4, <1>5, <1>6 DEF Books

LEMMA BooksUnpaid ==
  ASSUME NEW d \in Db, NEW e \in Db, NEW s \in Int, NEW p \in Receipts, NEW al \in Alloc,
         Books(d, s), PaidMore(e, d, al), SharesMore(e, d, p, al), e.memo = d.memo,
         e.ar = d.ar + Allocated(al), e.owed = d.owed + Allocated(al),
         \A q \in Receipts : e.rct[q].status # "kept" => e.app[q] = NotApplied
  PROVE  Books(e, s)
<1>1. Holds(e) = Holds(d)
  BY DEF Holds
<1>2. /\ Sum(Owes(d), Invoices) \in Int /\ Sum(Holds(d), Memos) \in Int
      /\ Sum(PaidOf(e), Invoices) \in Int /\ Sum(UsedOf(e), Receipts) \in Int
      /\ Allocated(al) \in Int
  BY FigureSums, AllocatedNat
<1>3. e.ar = Sum(Owes(e), Invoices) - Sum(Holds(e), Memos)
  BY <1>1, <1>2, PaidMoreSums DEF Books
<1>4. Sum(PaidOf(e), Invoices) = Sum(UsedOf(e), Receipts) + s
  BY <1>2, PaidMoreSums, SharesMoreSums DEF Books
<1>5. ASSUME NEW i \in Invoices
      PROVE  Sum(ShareOf(e, i), Receipts) <= e.inv[i].paid /\ PostedOnce(e.inv[i])
  <2>1. /\ Sum(ShareOf(e, i), Receipts) \in Int /\ e.inv[i].paid \in Int /\ al[i] \in Int
    BY FigureSums, FigureTypes DEF Alloc
  <2>2. /\ Sum(ShareOf(d, i), Receipts) <= d.inv[i].paid /\ PostedOnce(d.inv[i])
        /\ d.inv[i].paid = e.inv[i].paid + al[i]
        /\ Sum(ShareOf(d, i), Receipts) = Sum(ShareOf(e, i), Receipts) + al[i]
        /\ PostedOnce(e.inv[i])
    BY SharesMoreSums DEF Books, PaidMore
  <2> QED BY <2>1, <2>2
<1>6. e.owed = e.ar
  BY DEF Books
<1> QED BY <1>3, <1>4, <1>5, <1>6 DEF Books

LEMMA PaidByFigures ==
  ASSUME NEW row \in InvRow, row.status \in OpenStatus, NEW a \in Nat
  PROVE  LET now == PaidBy(row, a)
         IN /\ now.paid = row.paid + a
            /\ OpenBalance(row) = OpenBalance(now) + a
            /\ PostedOnce(row) <=> PostedOnce(now)
<1> DEFINE paid == row.paid + a
           left == row.total - paid
           s == IF paid >= row.total THEN "paid" ELSE "partial"
           now == [row EXCEPT !.paid = paid, !.balance = left, !.status = s]
<1>1. /\ row \in InvFields /\ row.paid \in Nat /\ row.total \in Nat
      /\ row.balance = row.total - row.paid
  BY InvRowFields DEF InvRow
<1>2. s \in OpenStatus /\ paid \in Int /\ left \in Int /\ row.balance = left + a
  BY <1>1 DEF OpenStatus
<1>3. PaidBy(row, a) = now
  BY DEF PaidBy
<1>4. paid = row.paid + a
  OBVIOUS
<1> HIDE DEF paid, left, s
<1>5. now.paid = paid /\ now.balance = left /\ now.status = s /\ now.posted = row.posted
  BY <1>1 DEF InvFields
<1> HIDE DEF now
<1>6. OpenBalance(row) = OpenBalance(now) + a
  BY <1>2, <1>5 DEF OpenBalance
<1>7. PostedOnce(row) <=> PostedOnce(now)
  BY <1>2, <1>5 DEF PostedOnce
<1> QED BY <1>3, <1>4, <1>5, <1>6, <1>7

LEMMA ReopenedFigures ==
  ASSUME NEW row \in InvRow, row.status \in OpenStatus, NEW a \in Nat, a <= row.paid
  PROVE  LET now == Reopened(row, a)
         IN /\ row.paid = now.paid + a
            /\ OpenBalance(now) = OpenBalance(row) + a
            /\ PostedOnce(row) <=> PostedOnce(now)
<1> DEFINE paid == Above0(row.paid - a)
           left == row.total - paid
           s == IF paid >= row.total THEN "paid" ELSE IF paid > 0 THEN "partial" ELSE "sent"
           now == [row EXCEPT !.paid = paid, !.balance = left, !.status = s]
<1>1. /\ row \in InvFields /\ row.paid \in Nat /\ row.total \in Nat
      /\ row.balance = row.total - row.paid
  BY InvRowFields DEF InvRow
<1>2. paid \in Int /\ row.paid = paid + a
  BY <1>1 DEF Above0
<1>3. s \in OpenStatus
  BY DEF OpenStatus
<1>4. Reopened(row, a) = now
  BY DEF Reopened
<1> HIDE DEF paid, s
<1>5. left \in Int /\ left = row.balance + a
  BY <1>1, <1>2
<1> HIDE DEF left
<1>6. now.paid = paid /\ now.balance = left /\ now.status = s /\ now.posted = row.posted
  BY <1>1 DEF InvFields
<1> HIDE DEF now
<1>7. OpenBalance(now) = OpenBalance(row) + a
  BY <1>3, <1>5, <1>6 DEF OpenBalance
<1>8. PostedOnce(row) <=> PostedOnce(now)
  BY <1>3, <1>6 DEF PostedOnce
<1> QED BY <1>2, <1>4, <1>6, <1>7, <1>8

LEMMA PaidAllMore ==
  ASSUME NEW d \in Db, NEW al \in Alloc, MayPayAll(d, al)
  PROVE  PaidMore(d, PaidAll(d, al), al)
<1> DEFINE e == PaidAll(d, al)
<1>1. e.inv = [i \in Invoices |-> IF al[i] > 0 THEN PaidBy(d.inv[i], al[i]) ELSE d.inv[i]]
  BY DEF PaidAll, Refreshed, Db
<1>2. d.inv \in [Invoices -> InvRow]
  BY DbFields
<1> HIDE DEF e
<1>3. ASSUME NEW i \in Invoices
      PROVE  /\ e.inv[i].paid = d.inv[i].paid + al[i]
             /\ OpenBalance(d.inv[i]) = OpenBalance(e.inv[i]) + al[i]
             /\ PostedOnce(d.inv[i]) <=> PostedOnce(e.inv[i])
  <2>1. d.inv[i] \in InvRow /\ al[i] \in Nat
    BY <1>2 DEF Alloc
  <2>2. CASE al[i] > 0
    <3>1. d.inv[i].status \in OpenStatus /\ e.inv[i] = PaidBy(d.inv[i], al[i])
      BY <1>1, <2>2 DEF MayPayAll, MayPay
    <3> QED BY <2>1, <3>1, PaidByFigures
  <2>3. CASE ~(al[i] > 0)
    <3>1. al[i] = 0 /\ e.inv[i] = d.inv[i]
      BY <1>1, <2>1, <2>3
    <3>2. d.inv[i].paid \in Int /\ OpenBalance(d.inv[i]) \in Int
      BY <2>1, InvRowFields DEF OpenBalance
    <3> QED BY <3>1, <3>2
  <2> QED BY <2>2, <2>3
<1> QED BY <1>3 DEF PaidMore, e

LEMMA ReceivedBooks ==
  ASSUME NEW d \in Db, NEW s \in Int, Books(d, s), NEW p \in Receipts,
         d.rct[p].status # "kept", NEW amount \in Nat, NEW al \in Alloc, MayPayAll(d, al),
         NEW held \in BOOLEAN
  PROVE  LET e == Received(d, p, amount, al, held, d.owed) IN Books(e, s)
<1> DEFINE c == PaidAll(d, al)
           e == Received(d, p, amount, al, held, d.owed)
           row == ReceivedRow(amount, held)
           share == ReceivedShare(al)
<1>1. /\ e \in Db /\ e.memo = d.memo
      /\ e.rct = [d.rct EXCEPT ![p] = row] /\ e.app = [d.app EXCEPT ![p] = share]
  <2> DEFINE o == d.owed
  <2>1. o \in Int
    BY DbFields
  <2> HIDE DEF o, row, share
  <2>2. LET x == Received(d, p, amount, al, held, o)
        IN /\ x \in Db /\ x.memo = d.memo
           /\ x.rct = [d.rct EXCEPT ![p] = row] /\ x.app = [d.app EXCEPT ![p] = share]
    BY <2>1, ReceivedDb DEF row, share
  <2> QED BY <2>2 DEF o
<1>2. c \in Db /\ SameBut(d, c) /\ PaidMore(d, c, al)
  BY PaidAllDb, PaidAllMore
<1>3. e.inv = c.inv /\ e.owed = d.owed - Allocated(al) /\ e.ar = c.ar - Allocated(al)
  <2> HIDE DEF c
  <2> QED BY <1>2 DEF Received, Db, c
<1>4. /\ d.rct \in [Receipts -> RctRow] /\ d.app \in [Receipts -> Shares]
      /\ d.app[p] = NotApplied
  BY DbFields DEF Books
<1>5. row.status = "kept"
  BY DEF ReceivedRow
<1>6. \A i \in Invoices : /\ share[i].at + share[i].later = al[i]
                          /\ al[i] = Taken(NotApplied)[i] + al[i]
  BY DEF Alloc, Taken, NotApplied, ReceivedShare
<1>7. \A i \in Invoices : Taken(share)[i] = Taken(d.app[p])[i] + al[i]
  BY <1>4, <1>6 DEF Taken
<1> HIDE DEF c, e, row, share
<1>8. PaidMore(d, e, al)
  BY <1>2, <1>3 DEF PaidMore
<1>9. SharesMore(d, e, p, al)
  BY <1>1, <1>4, <1>7 DEF SharesMore
<1>10. e.ar = d.ar - Allocated(al)
  BY <1>2, <1>3 DEF SameBut
<1>11. \A q \in Receipts : e.rct[q].status # "kept" => e.app[q] = NotApplied
  BY <1>1, <1>4, <1>5 DEF Books
<1>12. Books(e, s)
  BY <1>1, <1>3, <1>8, <1>9, <1>10, <1>11, BooksPaid
<1> QED BY <1>12 DEF e

LEMMA AppliedBooks ==
  ASSUME NEW d \in Db, NEW s \in Int, Books(d, s), NEW p \in Receipts,
         d.rct[p].status = "kept", NEW al \in Alloc, MayPayAll(d, al)
  PROVE  LET e == Applied(d, p, al, d.owed) IN Books(e, s)
<1> DEFINE c == PaidAll(d, al)
           e == Applied(d, p, al, d.owed)
           share == WithLater(d.app[p], al)
<1>1. /\ e \in Db /\ e.memo = d.memo /\ e.rct = d.rct /\ e.owed = d.owed - Allocated(al)
      /\ e.app = [d.app EXCEPT ![p] = share]
  <2> DEFINE o == d.owed
  <2>1. o \in Int
    BY DbFields
  <2> HIDE DEF o
  <2>2. LET x == Applied(d, p, al, o)
        IN /\ x \in Db /\ x.memo = d.memo /\ x.rct = d.rct /\ x.owed = o - Allocated(al)
           /\ x.app = [d.app EXCEPT ![p] = WithLater(d.app[p], al)]
    BY <2>1, AppliedDb
  <2> QED BY <2>2 DEF o
<1>2. c \in Db /\ SameBut(d, c) /\ PaidMore(d, c, al)
  BY PaidAllDb, PaidAllMore
<1>3. e.inv = c.inv /\ e.ar = c.ar - Allocated(al)
  <2> HIDE DEF c
  <2> QED BY <1>2 DEF Applied, Db, c
<1>4. d.app \in [Receipts -> Shares] /\ d.app[p] \in Shares
  BY DbFields
<1>5. \A i \in Invoices : Taken(share)[i] = Taken(d.app[p])[i] + al[i]
  BY <1>4 DEF Taken, Shares, Alloc, WithLater
<1> HIDE DEF c, e, share
<1>6. PaidMore(d, e, al)
  BY <1>2, <1>3 DEF PaidMore
<1>7. SharesMore(d, e, p, al)
  BY <1>1, <1>4, <1>5 DEF SharesMore
<1>8. e.ar = d.ar - Allocated(al)
  BY <1>2, <1>3 DEF SameBut
<1>9. \A q \in Receipts : e.rct[q].status # "kept" => e.app[q] = NotApplied
  BY <1>1, <1>4 DEF Books
<1>10. Books(e, s)
  BY <1>1, <1>6, <1>7, <1>8, <1>9, BooksPaid
<1> QED BY <1>10 DEF e

LEMMA CreditedBooks ==
  ASSUME NEW d \in Db, NEW s \in Int, Books(d, s), NEW m \in Memos, NEW i \in Invoices,
         NEW a \in Nat, MayCredit(d, m, i, a), Counted(d.memo[m], d.memo[m].applied)
  PROVE  LET e == Credited(d, m, i, a) IN Books(e, s + a)
<1> DEFINE e == Credited(d, m, i, a)
           al == Alone(i, a)
           row == d.memo[m]
           now == WithCredit(row, a)
<1>1. /\ e \in Db /\ e.rct = d.rct /\ e.app = d.app /\ e.owed = d.owed
      /\ e.memo = [d.memo EXCEPT ![m] = now]
  BY CreditedDb
<1>2. e.inv = [d.inv EXCEPT ![i] = PaidBy(@, a)] /\ e.ar = d.ar
  BY DEF Credited, Db
<1>3. /\ d.inv \in [Invoices -> InvRow] /\ d.memo \in [Memos -> MemoRow] /\ row \in MemoRow
  BY DbFields
<1>4. al \in Alloc /\ Allocated(al) = a /\ al[i] = a /\ \A j \in Invoices \ {i} : al[j] = 0
  BY AllocatedAlone DEF Alone
<1>5. LiveBalance(row) = LiveBalance(now) + a /\ LiveBalance(now) \in Int
  <2> DEFINE left == row.total - (row.applied + a)
             st == IF left <= 0 THEN "closed" ELSE "applied"
             ap == row.applied + a
  <2>1. row \in MemoFields /\ row.total \in Int /\ row.applied \in Int
    BY <1>3 DEF MemoRow, MemoFields
  <2>2. row.status \in {"open", "applied"} /\ row.balance = row.total - row.applied
    BY DEF MayCredit, Counted
  <2>3. left \in Int /\ row.balance = left + a /\ st \in {"closed", "applied"}
    BY <2>1, <2>2
  <2>4. now = [row EXCEPT !.applied = ap, !.balance = left, !.status = st]
    BY DEF WithCredit
  <2> HIDE DEF left, st, ap
  <2>5. now.balance = left /\ now.status = st
    BY <2>1, <2>4 DEF MemoFields
  <2> QED BY <2>2, <2>3, <2>5 DEF LiveBalance
<1> HIDE DEF e, al, now, row
<1>6. PaidMore(d, e, al)
  <2>1. d.inv[i] \in InvRow /\ d.inv[i].status \in OpenStatus /\ e.inv[i] = PaidBy(d.inv[i], a)
    BY <1>2, <1>3 DEF MayCredit, MayPay
  <2>2. /\ e.inv[i].paid = d.inv[i].paid + a
        /\ OpenBalance(d.inv[i]) = OpenBalance(e.inv[i]) + a
        /\ PostedOnce(d.inv[i]) <=> PostedOnce(e.inv[i])
    BY <2>1, PaidByFigures
  <2>3. \A j \in Invoices \ {i} : /\ e.inv[j] = d.inv[j] /\ d.inv[j].paid \in Int
                                  /\ OpenBalance(d.inv[j]) \in Int
    BY <1>2, <1>3, InvRowFields DEF OpenBalance
  <2>4. \A j \in Invoices \ {i} : /\ e.inv[j].paid = d.inv[j].paid + al[j]
                                  /\ OpenBalance(d.inv[j]) = OpenBalance(e.inv[j]) + al[j]
                                  /\ PostedOnce(d.inv[j]) <=> PostedOnce(e.inv[j])
    BY <1>4, <2>3
  <2> QED BY <1>4, <2>2, <2>4 DEF PaidMore
<1>7. Sum(Holds(d), Memos) = Sum(Holds(e), Memos) + a
  <2>1. \A x \in Memos : Holds(d)[x] \in Int /\ Holds(e)[x] \in Int
    BY <1>1, FigureTypes
  <2>2. \A x \in Memos \ {m} : Holds(e)[x] = Holds(d)[x]
    BY <1>1, <1>3, FigureTypes
  <2>3. Sum(Holds(e), Memos) = Sum(Holds(d), Memos) + Holds(e)[m] - Holds(d)[m]
    BY <2>1, <2>2, SumChange, ReceivablesAssumption
  <2>4. Holds(e)[m] = LiveBalance(now) /\ Holds(d)[m] = LiveBalance(row)
    BY <1>1, <1>3, FigureTypes DEF row
  <2>5. Sum(Holds(d), Memos) \in Int /\ Sum(Holds(e), Memos) \in Int
    BY <1>1, FigureSums
  <2> QED BY <1>5, <2>3, <2>4, <2>5
<1>8. /\ Sum(Owes(e), Invoices) \in Int /\ Sum(Holds(e), Memos) \in Int
      /\ Sum(PaidOf(d), Invoices) \in Int /\ Sum(UsedOf(d), Receipts) \in Int
  BY <1>1, FigureSums
<1>9. e.ar = Sum(Owes(e), Invoices) - Sum(Holds(e), Memos)
  BY <1>1, <1>2, <1>4, <1>6, <1>7, <1>8, PaidMoreSums DEF Books
<1>10. UsedOf(e) = UsedOf(d)
  BY <1>1, UsedSame DEF UsedOf
<1>11. Sum(PaidOf(e), Invoices) = Sum(UsedOf(e), Receipts) + (s + a)
  BY <1>1, <1>4, <1>6, <1>8, <1>10, PaidMoreSums DEF Books
<1>12. ASSUME NEW j \in Invoices
       PROVE  Sum(ShareOf(e, j), Receipts) <= e.inv[j].paid /\ PostedOnce(e.inv[j])
  <2>1. ShareOf(e, j) = ShareOf(d, j)
    BY <1>1 DEF ShareOf
  <2>2. /\ Sum(ShareOf(d, j), Receipts) \in Int /\ d.inv[j].paid \in Int /\ al[j] \in Nat
    BY <1>4, FigureSums, FigureTypes DEF Alloc
  <2> QED BY <1>6, <2>1, <2>2 DEF Books, PaidMore
<1>13. Books(e, s + a)
  BY <1>1, <1>2, <1>9, <1>11, <1>12 DEF Books
<1> QED BY <1>13 DEF e

(* One invoice's row replaced by another that was paid as much, ...         *)
LEMMA InvoiceBooks ==
  ASSUME NEW d \in Db, NEW e \in Db, NEW s \in Int, Books(d, s), NEW i \in Invoices,
         NEW row \in InvRow, e.inv = [d.inv EXCEPT ![i] = row], row.paid = d.inv[i].paid,
         PostedOnce(row), e.app = d.app, e.memo = d.memo, e.rct = d.rct, e.owed = e.ar,
         e.ar = d.ar + OpenBalance(row) - OpenBalance(d.inv[i])
  PROVE  Books(e, s)
<1>1. d.inv \in [Invoices -> InvRow] /\ d.ar \in Int
  BY DbFields
<1>2. e.inv[i] = row /\ \A j \in Invoices \ {i} : e.inv[j] = d.inv[j]
  BY <1>1
<1>3. Sum(Owes(e), Invoices) =
        Sum(Owes(d), Invoices) + OpenBalance(row) - OpenBalance(d.inv[i])
  <2>1. \A j \in Invoices : Owes(d)[j] \in Int /\ Owes(e)[j] \in Int
    BY FigureTypes
  <2>2. \A j \in Invoices \ {i} : Owes(e)[j] = Owes(d)[j]
    <3>1. \A j \in Invoices : /\ Owes(d)[j] = OpenBalance(d.inv[j])
                          /\ Owes(e)[j] = OpenBalance(e.inv[j])
      BY DEF Owes
    <3> QED BY ONLY <1>2, <3>1
  <2>3. Sum(Owes(e), Invoices) = Sum(Owes(d), Invoices) + Owes(e)[i] - Owes(d)[i]
    BY <2>1, <2>2, SumChange, ReceivablesAssumption
  <2> QED BY <1>2, <2>3, FigureTypes
<1>4. /\ Sum(Owes(d), Invoices) \in Int /\ Sum(Holds(d), Memos) \in Int
      /\ OpenBalance(row) \in Int /\ OpenBalance(d.inv[i]) \in Int
  BY <1>1, FigureSums, InvRowFields DEF OpenBalance
<1>5. Holds(e) = Holds(d)
  BY DEF Holds
<1>6. e.ar = Sum(Owes(e), Invoices) - Sum(Holds(e), Memos)
  BY <1>1, <1>3, <1>4, <1>5 DEF Books
<1>7. \A j \in Invoices : e.inv[j].paid = d.inv[j].paid
  BY <1>2
<1>8. Sum(PaidOf(e), Invoices) = Sum(UsedOf(e), Receipts) + s
  <2>1. PaidOf(e) = PaidOf(d)
    BY <1>7 DEF PaidOf
  <2>2. UsedOf(e) = UsedOf(d)
    BY UsedSame DEF UsedOf
  <2> QED BY <2>1, <2>2 DEF Books
<1>9. ASSUME NEW j \in Invoices
      PROVE  Sum(ShareOf(e, j), Receipts) <= e.inv[j].paid /\ PostedOnce(e.inv[j])
  <2>1. ShareOf(e, j) = ShareOf(d, j)
    BY DEF ShareOf
  <2> QED BY <1>2, <1>7, <2>1 DEF Books
<1> QED BY <1>6, <1>8, <1>9 DEF Books

(* ... one memo's row replaced, ...                                         *)
LEMMA MemoBooks ==
  ASSUME NEW d \in Db, NEW e \in Db, NEW s \in Int, Books(d, s), NEW m \in Memos,
         NEW row \in MemoRow, e.memo = [d.memo EXCEPT ![m] = row], e.inv = d.inv,
         e.app = d.app, e.rct = d.rct, e.owed = e.ar,
         e.ar = d.ar - LiveBalance(row) + LiveBalance(d.memo[m])
  PROVE  Books(e, s)
<1>1. d.memo \in [Memos -> MemoRow] /\ d.ar \in Int
  BY DbFields
<1>2. e.memo[m] = row /\ \A j \in Memos \ {m} : e.memo[j] = d.memo[j]
  BY <1>1
<1>3. Sum(Holds(e), Memos) =
        Sum(Holds(d), Memos) + LiveBalance(row) - LiveBalance(d.memo[m])
  <2>1. \A j \in Memos : Holds(d)[j] \in Int /\ Holds(e)[j] \in Int
    BY FigureTypes
  <2>2. \A j \in Memos \ {m} : Holds(e)[j] = Holds(d)[j]
    <3>1. \A j \in Memos : /\ Holds(d)[j] = LiveBalance(d.memo[j])
                          /\ Holds(e)[j] = LiveBalance(e.memo[j])
      BY DEF Holds
    <3> QED BY ONLY <1>2, <3>1
  <2>3. Sum(Holds(e), Memos) = Sum(Holds(d), Memos) + Holds(e)[m] - Holds(d)[m]
    BY <2>1, <2>2, SumChange, ReceivablesAssumption
  <2> QED BY <1>2, <2>3, FigureTypes
<1>4. /\ Sum(Owes(d), Invoices) \in Int /\ Sum(Holds(d), Memos) \in Int
      /\ LiveBalance(row) \in Int /\ LiveBalance(d.memo[m]) \in Int
  BY <1>1, FigureSums DEF LiveBalance, MemoRow, MemoFields
<1>5. Owes(e) = Owes(d) /\ PaidOf(e) = PaidOf(d)
  BY DEF Owes, PaidOf
<1>6. e.ar = Sum(Owes(e), Invoices) - Sum(Holds(e), Memos)
  BY <1>1, <1>3, <1>4, <1>5 DEF Books
<1>7. UsedOf(e) = UsedOf(d) /\ \A j : ShareOf(e, j) = ShareOf(d, j)
  BY UsedSame DEF UsedOf, ShareOf
<1> QED BY <1>5, <1>6, <1>7 DEF Books

(* ... or nothing changed that the books are about.                         *)
LEMMA SameBooks ==
  ASSUME NEW d, NEW e, NEW s, Books(d, s), e.inv = d.inv, e.app = d.app, e.memo = d.memo,
         e.owed = d.owed, e.ar = d.ar,
         \A p \in Receipts : e.rct[p].status = d.rct[p].status
  PROVE  Books(e, s)
<1>1. UsedOf(e) = UsedOf(d) /\ \A j : ShareOf(e, j) = ShareOf(d, j)
  BY UsedSame DEF UsedOf, ShareOf
<1>2. Owes(e) = Owes(d) /\ PaidOf(e) = PaidOf(d) /\ Holds(e) = Holds(d)
  BY DEF Owes, PaidOf, Holds
<1> QED BY <1>1, <1>2 DEF Books

-----------------------------------------------------------------------------
(* While requests never overlap, what a request has read is still so when   *)
(* it is served.                                                            *)
Fresh(c, d) ==
  /\ c.op \in {"create", "receive", "apply", "settle", "approveSale", "memo"} => c.owed = d.owed
  /\ c.op \in {"update", "send", "void", "delete"} => c.seen = d.inv[c.i]
  /\ c.op = "void" => c.seen.status # "void"
  /\ c.op = "deleteReceipt" =>
       /\ d.rct[c.p].status = "kept" /\ c.amount = d.rct[c.p].amount
       /\ c.app = d.app[c.p] /\ c.owed = d.owed
  /\ c.op \in {"refund", "voidMemo"} => c.seen = d.memo[c.m]
  /\ c.op = "voidMemo" => c.seen.status \in {"open", "applied", "closed"} /\ c.seen.applied = 0
  /\ c.op = "removeMemo" => d.memo[c.m].status = "void"
OthersIdle(r) == \A q \in Requests \ {r} : Idle(q)
OneAtATime ==
  apart => /\ \A r \in Requests : Fresh(req[r], db)
           /\ \A q, r \in Requests : q # r => Idle(q) \/ Idle(r)
Paid == Sum(spent, Memos)
Tied == apart => Books(db, Paid)

LEMMA FreshCalls ==
  ASSUME NEW c, c.op \in {"idle", "absorb", "credit"}, NEW d
  PROVE  Fresh(c, d)
  BY DEF Fresh

LEMMA StaysOneAtATime ==
  ASSUME Typed, NEW r \in Requests, NEW c \in Calls, req' = [req EXCEPT ![r] = c],
         apart' => OthersIdle(r) /\ Fresh(c, db')
  PROVE  OneAtATime'
<1>1. \A q \in Requests : req'[q] = IF q = r THEN c ELSE req[q]
  BY DEF Typed
<1> SUFFICES ASSUME apart'
             PROVE  /\ \A q \in Requests : Fresh(req'[q], db')
                    /\ \A p, q \in Requests : p # q => req'[p].op = "idle" \/ req'[q].op = "idle"
  BY DEF OneAtATime, Idle
<1>2. \A q \in Requests \ {r} : req'[q].op = "idle"
  BY <1>1 DEF OthersIdle, Idle
<1>3. \A q \in Requests : Fresh(req'[q], db')
  BY <1>1, <1>2, FreshCalls
<1> QED BY <1>2, <1>3

LEMMA AskTied ==
  ASSUME Typed, Typed', OneAtATime, Tied, NEW r \in Requests, NEW c, Ask(r, c), Fresh(c, db)
  PROVE  OneAtATime' /\ Tied'
<1>1. /\ db' = db /\ spent' = spent /\ req' = [req EXCEPT ![r] = c]
      /\ c \in Calls
  BY DEF Ask, Typed
<1>2. apart' => apart /\ OthersIdle(r)
  BY DEF Ask, OthersIdle
<1>3. OneAtATime'
  <2>1. Fresh(c, db')
    BY <1>1
  <2> QED BY <1>1, <1>2, <2>1, StaysOneAtATime
<1>4. Tied'
  BY <1>1, <1>2 DEF Tied, Paid, Books, Owes, Holds, PaidOf, UsedOf, ShareOf, Used
<1> QED BY <1>3, <1>4

LEMMA AskStepTied ==
  ASSUME Typed, Typed', OneAtATime, Tied, VoidAgain = FALSE, NEW r \in Requests, AskStep(r)
  PROVE  OneAtATime' /\ Tied'
<1>1. ASSUME NEW c, Ask(r, c), Fresh(c, db)
      PROVE  OneAtATime' /\ Tied'
  BY <1>1, AskTied
<1>2. CASE AskCreate(r) \/ AskReceive(r) \/ AskApply(r) \/ AskSettle(r) \/ AskApproveSale(r)
             \/ AskMemo(r)
  <2>1. PICK c : /\ Ask(r, c) /\ c.owed = db.owed
                 /\ c.op \in {"create", "receive", "apply", "settle", "approveSale", "memo"}
    <3>1. CASE AskCreate(r)
      BY <3>1 DEF AskCreate
    <3>2. CASE AskReceive(r)
      BY <3>2 DEF AskReceive
    <3>3. CASE AskApply(r)
      BY <3>3 DEF AskApply
    <3>4. CASE AskSettle(r)
      BY <3>4 DEF AskSettle
    <3>5. CASE AskApproveSale(r)
      BY <3>5 DEF AskApproveSale
    <3>6. CASE AskMemo(r)
      BY <3>6 DEF AskMemo
    <3> QED BY <1>2, <3>1, <3>2, <3>3, <3>4, <3>5, <3>6
  <2>2. Fresh(c, db)
    BY <2>1 DEF Fresh
  <2> QED BY <1>1, <2>1, <2>2
<1>3. CASE AskInvoice(r)
  <2>1. PICK c : /\ Ask(r, c) /\ c.seen = db.inv[c.i]
                 /\ c.op \in {"update", "send", "void", "delete"}
                 /\ c.op = "void" => c.seen.status # "void"
    <3>1. ASSUME NEW i \in Invoices, NEW t, Ask(r, [op |-> "update", i |-> i, t |-> t,
                                                    seen |-> db.inv[i]])
          PROVE  \E c : /\ Ask(r, c) /\ c.seen = db.inv[c.i]
                        /\ c.op \in {"update", "send", "void", "delete"}
                        /\ c.op = "void" => c.seen.status # "void"
      <4> DEFINE c == [op |-> "update", i |-> i, t |-> t, seen |-> db.inv[i]]
      <4>1. c.op = "update" /\ c.i = i /\ c.seen = db.inv[i]
        OBVIOUS
      <4> HIDE DEF c
      <4>2. Ask(r, c)
        BY <3>1 DEF c
      <4> QED BY <4>1, <4>2
    <3>2. ASSUME NEW i \in Invoices, NEW what \in {"send", "void", "delete"},
                 Ask(r, [op |-> what, i |-> i, seen |-> db.inv[i]]),
                 what = "void" => db.inv[i].status # "void"
          PROVE  \E c : /\ Ask(r, c) /\ c.seen = db.inv[c.i]
                        /\ c.op \in {"update", "send", "void", "delete"}
                        /\ c.op = "void" => c.seen.status # "void"
      <4> DEFINE c == [op |-> what, i |-> i, seen |-> db.inv[i]]
      <4>1. c.op = what /\ c.i = i /\ c.seen = db.inv[i]
        OBVIOUS
      <4> HIDE DEF c
      <4>2. Ask(r, c)
        BY <3>2 DEF c
      <4> QED BY <3>2, <4>1, <4>2
    <3>3. PICK i \in Invoices :
            LET row == db.inv[i]
            IN \/ /\ MayUpdate(row)
                  /\ \E t \in Amounts \ {row.total} :
                       Ask(r, [op |-> "update", i |-> i, t |-> t, seen |-> row])
               \/ MaySend(row) /\ Ask(r, [op |-> "send", i |-> i, seen |-> row])
               \/ /\ MayVoid(row)
                  /\ row.status = "void" => VoidAgain
                  /\ Ask(r, [op |-> "void", i |-> i, seen |-> row])
               \/ MayDelete(row) /\ Ask(r, [op |-> "delete", i |-> i, seen |-> row])
      BY <1>3 DEF AskInvoice
    <3> QED BY <3>1, <3>2, <3>3
  <2>2. Fresh(c, db)
    BY <2>1 DEF Fresh
  <2> QED BY <1>1, <2>1, <2>2
<1>4. CASE AskDeleteReceipt(r)
  <2>1. PICK p \in Kept(db) :
          Ask(r, [op |-> "deleteReceipt", p |-> p, amount |-> db.rct[p].amount,
                  app |-> db.app[p], owed |-> db.owed])
    BY <1>4 DEF AskDeleteReceipt
  <2> DEFINE c == [op |-> "deleteReceipt", p |-> p, amount |-> db.rct[p].amount,
                   app |-> db.app[p], owed |-> db.owed]
  <2>2. Fresh(c, db)
    BY <2>1 DEF Fresh, Kept
  <2> QED BY <1>1, <2>1, <2>2
<1>5. CASE AskCredit(r)
  <2>1. PICK m \in LiveMemos(db), i \in Collectable(db), a \in Amounts :
          Ask(r, [op |-> "credit", m |-> m, i |-> i, a |-> a, refund |-> FALSE])
    BY <1>5 DEF AskCredit
  <2> DEFINE c == [op |-> "credit", m |-> m, i |-> i, a |-> a, refund |-> FALSE]
  <2>2. Fresh(c, db)
    BY FreshCalls
  <2> QED BY <1>1, <2>1, <2>2
<1>6. CASE AskMemoEnd(r)
  <2>1. PICK m \in Memos :
          LET row == db.memo[m]
          IN \/ row.balance > 0 /\ Ask(r, [op |-> "refund", m |-> m, seen |-> row])
             \/ /\ row.status \in {"open", "applied", "closed"}
                /\ row.applied = 0
                /\ \E remove \in BOOLEAN :
                     Ask(r, [op |-> "voidMemo", m |-> m, seen |-> row, remove |-> remove])
    BY <1>6 DEF AskMemoEnd
  <2>2. CASE Ask(r, [op |-> "refund", m |-> m, seen |-> db.memo[m]])
    <3> DEFINE c == [op |-> "refund", m |-> m, seen |-> db.memo[m]]
    <3>1. Fresh(c, db)
      BY DEF Fresh
    <3> QED BY <1>1, <2>2, <3>1
  <2>3. ASSUME NEW remove \in BOOLEAN,
               Ask(r, [op |-> "voidMemo", m |-> m, seen |-> db.memo[m], remove |-> remove]),
               db.memo[m].status \in {"open", "applied", "closed"}, db.memo[m].applied = 0
        PROVE  OneAtATime' /\ Tied'
    <3> DEFINE c == [op |-> "voidMemo", m |-> m, seen |-> db.memo[m], remove |-> remove]
    <3>1. Fresh(c, db)
      BY <2>3 DEF Fresh
    <3> QED BY <1>1, <2>3, <3>1
  <2> QED BY <2>1, <2>2, <2>3
<1> QED BY <1>2, <1>3, <1>4, <1>5, <1>6 DEF AskStep

LEMMA PaidInt == ASSUME Typed PROVE Paid \in Int
  BY SumInt, ReceivablesAssumption DEF Typed, Paid

LEMMA ServedFresh ==
  ASSUME OneAtATime, Tied, apart, NEW r \in Requests, ~Idle(r)
  PROVE  Fresh(req[r], db) /\ OthersIdle(r) /\ Books(db, Paid)
  BY DEF OneAtATime, OthersIdle, Tied

LEMMA ServedTied ==
  ASSUME Typed, Typed', OneAtATime, Tied, NEW r \in Requests, ~Idle(r), NEW c,
         req' = [req EXCEPT ![r] = c], apart' = apart,
         apart => Fresh(c, db') /\ Books(db', Paid')
  PROVE  OneAtATime' /\ Tied'
<1>1. c \in Calls
  BY DEF Typed
<1>2. OneAtATime'
  BY <1>1, ServedFresh, StaysOneAtATime
<1>3. Tied'
  BY DEF Tied
<1> QED BY <1>2, <1>3

LEMMA CommitTied ==
  ASSUME Typed, Typed', OneAtATime, Tied, NEW r \in Requests, ~Idle(r), NEW d, Commit(r, d),
         apart => Books(d, Paid)
  PROVE  OneAtATime' /\ Tied'
<1>1. /\ db' = d /\ req' = [req EXCEPT ![r] = Done] /\ apart' = apart /\ spent' = spent
  BY DEF Commit, Then
<1>2. Paid' = Paid
  BY <1>1 DEF Paid
<1>3. Fresh(Done, db')
  BY FreshCalls DEF Done
<1>4. apart => Books(db', Paid')
  BY <1>1, <1>2
<1> QED BY <1>1, <1>3, <1>4, ServedTied

-----------------------------------------------------------------------------
(* The books after each transaction. *)

LEMMA RaisedBooks ==
  ASSUME NEW d \in Db, NEW s \in Int, Books(d, s), NEW i \in Invoices,
         d.inv[i].status = "none", NEW t \in Nat
  PROVE  LET e == Raised(d, i, t, d.owed)
         IN /\ e \in Db /\ Books(e, s) /\ e.rct = d.rct /\ e.app = d.app /\ e.memo = d.memo
            /\ e.inv[i].status \in OpenStatus /\ e.inv[i].balance = t
<1> DEFINE e == Raised(d, i, t, d.owed)
           row == [status |-> "sent", total |-> t, paid |-> 0, balance |-> t, posted |-> TRUE]
<1>1. e \in Db /\ e.rct = d.rct /\ e.app = d.app /\ e.memo = d.memo
  <2> DEFINE o == d.owed
  <2>1. o \in Int
    BY DbFields
  <2> HIDE DEF o
  <2>2. LET x == Raised(d, i, t, o)
        IN x \in Db /\ x.rct = d.rct /\ x.app = d.app /\ x.memo = d.memo
    BY <2>1, RaisedDb
  <2> QED BY <2>2 DEF o
<1>2. e.inv = [d.inv EXCEPT ![i] = row] /\ e.ar = d.ar + t /\ e.owed = d.owed + t
  BY DEF Raised, Db
<1>3. row \in InvRow /\ PostedOnce(row) /\ OpenBalance(row) = t /\ row.paid = 0
  BY DEF InvRow, InvFields, InvoiceStatus, PostedOnce, OpenBalance, OpenStatus
<1>4. d.inv \in [Invoices -> InvRow] /\ d.inv[i] \in InvRow
  BY DbFields
<1>5. d.inv[i].paid = 0 /\ OpenBalance(d.inv[i]) = 0
  <2>1. d.inv[i].status \notin OpenStatus
    BY DEF OpenStatus
  <2> QED BY <1>4, <2>1, InvRowFields DEF OpenBalance
<1>6. e.inv[i].status \in OpenStatus /\ e.inv[i].balance = t
  BY <1>2, <1>4 DEF OpenStatus
<1> HIDE DEF e, row
<1>7. d.owed = d.ar /\ d.ar \in Int /\ e.ar = d.ar + t - 0
  BY <1>2, DbFields DEF Books
<1>8. e.owed = e.ar
  BY <1>2, <1>7
<1>9. Books(e, s)
  BY <1>1, <1>2, <1>3, <1>5, <1>7, <1>8, InvoiceBooks
<1> QED BY <1>1, <1>6, <1>9 DEF e

LEMMA CreateTied ==
  ASSUME Typed, Typed', OneAtATime, Tied, NEW r \in Requests, Create(r)
  PROVE  OneAtATime' /\ Tied'
<1> DEFINE c == req[r]
           raised == Raised(db, c.i, c.t, c.owed)
           row == [NoInvoice EXCEPT !.status = "draft", !.total = c.t, !.balance = c.t]
           drafted == [db EXCEPT !.inv[c.i] = row]
           i == c.i
<1>1. c \in Calls /\ db \in Db /\ ~Idle(r)
  BY DEF Typed, Create, Serving, Idle
<1>2. c \in CreateCall
  BY <1>1, CallShapes DEF Create, Serving
<1>3. i \in Invoices /\ c.t \in Nat /\ db.inv[i].status = "none"
  BY <1>2, ReceivablesAssumption DEF CreateCall, Create
<1>4. ASSUME apart
      PROVE  Books(raised, Paid) /\ Books(drafted, Paid)
  <2>1. c.owed = db.owed /\ Books(db, Paid) /\ Paid \in Int
    BY <1>1, <1>2, <1>4, ServedFresh, PaidInt DEF CreateCall, Fresh
  <2>2. Books(raised, Paid)
    <3> HIDE DEF c
    <3> QED BY <1>1, <1>3, <2>1, RaisedBooks
  <2>3. row \in InvRow /\ row.paid = 0 /\ OpenBalance(row) = 0 /\ PostedOnce(row)
    <3>1. row \in InvRow
      BY <1>3, NoInvoiceRow, InvRowTotal
    <3> QED BY <3>1 DEF NoInvoice, OpenBalance, PostedOnce, OpenStatus
  <2> HIDE DEF row, c
  <2>4. db.inv[i].paid = 0 /\ OpenBalance(db.inv[i]) = 0
    <3>1. db.inv[i] \in InvRow /\ db.inv[i].status \notin OpenStatus
      BY <1>1, <1>3, DbFields DEF OpenStatus
    <3> QED BY <3>1, InvRowFields DEF OpenBalance
  <2>5. drafted \in Db /\ drafted.rct = db.rct /\ drafted.app = db.app /\ drafted.memo = db.memo
    BY <1>1, <1>3, <2>3, InvoiceSaved
  <2>6. drafted.inv = [db.inv EXCEPT ![i] = row] /\ drafted.ar = db.ar /\ drafted.owed = db.owed
    BY <1>1 DEF Db
  <2>7. db.ar \in Int /\ db.owed = db.ar
    BY <1>1, <2>1, DbFields DEF Books
  <2> HIDE DEF drafted, i
  <2>8. drafted.ar = db.ar + OpenBalance(row) - OpenBalance(db.inv[i])
    BY <2>3, <2>4, <2>6, <2>7
  <2>9. Books(drafted, Paid)
    BY <1>1, <1>3, <2>1, <2>3, <2>4, <2>5, <2>6, <2>7, <2>8, InvoiceBooks
  <2> QED BY <2>2, <2>9
<1>5. Commit(r, raised) \/ Commit(r, drafted)
  BY DEF Create
<1> HIDE DEF raised, drafted
<1> QED BY <1>1, <1>4, <1>5, CommitTied

(* A handler that saves the invoice as it read it, changed.                 *)
LEMMA SavedTied ==
  ASSUME Typed, Typed', OneAtATime, Tied, NEW r \in Requests, ~Idle(r),
         NEW i \in Invoices, NEW row \in InvRow, NEW d \in Db, Commit(r, d),
         d.inv = [db.inv EXCEPT ![i] = row], d.rct = db.rct, d.app = db.app, d.memo = db.memo,
         NEW by \in Int, d.ar = db.ar + by, d.owed = db.owed + by,
         apart => /\ row.paid = db.inv[i].paid /\ PostedOnce(row)
                  /\ OpenBalance(row) = OpenBalance(db.inv[i]) + by
  PROVE  OneAtATime' /\ Tied'
<1>1. ASSUME apart
      PROVE  Books(d, Paid)
  <2>1. Books(db, Paid) /\ db \in Db /\ Paid \in Int
    BY <1>1, ServedFresh, PaidInt DEF Typed
  <2>2. db.owed = db.ar /\ db.ar \in Int /\ OpenBalance(db.inv[i]) \in Int
    BY <2>1, FigureTypes, DbFields DEF Books
  <2>3. d.owed = d.ar /\ d.ar = db.ar + OpenBalance(row) - OpenBalance(db.inv[i])
    BY <1>1, <2>2
  <2> QED BY <1>1, <2>1, <2>3, InvoiceBooks
<1> QED BY <1>1, CommitTied

LEMMA UpdateTied ==
  ASSUME Typed, Typed', OneAtATime, Tied, NEW r \in Requests, Update(r)
  PROVE  OneAtATime' /\ Tied'
<1> DEFINE c == req[r]
           row == [c.seen EXCEPT !.total = c.t, !.balance = c.t]
           i == c.i
           d == [db EXCEPT !.inv[i] = row]
<1>1. c \in Calls /\ db \in Db /\ ~Idle(r)
  BY DEF Typed, Update, Serving, Idle
<1>2. c \in UpdateCall
  BY <1>1, CallShapes DEF Update, Serving
<1>3. /\ i \in Invoices /\ c.t \in Nat /\ c.seen \in InvRow /\ c.seen \in InvFields
      /\ c.seen.status = "draft"
  BY <1>2, ReceivablesAssumption DEF UpdateCall, MayUpdate, InvRow
<1>4. c.seen.paid = 0
  BY <1>3, InvRowFields DEF OpenStatus
<1>5. row \in InvRow /\ row.paid = 0 /\ row.status = "draft" /\ row.posted = c.seen.posted
  <2>1. row \in InvRow
    BY <1>3, <1>4, InvRowTotal
  <2>2. row.paid = c.seen.paid /\ row.status = c.seen.status /\ row.posted = c.seen.posted
    BY <1>3 DEF InvFields
  <2> QED BY <1>3, <1>4, <2>1, <2>2
<1>6. apart => c.seen = db.inv[i] /\ Books(db, Paid)
  BY <1>1, <1>2, ServedFresh DEF UpdateCall, Fresh
<1>7. Commit(r, d)
  BY DEF Update
<1> HIDE DEF row, c, i
<1>8. d \in Db /\ d.rct = db.rct /\ d.app = db.app /\ d.memo = db.memo
  BY <1>1, <1>3, <1>5, InvoiceSaved
<1>9. d.inv = [db.inv EXCEPT ![i] = row] /\ d.ar = db.ar + 0 /\ d.owed = db.owed + 0
  BY <1>1, DbFields DEF Db
<1>10. apart => /\ row.paid = db.inv[i].paid /\ PostedOnce(row)
                /\ OpenBalance(row) = OpenBalance(db.inv[i]) + 0
  <2> SUFFICES ASSUME apart
               PROVE  /\ row.paid = db.inv[i].paid /\ PostedOnce(row)
                      /\ OpenBalance(row) = OpenBalance(db.inv[i]) + 0
    OBVIOUS
  <2>1. PostedOnce(db.inv[i])
    BY <1>3, <1>6 DEF Books
  <2>2. ~c.seen.posted
    BY <1>3, <1>6, <2>1 DEF PostedOnce, OpenStatus
  <2> QED BY <1>3, <1>4, <1>5, <1>6, <2>2 DEF PostedOnce, OpenBalance, OpenStatus
<1> HIDE DEF d
<1> QED BY <1>1, <1>3, <1>5, <1>7, <1>8, <1>9, <1>10, SavedTied

LEMMA SendTied ==
  ASSUME Typed, Typed', OneAtATime, Tied, NEW r \in Requests, Send(r)
  PROVE  OneAtATime' /\ Tied'
<1> DEFINE c == req[r]
           seen == c.seen
           i == c.i
           st == IF seen.status = "draft" THEN "sent" ELSE seen.status
           row == [seen EXCEPT !.posted = TRUE, !.status = st]
           d == [db EXCEPT !.inv[i] = row]
           e == [d EXCEPT !.book[i].made = @ + seen.total, !.owed = @ + seen.total,
                          !.ar = @ + seen.total]
<1>1. c \in Calls /\ db \in Db /\ ~Idle(r)
  BY DEF Typed, Send, Serving, Idle
<1>2. c \in SendCall
  BY <1>1, CallShapes DEF Send, Serving
<1>3. i \in Invoices /\ seen \in InvRow /\ seen \in InvFields /\ MaySend(seen)
  BY <1>2 DEF SendCall, InvRow
<1>4. st \in OpenStatus
  BY <1>3 DEF MaySend, Exists, OpenStatus, InvFields, InvoiceStatus
<1>5. /\ row \in InvFields /\ row.paid = seen.paid /\ row.status = st /\ row.posted = TRUE
      /\ row.balance = seen.balance /\ row.total = seen.total
  <2> HIDE DEF seen, st
  <2>1. st \in InvoiceStatus
    BY <1>4 DEF OpenStatus, InvoiceStatus
  <2> QED BY <1>3, <2>1 DEF InvFields
<1>6. row \in InvRow
  BY <1>3, <1>4, <1>5, InvRowFields DEF InvRow
<1>7. apart => seen = db.inv[i] /\ Books(db, Paid)
  BY <1>1, <1>2, ServedFresh DEF SendCall, Fresh
<1>8. Commit(r, IF seen.posted THEN d ELSE e)
  BY DEF Send
<1>9. seen.posted => seen.status # "draft" \/ ~apart
  <2> SUFFICES ASSUME apart, seen.posted, seen.status = "draft" PROVE FALSE
    OBVIOUS
  <2>1. PostedOnce(db.inv[i])
    BY <1>3, <1>7 DEF Books
  <2> QED BY <1>7, <2>1 DEF PostedOnce, OpenStatus
<1>10. st = seen.status \/ seen.status = "draft"
  OBVIOUS
<1> HIDE DEF st, row, c, i, seen
<1>11. /\ d \in Db /\ d.rct = db.rct /\ d.app = db.app /\ d.memo = db.memo
  BY <1>1, <1>3, <1>6, InvoiceSaved
<1>12. d.inv = [db.inv EXCEPT ![i] = row] /\ d.ar = db.ar + 0 /\ d.owed = db.owed + 0
  BY <1>1, DbFields DEF Db
<1>13. row.paid = db.inv[i].paid \/ ~apart
  BY <1>5, <1>7
<1>14. PostedOnce(row) /\ OpenBalance(row) = seen.balance
  BY <1>4, <1>5 DEF PostedOnce, OpenBalance
<1>15. seen.balance \in Int /\ seen.total \in Int
  BY <1>3, InvRowFields
<1>16. CASE seen.posted
  <2>1. Commit(r, d)
    BY <1>8, <1>16
  <2>2. apart => OpenBalance(row) = OpenBalance(db.inv[i]) + 0
    BY <1>4, <1>7, <1>9, <1>10, <1>14, <1>15, <1>16 DEF OpenBalance
  <2> HIDE DEF d
  <2> QED BY <1>1, <1>3, <1>6, <1>11, <1>12, <1>13, <1>14, <2>1, <2>2, SavedTied
<1>17. CASE ~seen.posted
  <2>1. Commit(r, e)
    BY <1>8, <1>17
  <2>2. apart => OpenBalance(row) = OpenBalance(db.inv[i]) + seen.total
    <3> SUFFICES ASSUME apart PROVE OpenBalance(row) = OpenBalance(db.inv[i]) + seen.total
      OBVIOUS
    <3>1. PostedOnce(seen)
      BY <1>3, <1>7 DEF Books
    <3>2. seen.status \notin OpenStatus
      BY <1>17, <3>1 DEF PostedOnce
    <3>3. seen.balance = seen.total - seen.paid /\ seen.paid = 0
      BY <1>3, <3>2, InvRowFields
    <3> QED BY <1>7, <1>14, <1>15, <3>2, <3>3 DEF OpenBalance
  <2> DEFINE g == [d.book EXCEPT ![i].made = @ + seen.total]
             o == d.owed + seen.total
             a == d.ar + seen.total
             x == [d EXCEPT !.book = g, !.owed = o, !.ar = a]
  <2> HIDE DEF d
  <2>3. e = x
    BY <1>11 DEF Db
  <2>4. g \in [Documents -> BookRow] /\ o \in Int /\ a \in Int
    BY <1>3, <1>11, <1>15, DbFields DEF BookRow, Documents
  <2>5. o = db.owed + seen.total /\ a = db.ar + seen.total
    BY <1>1, <1>12, <1>15, DbFields
  <2> HIDE DEF g, o, a
  <2>6. /\ x \in Db /\ x.rct = db.rct /\ x.app = db.app /\ x.memo = db.memo
        /\ x.inv = d.inv /\ x.owed = o /\ x.ar = a
    BY <1>11, <2>4 DEF Db
  <2>7. Commit(r, x)
    BY <2>1, <2>3
  <2> HIDE DEF x
  <2> QED BY <1>1, <1>3, <1>6, <1>12, <1>13, <1>14, <1>15, <2>2, <2>5, <2>6, <2>7, SavedTied
<1> QED BY <1>16, <1>17

(* Void and Delete: the row becomes one that owes nothing, and what the     *)
(* entry of the row that was read put on the account is taken off.          *)
LEMMA EndedTied ==
  ASSUME Typed, Typed', OneAtATime, Tied, NEW r \in Requests, ~Idle(r), NEW i \in Invoices,
         NEW seen \in InvRow, seen.paid = 0, NEW row \in InvRow, row.paid = 0,
         OpenBalance(row) = 0, PostedOnce(row), NEW reverses \in BOOLEAN,
         LET d == [db EXCEPT !.inv[i] = row]
         IN Commit(r, IF reverses THEN Reversed(d, i, seen) ELSE d),
         apart => seen = db.inv[i] /\ (reverses <=> seen.status \in OpenStatus)
  PROVE  OneAtATime' /\ Tied'
<1> DEFINE d == [db EXCEPT !.inv[i] = row]
           e == Reversed(d, i, seen)
           by == -seen.total
<1>1. db \in Db /\ seen.total \in Int /\ by \in Int /\ seen.balance = seen.total
  BY InvRowFields DEF Typed
<1>2. d \in Db /\ d.rct = db.rct /\ d.app = db.app /\ d.memo = db.memo
  BY <1>1, InvoiceSaved
<1>3. d.inv = [db.inv EXCEPT ![i] = row] /\ d.ar = db.ar + 0 /\ d.owed = db.owed + 0
  BY <1>1, DbFields DEF Db
<1>4. Commit(r, IF reverses THEN e ELSE d)
  OBVIOUS
<1>5. apart => row.paid = db.inv[i].paid /\ PostedOnce(row)
  OBVIOUS
<1>6. CASE ~reverses
  <2>1. Commit(r, d)
    BY <1>4, <1>6
  <2>2. apart => OpenBalance(row) = OpenBalance(db.inv[i]) + 0
    BY <1>6 DEF OpenBalance
  <2> HIDE DEF d
  <2> QED BY <1>2, <1>3, <1>5, <2>1, <2>2, SavedTied
<1>7. CASE reverses
  <2>1. Commit(r, e)
    BY <1>4, <1>7
  <2>2. apart => OpenBalance(row) = OpenBalance(db.inv[i]) + by
    BY <1>1, <1>7 DEF OpenBalance
  <2> HIDE DEF d
  <2>3. e \in Db /\ e.rct = d.rct /\ e.app = d.app /\ e.memo = d.memo
    BY <1>2, ReversedDb
  <2>4. e.inv = d.inv /\ e.ar = d.ar - seen.total /\ e.owed = d.owed - seen.total
    BY <1>2 DEF Reversed, Db
  <2>5. e.ar = db.ar + by /\ e.owed = db.owed + by
    BY <1>1, <1>3, <2>4, DbFields
  <2>6. e.inv = [db.inv EXCEPT ![i] = row] /\ e.rct = db.rct /\ e.app = db.app /\ e.memo = db.memo
    BY <1>2, <1>3, <2>3, <2>4
  <2> HIDE DEF e, by
  <2> QED BY <1>1, <1>5, <2>1, <2>2, <2>3, <2>5, <2>6, SavedTied
<1> QED BY <1>6, <1>7

LEMMA VoidTied ==
  ASSUME Typed, Typed', OneAtATime, Tied, NEW r \in Requests, Void(r) \/ Delete(r)
  PROVE  OneAtATime' /\ Tied'
<1> DEFINE c == req[r]
           seen == c.seen
           i == c.i
<1>1. c \in Calls /\ db \in Db /\ ~Idle(r) /\ c.op \in {"void", "delete"}
  BY DEF Typed, Void, Delete, Serving, Idle
<1>2. c \in EndCall
  BY <1>1, CallShapes
<1>3. i \in Invoices /\ seen \in InvRow /\ seen \in InvFields /\ seen.paid = 0
  BY <1>2 DEF EndCall, InvRow
<1>4. apart => /\ seen = db.inv[i] /\ PostedOnce(seen)
               /\ Void(r) => seen.status # "void"
  <2> SUFFICES ASSUME apart
               PROVE  /\ seen = db.inv[i] /\ PostedOnce(seen)
                      /\ Void(r) => seen.status # "void"
    OBVIOUS
  <2>1. Fresh(c, db) /\ Books(db, Paid)
    BY <1>1, ServedFresh
  <2>2. seen = db.inv[i]
    BY <1>1, <2>1 DEF Fresh
  <2>3. Void(r) => seen.status # "void"
    BY <2>1 DEF Fresh, Void, Serving
  <2> QED BY <1>3, <2>1, <2>2, <2>3 DEF Books
<1>5. seen.posted \in BOOLEAN
  BY <1>3, InvRowFields
<1>6. CASE Void(r)
  <2> DEFINE row == [seen EXCEPT !.status = "void"]
  <2>1. row \in InvRow /\ row.paid = 0 /\ row.status = "void"
    <3>1. row \in InvRow
      BY <1>3, InvRowStatus DEF InvoiceStatus
    <3> QED BY <1>3, <3>1 DEF InvFields
  <2>2. LET d == [db EXCEPT !.inv[i] = row]
        IN Commit(r, IF seen.posted THEN Reversed(d, i, seen) ELSE d)
    BY <1>6 DEF Void
  <2> HIDE DEF row
  <2>3. OpenBalance(row) = 0 /\ PostedOnce(row)
    BY <2>1 DEF OpenBalance, PostedOnce, OpenStatus
  <2>4. apart => (seen.posted <=> seen.status \in OpenStatus)
    BY <1>4, <1>6 DEF PostedOnce
  <2> HIDE DEF c, i, seen
  <2> QED BY <1>1, <1>3, <1>4, <1>5, <2>1, <2>2, <2>3, <2>4, EndedTied
<1>7. CASE Delete(r)
  <2> DEFINE row == [NoInvoice EXCEPT !.status = "gone"]
             reverses == ToReverse(seen)
  <2>1. row \in InvRow /\ row.paid = 0 /\ OpenBalance(row) = 0 /\ PostedOnce(row)
    <3>1. row \in InvRow
      BY NoInvoiceRow, InvRowStatus DEF InvoiceStatus
    <3> QED BY <3>1 DEF NoInvoice, OpenBalance, PostedOnce, OpenStatus
  <2>2. LET d == [db EXCEPT !.inv[i] = row]
        IN Commit(r, IF reverses THEN Reversed(d, i, seen) ELSE d)
    BY <1>7 DEF Delete
  <2>3. reverses \in BOOLEAN
    BY <1>5 DEF ToReverse
  <2>4. apart => (reverses <=> seen.status \in OpenStatus)
    BY <1>4 DEF PostedOnce, ToReverse, OpenStatus
  <2> HIDE DEF row, reverses, c, i, seen
  <2> QED BY <1>1, <1>3, <1>4, <2>1, <2>2, <2>3, <2>4, EndedTied
<1> QED BY <1>6, <1>7

LEMMA ReceiptTied ==
  ASSUME Typed, Typed', OneAtATime, Tied, NEW r \in Requests, Receive(r) \/ Apply(r)
  PROVE  OneAtATime' /\ Tied'
<1> DEFINE c == req[r]
<1>1. c \in Calls /\ db \in Db /\ ~Idle(r) /\ Paid \in Int
  BY PaidInt DEF Typed, Receive, Apply, Serving, Idle
<1>2. apart => c.owed = db.owed /\ Books(db, Paid)
  BY <1>1, ServedFresh DEF Fresh, Receive, Apply, Serving
<1>3. CASE Receive(r)
  <2> DEFINE d == Received(db, c.p, c.amount, c.al, c.held, c.owed)
  <2>1. c \in ReceiveCall
    BY <1>1, <1>3, CallShapes DEF Receive, Serving
  <2>2. c.p \in Receipts /\ c.amount \in Nat /\ c.al \in Alloc /\ c.held \in BOOLEAN
    BY <2>1, ReceivablesAssumption DEF ReceiveCall
  <2>3. /\ db.rct[c.p].status # "kept" /\ MayPayAll(db, c.al) /\ Commit(r, d)
    BY <1>3 DEF Receive, MayReceive
  <2> HIDE DEF c
  <2>4. apart => Books(d, Paid)
    BY <1>1, <1>2, <2>2, <2>3, ReceivedBooks
  <2> HIDE DEF d
  <2> QED BY <1>1, <2>3, <2>4, CommitTied
<1>4. CASE Apply(r)
  <2> DEFINE d == Applied(db, c.p, c.al, c.owed)
  <2>1. c \in ApplyCall
    BY <1>1, <1>4, CallShapes DEF Apply, Serving
  <2>2. c.p \in Receipts /\ c.al \in Alloc
    BY <2>1 DEF ApplyCall
  <2>3. db.rct[c.p].status = "kept" /\ MayPayAll(db, c.al) /\ Commit(r, d)
    BY <1>4 DEF Apply, MayApply
  <2> HIDE DEF c
  <2>4. apart => Books(d, Paid)
    BY <1>1, <1>2, <2>2, <2>3, AppliedBooks
  <2> HIDE DEF d
  <2> QED BY <1>1, <2>3, <2>4, CommitTied
<1> QED BY <1>3, <1>4

(* What a receipt put on an invoice is no more than the invoice says.       *)
LEMMA ShareWithin ==
  ASSUME NEW d \in Db, NEW s, Books(d, s), NEW p \in Receipts, NEW i \in Invoices
  PROVE  /\ Taken(d.app[p])[i] \in Nat /\ Taken(d.app[p])[i] <= d.inv[i].paid
         /\ Taken(d.app[p])[i] > 0 => d.inv[i].status \in OpenStatus
<1> DEFINE f == ShareOf(d, i)
<1>1. \A q \in Receipts : f[q] \in Nat /\ f[q] \in Int /\ f[q] = Taken(d.app[q])[i]
  BY FigureTypes
<1>2. IsFiniteSet(Receipts) /\ IsFiniteSet(Receipts \ {p})
  BY ReceivablesAssumption, FS_RemoveElement
<1>3. Sum(f, Receipts) <= d.inv[i].paid
  BY DEF Books
<1> HIDE DEF f
<1>4. Sum(f, Receipts) = f[p] + Sum(f, Receipts \ {p})
  BY <1>1, <1>2, SumTakeOut
<1>5. Sum(f, Receipts \ {p}) \in Nat
  BY <1>1, <1>2, SumNat
<1>6. d.inv[i] \in InvRow /\ d.inv[i].paid \in Nat
  BY DbFields, InvRowFields
<1>7. f[p] <= d.inv[i].paid
  BY <1>1, <1>3, <1>4, <1>5, <1>6
<1>8. f[p] > 0 => d.inv[i].status \in OpenStatus
  <2>1. f[p] > 0 => d.inv[i].paid > 0
    BY <1>1, <1>6, <1>7
  <2> QED BY <1>6, <2>1, InvRowFields
<1> QED BY <1>1, <1>7, <1>8

LEMMA DeleteReceiptTied ==
  ASSUME Typed, Typed', OneAtATime, Tied, NEW r \in Requests, DeleteReceipt(r)
  PROVE  OneAtATime' /\ Tied'
<1> DEFINE c == req[r]
           of == Taken(c.app)
           touched == {i \in Invoices : of[i] > 0 /\ Exists(db.inv[i])}
           f == [i \in Invoices |-> IF i \in touched THEN Reopened(db.inv[i], of[i])
                                                      ELSE db.inv[i]]
           reopened == Refreshed([db EXCEPT !.inv = f], touched)
           at == Sum([i \in Invoices |-> c.app[i].at], Invoices)
           later == Sum([i \in Invoices |-> c.app[i].later], Invoices)
           row == [NoReceipt EXCEPT !.status = "gone"]
           d(owed) == [reopened EXCEPT
                         !.rct[c.p] = row,
                         !.app[c.p] = NotApplied,
                         !.book[c.p].undone = @ + c.amount,
                         !.owed = owed + at + later,
                         !.ar = @ + at + later,
                         !.advances = @ - (c.amount - at) + later,
                         !.cash = @ - c.amount]
<1>1. c \in Calls /\ db \in Db /\ ~Idle(r) /\ Paid \in Int
  BY PaidInt DEF Typed, DeleteReceipt, Serving, Idle
<1>2. c \in DeleteCall
  BY <1>1, CallShapes DEF DeleteReceipt, Serving
<1>3. c.p \in Receipts /\ c.app \in Shares
  BY <1>2 DEF DeleteCall
<1>4. PICK owed \in {c.owed, db.owed} : Commit(r, d(owed))
  BY DEF DeleteReceipt, Taken
<1> DEFINE e == d(owed)
<1>5. apart => /\ Books(db, Paid) /\ c.app = db.app[c.p] /\ owed = db.owed
  BY <1>1, <1>2, ServedFresh DEF DeleteCall, Fresh
<1>6. SUFFICES ASSUME apart PROVE Books(e, Paid)
  BY <1>1, <1>4, CommitTied
<1>7. e \in Db
  <2>1. db' = e
    BY <1>4 DEF Commit, Then
  <2> HIDE DEF e
  <2> QED BY <2>1 DEF Typed
<1>8. of \in Alloc
  BY <1>3 DEF Taken, Shares, Alloc
<1>9. at + later = Allocated(of) /\ at \in Int /\ later \in Int
  <2> DEFINE g == [i \in Invoices |-> c.app[i].at]
             h == [i \in Invoices |-> c.app[i].later]
  <2>1. \A i \in Invoices : g[i] \in Int /\ h[i] \in Int /\ of[i] = g[i] + h[i]
    BY <1>3 DEF Shares, Taken
  <2> HIDE DEF g, h, of
  <2>2. Sum(of, Invoices) = Sum(g, Invoices) + Sum(h, Invoices)
    BY <2>1, ReceivablesAssumption, SumPlus
  <2>3. Sum(g, Invoices) \in Int /\ Sum(h, Invoices) \in Int
    BY <2>1, ReceivablesAssumption, SumInt
  <2> QED BY <2>2, <2>3 DEF g, h, Allocated
<1>10. \A i \in Invoices : Exists(db.inv[i]) \/ of[i] = 0
  <2> TAKE i \in Invoices
  <2>1. of[i] \in Nat /\ (of[i] > 0 => db.inv[i].status \in OpenStatus)
    BY <1>1, <1>3, <1>5, <1>6, ShareWithin
  <2> QED BY <2>1 DEF Exists, OpenStatus
<1> HIDE DEF of, at, later, row
<1>11. /\ e.inv = f /\ e.memo = db.memo
       /\ e.rct = [db.rct EXCEPT ![c.p] = row]
       /\ e.app = [db.app EXCEPT ![c.p] = NotApplied]
       /\ e.owed = owed + at + later /\ e.ar = db.ar + at + later
  <2> HIDE DEF f, c, touched
  <2>1. /\ reopened.inv = f /\ reopened.memo = db.memo /\ reopened.rct = db.rct
        /\ reopened.app = db.app /\ reopened.ar = db.ar
        /\ reopened = [reopened EXCEPT !.inv = f]
    BY <1>1 DEF Refreshed, Db
  <2>2. DOMAIN reopened = DOMAIN db
    BY DEF Refreshed
  <2> HIDE DEF reopened
  <2> QED BY <1>1, <2>1, <2>2 DEF Db
<1>12. PaidMore(e, db, of)
  <2>1. ASSUME NEW i \in Invoices
        PROVE  /\ db.inv[i].paid = f[i].paid + of[i]
               /\ OpenBalance(f[i]) = OpenBalance(db.inv[i]) + of[i]
               /\ PostedOnce(f[i]) <=> PostedOnce(db.inv[i])
    <3>1. db.inv[i] \in InvRow /\ of[i] \in Nat
      BY <1>1, <1>8, DbFields DEF Alloc
    <3>2. CASE of[i] > 0
      <4>1. f[i] = Reopened(db.inv[i], of[i])
        BY <1>10, <3>1, <3>2
      <4>2. of[i] <= db.inv[i].paid /\ db.inv[i].status \in OpenStatus
        BY <1>1, <1>3, <1>5, <1>6, <3>2, ShareWithin DEF of
      <4> QED BY <3>1, <4>1, <4>2, ReopenedFigures
    <3>3. CASE ~(of[i] > 0)
      <4>1. of[i] = 0 /\ f[i] = db.inv[i]
        BY <3>1, <3>3
      <4>2. db.inv[i].paid \in Int /\ OpenBalance(db.inv[i]) \in Int
        BY <3>1, InvRowFields DEF OpenBalance
      <4> QED BY <4>1, <4>2
    <3> QED BY <3>2, <3>3
  <2> HIDE DEF f, e
  <2> QED BY <1>11, <2>1 DEF PaidMore
<1> HIDE DEF f, c, e
<1>13. /\ db.rct \in [Receipts -> RctRow] /\ db.app \in [Receipts -> Shares]
       /\ db.ar \in Int /\ db.owed \in Int /\ row.status # "kept"
  BY <1>1, DbFields DEF row, NoReceipt
<1>14. SharesMore(e, db, c.p, of)
  <2>1. \A i \in Invoices : Taken(NotApplied)[i] = 0 /\ of[i] \in Nat
    BY <1>8 DEF Taken, NotApplied, Alloc
  <2>2. \A i \in Invoices : Taken(db.app[c.p])[i] = Taken(NotApplied)[i] + of[i]
    BY <1>5, <1>6, <2>1 DEF of
  <2> QED BY <1>3, <1>11, <1>13, <2>2 DEF SharesMore
<1>15. e.ar = db.ar + Allocated(of) /\ e.owed = db.owed + Allocated(of)
  BY <1>5, <1>6, <1>9, <1>11, <1>13
<1>16. \A q \in Receipts : e.rct[q].status # "kept" => e.app[q] = NotApplied
  BY <1>3, <1>5, <1>6, <1>11, <1>13 DEF Books
<1> QED BY <1>1, <1>3, <1>5, <1>6, <1>7, <1>8, <1>11, <1>12, <1>14, <1>15, <1>16, BooksUnpaid

LEMMA SweepMayPay ==
  ASSUME NEW d \in Db, NEW amount \in Nat
  PROVE  MayPayAll(d, AutoApply(d, amount))
<1> DEFINE al == AutoApply(d, amount)
<1>1. ASSUME NEW i \in Invoices, al[i] > 0
      PROVE  MayPay(d, i, al[i])
  <2>1. i \in Outstanding(d)
    BY <1>1, AutoApplyTerms
  <2> DEFINE left == Above0(amount - Sum(Owing(d), {j \in Outstanding(d) : j < i}))
  <2>2. al[i] = SmallerOf(Owing(d)[i], left) /\ Owing(d)[i] \in Nat \ {0}
    BY <2>1, AutoApplyTerms
  <2>3. Owing(d)[i] = d.inv[i].balance /\ d.inv[i].status \in OpenStatus
    BY <2>1 DEF Owing, Outstanding, Collectable
  <2>4. al[i] \in Nat
    BY AutoApplyTerms DEF Alloc
  <2> HIDE DEF left, al
  <2>5. al[i] <= d.inv[i].balance
    <3>1. al[i] = Owing(d)[i] \/ (al[i] = left /\ ~(Owing(d)[i] < left))
      BY <2>2 DEF SmallerOf
    <3>2. left \in Nat
      <4>1. {j \in Outstanding(d) : j < i} \subseteq Invoices
        BY DEF Outstanding, Collectable
      <4>2. Sum(Owing(d), {j \in Outstanding(d) : j < i}) \in Int
        BY <4>1, AutoApplyTerms, SumInt, FS_Subset, ReceivablesAssumption
      <4> QED BY <4>2 DEF left, Above0
    <3> QED BY <2>2, <2>3, <2>4, <3>1, <3>2
  <2> QED BY <1>1, <2>3, <2>5 DEF MayPay
<1> QED BY <1>1 DEF MayPayAll

LEMMA PaidFor ==
  ASSUME Typed, NEW m \in Memos, NEW a \in Nat, spent' = [spent EXCEPT ![m] = @ + a]
  PROVE  Paid' = Paid + a
<1>1. \A x \in Memos : spent[x] \in Int /\ spent'[x] \in Int
  BY DEF Typed
<1>2. spent'[m] = spent[m] + a /\ \A x \in Memos \ {m} : spent'[x] = spent[x]
  BY DEF Typed
<1> DEFINE f == spent
           g == spent'
<1>3. Sum(g, Memos) = Sum(f, Memos) + g[m] - f[m]
  <2>1. /\ IsFiniteSet(Memos)
        /\ \A x \in Memos : f[x] \in Int /\ g[x] \in Int
        /\ \A x \in Memos \ {m} : g[x] = f[x]
    BY <1>1, <1>2, ReceivablesAssumption
  <2> HIDE DEF f, g
  <2> QED BY ONLY <2>1, SumChange
<1>4. Sum(spent, Memos) \in Int /\ spent[m] \in Int
  BY <1>1, PaidInt DEF Paid
<1> QED BY <1>2, <1>3, <1>4 DEF Paid

LEMMA AppliedParts ==
  ASSUME NEW d \in Db, NEW p \in Receipts, NEW al \in Alloc, NEW owed \in Int
  PROVE  /\ Applied(d, p, al, owed) \in Db /\ Applied(d, p, al, owed).rct = d.rct
         /\ Applied(d, p, al, owed).memo = d.memo
<1>1. LET e == Applied(d, p, al, owed)
          share == WithLater(d.app[p], al)
      IN e \in Db /\ e.memo = d.memo /\ e.rct = d.rct /\ e.owed = owed - Allocated(al)
         /\ share \in Shares /\ e.app = [d.app EXCEPT ![p] = share]
  BY AppliedDb
<1> QED BY <1>1

LEMMA SettleTied ==
  ASSUME Typed, Typed', MemosSound, OneAtATime, Tied, NEW r \in Requests, Settle(r)
  PROVE  OneAtATime' /\ Tied'
<1> DEFINE c == req[r]
           alone == Alone(c.i, c.a)
           advanced == Applied(db, c.p, alone, c.owed)
           credited == Credited(advanced, c.m, c.i, c.b)
           al == AutoApply(credited, c.cash)
           received == Received(credited, c.q, c.cash, al, FALSE, credited.owed)
<1>1. /\ c \in Calls /\ db \in Db /\ ~Idle(r) /\ Paid \in Int /\ Amounts \subseteq Nat
  BY PaidInt, ReceivablesAssumption DEF Typed, Settle, Serving, Idle
<1>2. c \in SettleCall /\ c.op = "settle"
  BY <1>1, CallShapes DEF Settle, Serving
<1>3. /\ c.p \in Receipts /\ c.m \in Memos /\ c.q \in Receipts /\ c.i \in Invoices
      /\ c.a \in Nat /\ c.b \in Nat /\ c.cash \in Nat /\ c.owed \in Int
  <2>1. /\ c.p \in Receipts /\ c.m \in Memos /\ c.q \in Receipts /\ c.i \in Invoices
        /\ c.a \in Amounts /\ c.b \in Amounts /\ c.cash \in Amounts \cup {0} /\ c.owed \in Int
    BY <1>2 DEF SettleCall
  <2> HIDE DEF c
  <2>2. Amounts \cup {0} \subseteq Nat
    BY <1>1
  <2> QED BY <1>1, <2>1, <2>2
<1>4. apart => c.owed = db.owed /\ Books(db, Paid)
  BY <1>1, <1>2, ServedFresh DEF Fresh
<1>5. /\ db.rct[c.p].status = "kept" /\ MayPayAll(db, alone)
      /\ MayCredit(advanced, c.m, c.i, c.b) /\ db.rct[c.q].status = "none"
  BY DEF Settle, MayApply
<1>6. /\ IF c.cash = 0 THEN db' = credited ELSE db' = received
      /\ req' = [req EXCEPT ![r] = Done] /\ apart' = apart
      /\ spent' = [spent EXCEPT ![c.m] = @ + c.b]
  BY DEF Settle, Then
<1>7. alone \in Alloc
  BY <1>3, AllocatedAlone
<1> HIDE DEF alone, c
<1>8. /\ advanced \in Db /\ advanced.rct = db.rct /\ advanced.memo = db.memo
  BY <1>1, <1>3, <1>7, AppliedParts
<1>9. apart => Books(advanced, Paid)
  BY <1>1, <1>3, <1>4, <1>5, <1>7, AppliedBooks
<1>10. Counted(advanced.memo[c.m], advanced.memo[c.m].applied)
  BY <1>3, <1>8 DEF MemosSound, Counted
<1> HIDE DEF advanced
<1>11. /\ credited \in Db /\ credited.rct = advanced.rct
  <2>1. /\ credited \in Db /\ credited.rct = advanced.rct /\ credited.app = advanced.app
        /\ credited.owed = advanced.owed
        /\ credited.memo = [advanced.memo EXCEPT ![c.m] = WithCredit(advanced.memo[c.m], c.b)]
    BY <1>3, <1>8, CreditedDb
  <2> QED BY <2>1
<1>12. apart => Books(credited, Paid + c.b)
  BY <1>1, <1>3, <1>5, <1>8, <1>9, <1>10, CreditedBooks
<1> HIDE DEF credited
<1>13. al \in Alloc /\ MayPayAll(credited, al)
  BY <1>3, <1>11, AutoApplyWithin, SweepMayPay
<1>14. credited.rct[c.q].status # "kept"
  BY <1>5, <1>8, <1>11
<1> HIDE DEF al
<1>15. apart => Books(received, Paid + c.b)
  <2> DEFINE s == Paid + c.b
  <2>1. s \in Int
    BY <1>1, <1>3
  <2> HIDE DEF s
  <2>2. ASSUME Books(credited, s), NEW held \in BOOLEAN
        PROVE  LET e == Received(credited, c.q, c.cash, al, held, credited.owed)
               IN Books(e, s)
    BY <1>3, <1>11, <1>13, <1>14, <2>1, <2>2, ReceivedBooks
  <2>3. FALSE \in BOOLEAN
    OBVIOUS
  <2>4. Books(credited, s) => Books(received, s)
    BY <2>2, <2>3
  <2> QED BY <1>12, <2>4 DEF s
<1> HIDE DEF received
<1>16. apart => Books(db', Paid + c.b)
  BY <1>6, <1>12, <1>15
<1>17. Paid' = Paid + c.b
  BY <1>3, <1>6, PaidFor
<1>18. Fresh(Done, db')
  BY FreshCalls DEF Done
<1> QED BY <1>1, <1>6, <1>16, <1>17, <1>18, ServedTied

LEMMA AppliedOpen ==
  ASSUME NEW d \in Db, NEW p, NEW al \in Alloc, NEW owed, NEW i \in Invoices,
         d.inv[i].status \in OpenStatus
  PROVE  Applied(d, p, al, owed).inv[i].status \in OpenStatus
<1> DEFINE c == PaidAll(d, al)
<1>1. c.inv[i] = IF al[i] > 0 THEN PaidBy(d.inv[i], al[i]) ELSE d.inv[i]
  BY DEF PaidAll, Refreshed, Db
<1>2. Applied(d, p, al, owed).inv = c.inv
  <2>1. c \in Db
    BY PaidAllDb
  <2> HIDE DEF c
  <2> QED BY <2>1 DEF Applied, Db, c
<1>3. PaidBy(d.inv[i], al[i]).status \in OpenStatus
  <2>1. d.inv[i] \in InvFields
    BY DbFields DEF InvRow
  <2> QED BY <2>1 DEF PaidBy, OpenStatus, InvFields
<1> HIDE DEF c
<1> QED BY <1>1, <1>2, <1>3

LEMMA AlonePays ==
  ASSUME NEW d, NEW i \in Invoices, d.inv[i].status \in OpenStatus, NEW a \in Nat,
         a > 0 => a <= d.inv[i].balance
  PROVE  MayPayAll(d, Alone(i, a))
  BY DEF MayPayAll, MayPay, Alone

LEMMA ReceivedRows ==
  ASSUME NEW d \in Db, NEW p \in Receipts, NEW amount \in Nat, NEW al \in Alloc, NEW owed \in Int
  PROVE  Received(d, p, amount, al, FALSE, owed) \in Db
<1>1. ASSUME NEW held \in BOOLEAN
      PROVE  Received(d, p, amount, al, held, owed) \in Db
  <2> DEFINE e == Received(d, p, amount, al, held, owed)
             row == ReceivedRow(amount, held)
             share == ReceivedShare(al)
  <2>1. /\ e \in Db /\ e.memo = d.memo
        /\ e.rct = [d.rct EXCEPT ![p] = row] /\ e.app = [d.app EXCEPT ![p] = share]
    BY ReceivedDb
  <2> QED BY <2>1
<1>2. FALSE \in BOOLEAN
  OBVIOUS
<1> QED BY <1>1, <1>2

LEMMA ApproveSaleTied ==
  ASSUME Typed, Typed', ReceiptsSound, OneAtATime, Tied, NEW r \in Requests, ApproveSale(r)
  PROVE  OneAtATime' /\ Tied'
<1> DEFINE c == req[r]
           raised == Raised(db, c.i, c.t, c.owed)
           use(p) == SmallerOf(Unapplied(db, p), c.t)
           P == CHOOSE p \in c.A : TRUE
           applied == Applied(raised, P, Alone(c.i, use(P)), raised.owed)
           advanced == IF \A p \in c.A : use(p) = 0 THEN raised ELSE applied
           f == [p \in Receipts |-> IF p \in c.A THEN [advanced.rct[p] EXCEPT !.held = FALSE]
                                                 ELSE advanced.rct[p]]
           freed == [advanced EXCEPT !.rct = f]
           al == Alone(c.i, c.cash)
           received == Received(freed, c.q, c.cash, al, FALSE, freed.owed)
           collected == IF c.cash = 0 THEN freed ELSE received
           e == [collected EXCEPT !.sale[c.i] = PaidStatusOf(collected.inv[c.i])]
<1>1. /\ c \in Calls /\ db \in Db /\ SpentWithin(db) /\ Amounts \subseteq Nat /\ ~Idle(r)
      /\ Paid \in Int
  BY PaidInt, ReceivablesAssumption DEF Typed, ReceiptsSound, ApproveSale, Serving, Idle
<1>2. c \in SaleCall /\ c.op = "approveSale"
  BY <1>1, CallShapes DEF ApproveSale, Serving
<1>3. /\ c.i \in Invoices /\ c.t \in Nat /\ c.A \subseteq Receipts /\ c.q \in Receipts
      /\ c.cash \in Nat /\ c.owed \in Int
  <2>1. /\ c.i \in Invoices /\ c.t \in Amounts /\ c.A \subseteq Receipts /\ c.q \in Receipts
        /\ c.cash \in Amounts \cup {0} /\ c.owed \in Int
    BY <1>2 DEF SaleCall
  <2> HIDE DEF c
  <2>2. Amounts \cup {0} \subseteq Nat
    BY <1>1
  <2> QED BY <1>1, <2>1, <2>2
<1>4. /\ Commit(r, e) /\ db.inv[c.i].status = "none" /\ db.rct[c.q].status = "none"
      /\ c.cash <= freed.inv[c.i].balance /\ \A p \in c.A : db.rct[p].held
  BY DEF ApproveSale
<1>5. SUFFICES ASSUME apart PROVE Books(e, Paid)
  BY <1>1, <1>4, CommitTied
<1>6. c.owed = db.owed /\ Books(db, Paid)
  BY <1>1, <1>2, <1>5, ServedFresh DEF Fresh
<1> HIDE DEF c
<1>7. /\ raised \in Db /\ Books(raised, Paid) /\ raised.rct = db.rct /\ raised.app = db.app
      /\ raised.memo = db.memo
      /\ raised.inv[c.i].status \in OpenStatus /\ raised.inv[c.i].balance = c.t
  <2>1. raised = Raised(db, c.i, c.t, db.owed)
    BY <1>6
  <2> DEFINE i == c.i
             t == c.t
  <2>2. i \in Invoices /\ t \in Nat /\ db.inv[i].status = "none"
    BY <1>3, <1>4
  <2> HIDE DEF raised, i, t
  <2>3. LET x == Raised(db, i, t, db.owed)
        IN /\ x \in Db /\ Books(x, Paid) /\ x.rct = db.rct /\ x.app = db.app /\ x.memo = db.memo
           /\ x.inv[i].status \in OpenStatus /\ x.inv[i].balance = t
    BY <1>1, <1>6, <2>2, RaisedBooks
  <2> QED BY <2>1, <2>3 DEF i, t
<1> HIDE DEF raised
<1>8. \A p \in c.A : /\ p \in Receipts /\ use(p) \in Nat /\ use(p) <= c.t
                     /\ db.rct[p].status = "kept"
  <2> TAKE p \in c.A
  <2>1. p \in Receipts /\ db.rct[p] \in RctRow
    BY <1>1, <1>3, DbFields
  <2>2. db.rct[p].status = "kept" /\ db.rct[p].amount \in Nat
    BY <1>4, <2>1 DEF RctRow, RctFields
  <2>3. Used(db, p) \in Nat /\ Used(db, p) <= db.rct[p].amount
    BY <1>1, <2>1, <2>2, UsedNat DEF SpentWithin
  <2> QED BY <1>3, <2>1, <2>2, <2>3 DEF SmallerOf, Unapplied
<1>9. /\ advanced \in Db /\ Books(advanced, Paid) /\ advanced.rct = db.rct
      /\ advanced.inv[c.i].status \in OpenStatus
  <2>1. CASE \A p \in c.A : use(p) = 0
    BY <1>7, <2>1
  <2>2. CASE ~ \A p \in c.A : use(p) = 0
    <3>1. P \in c.A
      BY <2>2
    <3>2. P \in Receipts /\ use(P) \in Nat /\ use(P) <= c.t /\ db.rct[P].status = "kept"
      BY <1>8, <3>1
    <3> DEFINE a == use(P)
               alone == Alone(c.i, a)
    <3> HIDE DEF P, use, a
    <3>3. a \in Nat /\ a <= raised.inv[c.i].balance
      BY <1>7, <3>2 DEF a
    <3>4. alone \in Alloc /\ MayPayAll(raised, alone)
      BY <1>3, <1>7, <3>3, AllocatedAlone, AlonePays
    <3> HIDE DEF alone
    <3>5. applied = Applied(raised, P, alone, raised.owed)
      BY DEF alone, a
    <3>6. raised.owed \in Int
      BY <1>7, DbFields
    <3>7. applied \in Db /\ applied.rct = raised.rct
      BY <1>7, <3>2, <3>4, <3>5, <3>6, AppliedParts
    <3>8. Books(applied, Paid)
      BY <1>1, <1>7, <3>2, <3>4, <3>5, AppliedBooks
    <3>9. applied.inv[c.i].status \in OpenStatus
      BY <1>3, <1>7, <3>4, <3>5, AppliedOpen
    <3> HIDE DEF applied
    <3>10. advanced = applied
      BY <2>2 DEF use
    <3> HIDE DEF advanced
    <3> QED BY <1>7, <3>7, <3>8, <3>9, <3>10
  <2> QED BY <2>1, <2>2
<1> HIDE DEF advanced
<1>10. \A p \in Receipts : f[p] \in RctRow /\ f[p].status = advanced.rct[p].status
  <2> TAKE p \in Receipts
  <2>1. advanced.rct[p] \in RctRow
    BY <1>9, DbFields
  <2>2. [advanced.rct[p] EXCEPT !.held = FALSE] \in RctRow
    BY <2>1 DEF RctRow, RctFields
  <2>3. [advanced.rct[p] EXCEPT !.held = FALSE].status = advanced.rct[p].status
    BY <2>1 DEF RctRow, RctFields
  <2>4. CASE p \in c.A
    BY <2>2, <2>3, <2>4
  <2>5. CASE p \notin c.A
    BY <2>1, <2>5
  <2> QED BY <2>4, <2>5
<1>11. f \in [Receipts -> RctRow]
  BY <1>10
<1> HIDE DEF f
<1>12. /\ freed \in Db /\ freed.rct = f /\ freed.app = advanced.app /\ freed.memo = advanced.memo
       /\ freed.inv = advanced.inv /\ freed.owed = advanced.owed /\ freed.ar = advanced.ar
  BY <1>9, <1>11 DEF Db
<1> HIDE DEF freed
<1>13. Books(freed, Paid)
  BY <1>9, <1>10, <1>12, SameBooks
<1>14. freed.rct[c.q].status # "kept"
  BY <1>3, <1>4, <1>9, <1>10, <1>12
<1>15. al \in Alloc /\ MayPayAll(freed, al)
  BY <1>3, <1>4, <1>9, <1>12, AllocatedAlone, AlonePays
<1> HIDE DEF al
<1>16. Books(received, Paid) /\ received \in Db
  <2>1. ASSUME NEW held \in BOOLEAN
        PROVE  LET x == Received(freed, c.q, c.cash, al, held, freed.owed) IN Books(x, Paid)
    BY <1>1, <1>3, <1>12, <1>13, <1>14, <1>15, ReceivedBooks
  <2>2. FALSE \in BOOLEAN
    OBVIOUS
  <2>3. Books(received, Paid)
    BY <2>1, <2>2
  <2>4. received \in Db
    <3>1. freed.owed \in Int
      BY <1>12, DbFields
    <3> QED BY <1>3, <1>12, <1>15, <2>2, <3>1, ReceivedRows
  <2> QED BY <2>3, <2>4
<1> HIDE DEF received
<1>17. Books(collected, Paid) /\ collected \in Db
  BY <1>12, <1>13, <1>16
<1> HIDE DEF collected
<1>18. /\ e.inv = collected.inv /\ e.app = collected.app /\ e.memo = collected.memo
       /\ e.rct = collected.rct /\ e.owed = collected.owed /\ e.ar = collected.ar
  BY <1>17 DEF Db
<1> HIDE DEF e
<1> QED BY <1>17, <1>18, SameBooks

(* A transaction that saves one memo's row.                                 *)
SavesMemo(r, c, m, row, by) ==
  /\ req' = [req EXCEPT ![r] = c] /\ apart' = apart /\ spent' = spent
  /\ db'.memo = [db.memo EXCEPT ![m] = row]
  /\ db'.inv = db.inv /\ db'.app = db.app /\ db'.rct = db.rct /\ db'.ar = db.ar + by
  /\ apart => /\ db'.owed = db.owed + by /\ Fresh(c, db')
              /\ LiveBalance(db.memo[m]) = LiveBalance(row) + by

LEMMA MemoTied ==
  ASSUME Typed, Typed', OneAtATime, Tied, NEW r \in Requests, ~Idle(r), NEW c,
         NEW m \in Memos, NEW row, NEW by \in Int, SavesMemo(r, c, m, row, by)
  PROVE  OneAtATime' /\ Tied'
<1> USE DEF SavesMemo
<1>1. db \in Db /\ db' \in Db /\ Paid \in Int /\ Paid' = Paid
  BY PaidInt DEF Typed, Paid
<1>2. row \in MemoRow
  <2>1. db'.memo[m] = row /\ db'.memo[m] \in MemoRow
    BY <1>1, DbFields
  <2> QED BY <2>1
<1>3. ASSUME apart
      PROVE  Books(db', Paid)
  <2>1. Books(db, Paid)
    BY <1>3, ServedFresh
  <2>2. LiveBalance(row) \in Int /\ db.ar \in Int /\ db.owed = db.ar
    BY <1>1, <1>2, <2>1, DbFields DEF LiveBalance, MemoRow, MemoFields, Books
  <2>3. db'.owed = db'.ar /\ db'.ar = db.ar - LiveBalance(row) + LiveBalance(db.memo[m])
    BY <1>3, <2>2
  <2> DEFINE d == db
             e == db'
  <2>4. /\ d \in Db /\ e \in Db /\ Books(d, Paid) /\ e.memo = [d.memo EXCEPT ![m] = row]
        /\ e.inv = d.inv /\ e.app = d.app /\ e.rct = d.rct /\ e.owed = e.ar
        /\ e.ar = d.ar - LiveBalance(row) + LiveBalance(d.memo[m])
    BY <1>1, <2>1, <2>3
  <2> HIDE DEF d, e
  <2>5. Books(e, Paid)
    BY <1>1, <1>2, <2>4, MemoBooks
  <2> QED BY <2>5 DEF e
<1> QED BY <1>1, <1>3, ServedTied

LEMMA MemoMadeTied ==
  ASSUME Typed, Typed', OneAtATime, Tied, NEW r \in Requests, Memo(r)
  PROVE  OneAtATime' /\ Tied'
<1> DEFINE c == req[r]
           absorb == [op |-> "absorb", m |-> c.m, left |-> c.t, S |-> c.S, refund |-> c.refund]
           next == IF c.S = {} /\ ~c.refund THEN Done ELSE absorb
           row == [status |-> "open", total |-> c.t, applied |-> 0, balance |-> c.t, of |-> c.S]
           by == -c.t
<1>1. c \in Calls /\ db \in Db /\ ~Idle(r)
  BY DEF Typed, Memo, Serving, Idle
<1>2. c \in MemoCall /\ c.op = "memo"
  BY <1>1, CallShapes DEF Memo, Serving
<1>3. c.m \in Memos /\ c.t \in Int /\ c.owed \in Int
  <2>1. c.m \in Memos /\ c.t \in Amounts /\ c.owed \in Int
    BY <1>2 DEF MemoCall
  <2> HIDE DEF c
  <2>2. Amounts \subseteq Nat
    BY ReceivablesAssumption
  <2>3. c.t \in Nat
    BY <2>1, <2>2
  <2> QED BY <2>1, <2>3
<1>4. /\ db' = [db EXCEPT !.memo[c.m] = row, !.book[c.m].made = -c.t, !.owed = c.owed - c.t,
                          !.ar = @ - c.t]
      /\ req' = [req EXCEPT ![r] = next] /\ apart' = apart /\ spent' = spent
      /\ db.memo[c.m].status = "none"
  BY DEF Memo, Then
<1>5. \A d : Fresh(next, d)
  BY FreshCalls DEF Done
<1>6. LiveBalance(row) = c.t
  BY DEF LiveBalance
<1>7. apart => c.owed = db.owed
  BY <1>1, <1>2, ServedFresh DEF Fresh
<1> HIDE DEF c, next, row
<1>8. /\ db'.memo = [db.memo EXCEPT ![c.m] = row] /\ db'.inv = db.inv /\ db'.app = db.app
      /\ db'.rct = db.rct /\ db'.ar = db.ar - c.t /\ db'.owed = c.owed - c.t
  BY <1>1, <1>4 DEF Db
<1>9. db'.ar = db.ar + by /\ by \in Int /\ db'.owed = c.owed + by
  BY <1>1, <1>3, <1>8, DbFields
<1>10. LiveBalance(db.memo[c.m]) = LiveBalance(row) + by
  BY <1>3, <1>4, <1>6 DEF LiveBalance
<1> HIDE DEF by
<1>11. SavesMemo(r, next, c.m, row, by)
  BY <1>4, <1>5, <1>7, <1>8, <1>9, <1>10 DEF SavesMemo
<1> QED BY <1>1, <1>3, <1>9, <1>11, MemoTied

LEMMA AbsorbTied ==
  ASSUME Typed, Typed', OneAtATime, Tied, NEW r \in Requests, Absorb(r)
  PROVE  OneAtATime' /\ Tied'
<1> DEFINE c == req[r]
           refund == [op |-> "refund", m |-> c.m, seen |-> db.memo[c.m]]
           a(i) == SmallerOf(c.left, db.inv[i].balance)
           credit(i) == [op |-> "credit", m |-> c.m, i |-> i, a |-> a(i), refund |-> c.refund]
<1>1. ~Idle(r)
  BY DEF Absorb, Serving, Idle
<1>2. /\ db' = db /\ spent' = spent /\ apart' = apart
      /\ \/ req' = [req EXCEPT ![r] = refund]
         \/ req' = [req EXCEPT ![r] = Done]
         \/ \E i \in c.S : req' = [req EXCEPT ![r] = credit(i)]
  BY DEF Absorb
<1>3. Fresh(refund, db) /\ Fresh(Done, db) /\ \A i : Fresh(credit(i), db)
  BY DEF Fresh, Done
<1> HIDE DEF refund, credit
<1>4. PICK k : req' = [req EXCEPT ![r] = k] /\ Fresh(k, db)
  BY <1>2, <1>3
<1>5. apart => Books(db, Paid) /\ Paid' = Paid
  BY <1>1, <1>2, ServedFresh DEF Paid
<1>6. apart => Fresh(k, db') /\ Books(db', Paid')
  BY <1>2, <1>4, <1>5
<1> QED BY <1>1, <1>2, <1>4, <1>6, ServedTied

LEMMA CreditTied ==
  ASSUME Typed, Typed', MemosSound, OneAtATime, Tied, NEW r \in Requests, Credit(r)
  PROVE  OneAtATime' /\ Tied'
<1> DEFINE c == req[r]
           now == Credited(db, c.m, c.i, c.a)
           absorb == [op |-> "absorb", m |-> c.m, left |-> now.memo[c.m].balance, S |-> {},
                      refund |-> TRUE]
           next == IF c.refund THEN absorb ELSE Done
<1>1. c \in Calls /\ db \in Db /\ ~Idle(r) /\ Paid \in Int
  BY PaidInt DEF Typed, Credit, Serving, Idle
<1>2. c \in CreditCall
  BY <1>1, CallShapes DEF Credit, Serving
<1>3. c.m \in Memos /\ c.i \in Invoices /\ c.a \in Int /\ c.a > 0 /\ MayCredit(db, c.m, c.i, c.a)
  BY <1>2 DEF CreditCall, Credit, MayCredit, MayPay
<1>4. /\ db' = now /\ req' = [req EXCEPT ![r] = next] /\ apart' = apart
      /\ spent' = [spent EXCEPT ![c.m] = @ + c.a]
  BY DEF Credit, Then
<1>5. \A d : Fresh(next, d)
  BY FreshCalls DEF Done
<1> HIDE DEF c, next
<1>6. c.a \in Nat
  BY <1>3
<1>7. Counted(db.memo[c.m], db.memo[c.m].applied)
  BY <1>3 DEF MemosSound, Counted
<1>8. apart => Books(now, Paid + c.a)
  <2>1. apart => Books(db, Paid)
    BY <1>1, ServedFresh
  <2> QED BY <1>1, <1>3, <1>6, <1>7, <2>1, CreditedBooks
<1> HIDE DEF now
<1>9. Paid' = Paid + c.a
  BY <1>3, <1>4, <1>6, PaidFor
<1>10. apart => Books(db', Paid')
  BY <1>4, <1>8, <1>9
<1> QED BY <1>1, <1>4, <1>5, <1>10, ServedTied

LEMMA MemoEndTied ==
  ASSUME Typed, Typed', MemosSound, OneAtATime, Tied, NEW r \in Requests,
         Refund(r) \/ VoidMemo(r) \/ RemoveMemo(r)
  PROVE  OneAtATime' /\ Tied'
<1> DEFINE c == req[r]
<1>1. c \in Calls /\ db \in Db /\ ~Idle(r) /\ db.ar \in Int /\ db.owed \in Int
  BY DbFields DEF Typed, Refund, VoidMemo, RemoveMemo, Serving, Idle
<1>2. apart => Fresh(c, db)
  BY <1>1, ServedFresh
<1>3. CASE Refund(r)
  <2> DEFINE row == [c.seen EXCEPT !.balance = 0, !.status = "refunded"]
             by == c.seen.balance
  <2>1. c \in RefundCall /\ c.op = "refund"
    BY <1>1, <1>3, CallShapes DEF Refund, Serving
  <2>2. c.m \in Memos /\ c.seen \in MemoRow /\ c.seen \in MemoFields /\ by \in Int /\ by > 0
    BY <1>3, <2>1 DEF RefundCall, MemoRow, MemoFields, Refund
  <2>3. /\ db' = [db EXCEPT !.memo[c.m] = row, !.refund[c.m] = @ + c.seen.balance,
                            !.owed = @ + c.seen.balance, !.ar = @ + c.seen.balance,
                            !.cash = @ - c.seen.balance]
        /\ req' = [req EXCEPT ![r] = Done] /\ apart' = apart /\ spent' = spent
    BY <1>3 DEF Refund, Commit, Then
  <2>4. row.balance = 0
    BY <2>2 DEF MemoFields
  <2>5. LiveBalance(row) = 0
    BY <2>4 DEF LiveBalance
  <2>6. LiveBalance(c.seen) = by
    BY <2>2 DEF LiveBalance, MemoRow
  <2>7. apart => c.seen = db.memo[c.m]
    BY <1>2, <2>1 DEF Fresh
  <2> HIDE DEF c, row
  <2>8. /\ db'.memo = [db.memo EXCEPT ![c.m] = row] /\ db'.inv = db.inv /\ db'.app = db.app
        /\ db'.rct = db.rct /\ db'.ar = db.ar + by /\ db'.owed = db.owed + by
    BY <1>1, <2>3 DEF Db
  <2>9. Fresh(Done, db')
    BY FreshCalls DEF Done
  <2> HIDE DEF by
  <2>10. apart => LiveBalance(db.memo[c.m]) = LiveBalance(row) + by
    BY <2>2, <2>5, <2>6, <2>7
  <2>11. SavesMemo(r, Done, c.m, row, by)
    BY <2>3, <2>8, <2>9, <2>10 DEF SavesMemo
  <2> QED BY <1>1, <2>2, <2>11, MemoTied
<1>4. CASE VoidMemo(r)
  <2> DEFINE row == [c.seen EXCEPT !.balance = 0, !.status = "void"]
             by == c.seen.total
             remove == [op |-> "removeMemo", m |-> c.m]
             next == IF c.remove THEN remove ELSE Done
  <2>1. c \in VoidCall /\ c.op = "voidMemo"
    BY <1>1, <1>4, CallShapes DEF VoidMemo, Serving
  <2>2. c.m \in Memos /\ c.seen \in MemoRow /\ c.seen \in MemoFields /\ by \in Int
    BY <2>1 DEF VoidCall, MemoRow, MemoFields
  <2>3. /\ db' = [db EXCEPT !.memo[c.m] = row, !.book[c.m].undone = @ + c.seen.total,
                            !.owed = @ + c.seen.total, !.ar = @ + c.seen.total]
        /\ req' = [req EXCEPT ![r] = next] /\ apart' = apart /\ spent' = spent
    BY <1>4 DEF VoidMemo, Then
  <2>4. row.status = "void"
    BY <2>2 DEF MemoFields
  <2>5. LiveBalance(row) = 0
    BY <2>4 DEF LiveBalance
  <2>6. apart => LiveBalance(db.memo[c.m]) = by
    <3> SUFFICES ASSUME apart PROVE LiveBalance(db.memo[c.m]) = by
      OBVIOUS
    <3>1. /\ c.seen = db.memo[c.m] /\ c.seen.status \in {"open", "applied", "closed"}
          /\ c.seen.applied = 0
      BY <1>2, <2>1 DEF Fresh
    <3>2. c.seen.balance = c.seen.total - 0
      BY <2>2, <3>1 DEF MemosSound, Counted
    <3> QED BY <2>2, <3>1, <3>2 DEF LiveBalance
  <2>7. db'.memo[c.m].status = "void" => Fresh(remove, db')
    BY DEF Fresh
  <2>8. Fresh(Done, db')
    BY FreshCalls DEF Done
  <2> HIDE DEF c, row
  <2>9. /\ db'.memo = [db.memo EXCEPT ![c.m] = row] /\ db'.inv = db.inv /\ db'.app = db.app
        /\ db'.rct = db.rct /\ db'.ar = db.ar + by /\ db'.owed = db.owed + by
    BY <1>1, <2>3 DEF Db
  <2>10. db'.memo[c.m] = row
    BY <1>1, <2>2, <2>9, DbFields
  <2>11. Fresh(next, db')
    BY <2>4, <2>7, <2>8, <2>10
  <2> HIDE DEF by, next
  <2>12. apart => LiveBalance(db.memo[c.m]) = LiveBalance(row) + by
    BY <2>2, <2>5, <2>6
  <2>13. SavesMemo(r, next, c.m, row, by)
    BY <2>3, <2>9, <2>11, <2>12 DEF SavesMemo
  <2> QED BY <1>1, <2>2, <2>13, MemoTied
<1>5. CASE RemoveMemo(r)
  <2> DEFINE row == [NoMemo EXCEPT !.status = "gone"]
  <2>1. c \in RemoveCall /\ c.op = "removeMemo"
    BY <1>1, <1>5, CallShapes DEF RemoveMemo, Serving
  <2>2. c.m \in Memos
    BY <2>1 DEF RemoveCall
  <2>3. /\ db' = [db EXCEPT !.memo[c.m] = row]
        /\ req' = [req EXCEPT ![r] = Done] /\ apart' = apart /\ spent' = spent
    BY <1>5 DEF RemoveMemo, Commit, Then
  <2>4. LiveBalance(row) = 0
    BY DEF LiveBalance, NoMemo
  <2>5. apart => LiveBalance(db.memo[c.m]) = 0
    BY <1>2, <2>1 DEF Fresh, LiveBalance
  <2> HIDE DEF c, row
  <2>6. /\ db'.memo = [db.memo EXCEPT ![c.m] = row] /\ db'.inv = db.inv /\ db'.app = db.app
        /\ db'.rct = db.rct /\ db'.ar = db.ar + 0 /\ db'.owed = db.owed + 0
    BY <1>1, <2>3 DEF Db
  <2>7. Fresh(Done, db')
    BY FreshCalls DEF Done
  <2>8. apart => LiveBalance(db.memo[c.m]) = LiveBalance(row) + 0
    BY <2>4, <2>5
  <2>9. SavesMemo(r, Done, c.m, row, 0)
    BY <2>3, <2>6, <2>7, <2>8 DEF SavesMemo
  <2> QED BY <1>1, <2>2, <2>9, MemoTied
<1> QED BY <1>3, <1>4, <1>5

-----------------------------------------------------------------------------
LEMMA DropTied ==
  ASSUME Typed, Typed', OneAtATime, Tied, NEW r \in Requests, Drop(r)
  PROVE  OneAtATime' /\ Tied'
<1>1. /\ ~Idle(r) /\ db' = db /\ req' = [req EXCEPT ![r] = Done] /\ spent' = spent
      /\ apart' = apart
  BY DEF Drop
<1>2. Fresh(Done, db')
  BY FreshCalls DEF Done
<1>3. apart => Books(db, Paid) /\ Paid' = Paid
  BY <1>1, ServedFresh DEF Paid
<1>4. apart => Fresh(Done, db') /\ Books(db', Paid')
  BY <1>1, <1>2, <1>3
<1> QED BY <1>1, <1>4, ServedTied

LEMMA ReleaseTied ==
  ASSUME Typed, OneAtATime, Tied, ReleaseAdvance
  PROVE  OneAtATime' /\ Tied'
<1>1. PICK p \in Receipts : db' = [db EXCEPT !.rct[p].held = FALSE]
  BY DEF ReleaseAdvance, Kept
<1>2. req' = req /\ spent' = spent /\ apart' = apart /\ db \in Db
  BY DEF ReleaseAdvance, Typed
<1>3. /\ db'.inv = db.inv /\ db'.app = db.app /\ db'.memo = db.memo /\ db'.owed = db.owed
      /\ db'.ar = db.ar /\ db'.rct = [db.rct EXCEPT ![p].held = FALSE]
  BY <1>1, <1>2 DEF Db
<1>4. \A q : db'.rct[q].status = db.rct[q].status /\ db'.rct[q].amount = db.rct[q].amount
  <2>1. db.rct \in [Receipts -> RctFields]
    BY <1>2, DbFields DEF RctRow
  <2>2. \A q \in Receipts : /\ db'.rct[q].status = db.rct[q].status
                            /\ db'.rct[q].amount = db.rct[q].amount
    BY <1>3, <2>1 DEF RctFields
  <2>3. \A q : q \notin Receipts => db'.rct[q] = db.rct[q]
    BY <1>3, <2>1
  <2> QED BY <2>2, <2>3
<1>5. \A r \in Requests : Fresh(req[r], db) => Fresh(req'[r], db')
  BY <1>2, <1>3, <1>4 DEF Fresh
<1>6. OneAtATime'
  BY <1>2, <1>5 DEF OneAtATime, Idle
<1>7. Books(db, Paid) => Books(db', Paid)
  <2> DEFINE e == db'
             s == Paid
  <2>1. /\ e.inv = db.inv /\ e.app = db.app /\ e.memo = db.memo /\ e.owed = db.owed
        /\ e.ar = db.ar /\ \A q \in Receipts : e.rct[q].status = db.rct[q].status
    BY <1>3, <1>4
  <2> HIDE DEF e, s
  <2>2. Books(db, s) => Books(e, s)
    BY <2>1, SameBooks
  <2> QED BY <2>2 DEF e, s
<1>8. Tied'
  BY <1>2, <1>7 DEF Tied, Paid
<1> QED BY <1>6, <1>8

LEMMA StepTied ==
  ASSUME Typed, Typed', ReceiptsSound, MemosSound, OneAtATime, Tied, VoidAgain = FALSE,
         [Next]_vars
  PROVE  OneAtATime' /\ Tied'
<1>1. ASSUME NEW r \in Requests, AskStep(r)
      PROVE  OneAtATime' /\ Tied'
  BY <1>1, AskStepTied
<1>2. ASSUME NEW r \in Requests, ServeStep(r)
      PROVE  OneAtATime' /\ Tied'
  BY <1>2, CreateTied, UpdateTied, SendTied, VoidTied, ReceiptTied, DeleteReceiptTied, SettleTied,
     ApproveSaleTied, MemoMadeTied, AbsorbTied, CreditTied, MemoEndTied DEF ServeStep
<1>3. ASSUME NEW r \in Requests, Drop(r)
      PROVE  OneAtATime' /\ Tied'
  BY <1>3, DropTied
<1>4. CASE ReleaseAdvance
  BY <1>4, ReleaseTied
<1>5. CASE UNCHANGED vars
  <2>1. OneAtATime'
    BY <1>5 DEF vars, OneAtATime, Idle, Fresh
  <2>2. Tied'
    BY <1>5 DEF vars, Tied, Paid, Books, Owes, Holds, PaidOf, UsedOf, ShareOf, Used
  <2> QED BY <2>1, <2>2
<1> QED BY <1>1, <1>2, <1>3, <1>4, <1>5 DEF Next

LEMMA InitTied ==
  ASSUME Init
  PROVE  OneAtATime /\ Tied
<1>1. /\ \A i \in Invoices : db.inv[i] = NoInvoice
      /\ \A m \in Memos : db.memo[m].status = "none" /\ spent[m] = 0
      /\ \A p \in Receipts : db.app[p] = NotApplied
      /\ \A r \in Requests : req[r] = [op |-> "idle"]
      /\ db.owed = 0 /\ db.ar = 0
  BY DEF Init, NoMemo
<1>2. OneAtATime
  BY <1>1 DEF OneAtATime, Fresh, Idle
<1>3. IsFiniteSet(Invoices) /\ IsFiniteSet(Receipts) /\ IsFiniteSet(Memos)
  BY ReceivablesAssumption
<1>4. Sum(Owes(db), Invoices) = 0
  <2>1. \A i \in Invoices : Owes(db)[i] = 0
    BY <1>1 DEF Owes, OpenBalance, NoInvoice
  <2> QED BY <1>3, <2>1, SumZero
<1>5. Sum(Holds(db), Memos) = 0
  <2>1. \A m \in Memos : Holds(db)[m] = 0
    BY <1>1 DEF Holds, LiveBalance
  <2> QED BY <1>3, <2>1, SumZero
<1>6. Sum(PaidOf(db), Invoices) = 0
  <2>1. \A i \in Invoices : PaidOf(db)[i] = 0
    BY <1>1 DEF PaidOf, NoInvoice
  <2> QED BY <1>3, <2>1, SumZero
<1>7. Sum(UsedOf(db), Receipts) = 0
  <2>1. ASSUME NEW p \in Receipts
        PROVE  UsedOf(db)[p] = 0
    BY <1>1, UnusedReceipt DEF UsedOf
  <2> QED BY <1>3, <2>1, SumZero
<1>8. Paid = 0
  BY <1>1, <1>3, SumZero DEF Paid
<1>9. ASSUME NEW i \in Invoices
      PROVE  Sum(ShareOf(db, i), Receipts) <= db.inv[i].paid /\ PostedOnce(db.inv[i])
  <2>1. \A p \in Receipts : ShareOf(db, i)[p] = 0
    BY <1>1 DEF ShareOf, Taken, NotApplied
  <2>2. Sum(ShareOf(db, i), Receipts) = 0
    BY <1>3, <2>1, SumZero
  <2> QED BY <1>1, <2>2 DEF PostedOnce, NoInvoice, OpenStatus
<1>10. Books(db, Paid)
  BY <1>1, <1>4, <1>5, <1>6, <1>7, <1>8, <1>9 DEF Books
<1> QED BY <1>2, <1>10 DEF Tied

(* The sums the property takes over the open documents are those over all.  *)
LEMMA BooksTie ==
  ASSUME NEW d \in Db, NEW s, Books(d, s)
  PROVE  /\ d.ar = Sum([i \in Invoices |-> d.inv[i].balance], Collectable(d))
                     - Sum([m \in Memos |-> d.memo[m].balance], LiveMemos(d))
         /\ d.owed = d.ar
         /\ Sum([i \in Invoices |-> d.inv[i].paid], Invoices) =
              Sum([p \in Receipts |-> Used(d, p)], Kept(d)) + s
<1>1. /\ IsFiniteSet(Invoices) /\ IsFiniteSet(Receipts) /\ IsFiniteSet(Memos)
      /\ Collectable(d) \in SUBSET Invoices /\ Kept(d) \in SUBSET Receipts
      /\ LiveMemos(d) \in SUBSET Memos
  BY ReceivablesAssumption DEF Collectable, Kept, LiveMemos
<1>2. IsFiniteSet(Collectable(d)) /\ IsFiniteSet(LiveMemos(d))
  BY <1>1, FS_Subset
<1>3. Sum(Owes(d), Invoices) = Sum([i \in Invoices |-> d.inv[i].balance], Collectable(d))
  <2> DEFINE f == [i \in Invoices |-> d.inv[i].balance]
  <2>1. \A i \in Invoices : Owes(d)[i] \in Int
    BY FigureTypes
  <2>2. \A i \in Invoices \ Collectable(d) : Owes(d)[i] = 0
    BY DEF Owes, OpenBalance, Collectable
  <2>3. \A i \in Collectable(d) : Owes(d)[i] = f[i]
    BY DEF Owes, OpenBalance, Collectable
  <2> HIDE DEF f
  <2>4. Sum(Owes(d), Invoices) = Sum(Owes(d), Collectable(d))
    BY <1>1, <2>1, <2>2, SumWithin
  <2>5. Sum(Owes(d), Collectable(d)) = Sum(f, Collectable(d))
    BY <1>2, <2>3, SumSame
  <2> QED BY <2>4, <2>5 DEF f
<1>4. Sum(Holds(d), Memos) = Sum([m \in Memos |-> d.memo[m].balance], LiveMemos(d))
  <2> DEFINE f == [m \in Memos |-> d.memo[m].balance]
  <2>1. \A m \in Memos : Holds(d)[m] \in Int
    BY FigureTypes
  <2>2. \A m \in Memos \ LiveMemos(d) : Holds(d)[m] = 0
    BY DEF Holds, LiveBalance, LiveMemos
  <2>3. \A m \in LiveMemos(d) : Holds(d)[m] = f[m]
    BY DEF Holds, LiveBalance, LiveMemos
  <2> HIDE DEF f
  <2>4. Sum(Holds(d), Memos) = Sum(Holds(d), LiveMemos(d))
    BY <1>1, <2>1, <2>2, SumWithin
  <2>5. Sum(Holds(d), LiveMemos(d)) = Sum(f, LiveMemos(d))
    BY <1>2, <2>3, SumSame
  <2> QED BY <2>4, <2>5 DEF f
<1>5. Sum(UsedOf(d), Receipts) = Sum([p \in Receipts |-> Used(d, p)], Kept(d))
  <2>1. \A p \in Receipts : UsedOf(d)[p] \in Int
    BY FigureTypes
  <2>2. ASSUME NEW p \in Receipts \ Kept(d)
        PROVE  UsedOf(d)[p] = 0
    <3>1. d.app[p] = NotApplied
      BY DEF Books, Kept
    <3> QED BY <3>1, UnusedReceipt DEF UsedOf
  <2>3. Sum(UsedOf(d), Receipts) = Sum(UsedOf(d), Kept(d))
    BY <1>1, <2>1, <2>2, SumWithin
  <2> QED BY <2>3 DEF UsedOf
<1> QED BY <1>3, <1>4, <1>5 DEF Books, PaidOf

-----------------------------------------------------------------------------
(* Account 2400: what the receipts that are kept have left.                 *)

AmountOf(d) == [p \in Receipts |-> d.rct[p].amount]
Advanced(d) ==
  /\ d.advances = Sum(AmountOf(d), Receipts) - Sum(UsedOf(d), Receipts)
  /\ \A p \in Receipts : d.rct[p].status # "kept" => d.rct[p].amount = 0

LEMMA AmountTypes ==
  ASSUME NEW d \in Db
  PROVE  /\ \A p \in Receipts : AmountOf(d)[p] \in Int /\ AmountOf(d)[p] = d.rct[p].amount
         /\ Sum(AmountOf(d), Receipts) \in Int
<1>1. d.rct \in [Receipts -> RctRow]
  BY DbFields
<1>2. \A p \in Receipts : AmountOf(d)[p] \in Int /\ AmountOf(d)[p] = d.rct[p].amount
  BY <1>1 DEF AmountOf, RctRow, RctFields
<1> QED BY <1>2, SumInt, ReceivablesAssumption

LEMMA SameAdvances ==
  ASSUME NEW d, NEW e, Advanced(d), e.app = d.app, e.advances = d.advances,
         \A p \in Receipts : /\ e.rct[p].status = d.rct[p].status
                             /\ e.rct[p].amount = d.rct[p].amount
  PROVE  Advanced(e)
<1>1. UsedOf(e) = UsedOf(d)
  BY UsedSame DEF UsedOf
<1>2. AmountOf(e) = AmountOf(d)
  BY DEF AmountOf
<1> QED BY <1>1, <1>2 DEF Advanced

(* One receipt's row replaced, with so much more of receipts used.          *)
LEMMA AdvancesMoved ==
  ASSUME NEW d \in Db, NEW e \in Db, Advanced(d), NEW p \in Receipts, NEW row \in RctRow,
         e.rct = [d.rct EXCEPT ![p] = row], row.status # "kept" => row.amount = 0,
         NEW used \in Int, Sum(UsedOf(e), Receipts) = Sum(UsedOf(d), Receipts) + used,
         e.advances = d.advances + (row.amount - d.rct[p].amount) - used
  PROVE  Advanced(e)
<1>1. d.rct \in [Receipts -> RctRow] /\ d.advances \in Int
  BY DbFields
<1>2. e.rct[p] = row /\ \A q \in Receipts \ {p} : e.rct[q] = d.rct[q]
  BY <1>1
<1>3. Sum(AmountOf(e), Receipts) =
        Sum(AmountOf(d), Receipts) + AmountOf(e)[p] - AmountOf(d)[p]
  <2>1. \A q \in Receipts : AmountOf(d)[q] \in Int /\ AmountOf(e)[q] \in Int
    BY AmountTypes
  <2>2. ASSUME NEW q \in Receipts \ {p}
        PROVE  AmountOf(e)[q] = AmountOf(d)[q]
    BY <1>2 DEF AmountOf
  <2> QED BY <2>1, <2>2, SumChange, ReceivablesAssumption
<1>4. /\ AmountOf(e)[p] = row.amount /\ AmountOf(d)[p] = d.rct[p].amount
      /\ row.amount \in Int /\ d.rct[p].amount \in Int
  BY <1>2, AmountTypes
<1>5. Sum(AmountOf(d), Receipts) \in Int /\ Sum(UsedOf(d), Receipts) \in Int
  BY AmountTypes, FigureSums
<1>6. e.advances = Sum(AmountOf(e), Receipts) - Sum(UsedOf(e), Receipts)
  <2>1. d.advances = Sum(AmountOf(d), Receipts) - Sum(UsedOf(d), Receipts)
    BY DEF Advanced
  <2> QED BY <1>1, <1>3, <1>4, <1>5, <2>1
<1>7. \A q \in Receipts : e.rct[q].status # "kept" => e.rct[q].amount = 0
  BY <1>2 DEF Advanced
<1> QED BY <1>6, <1>7 DEF Advanced

LEMMA ReceivedAdvances ==
  ASSUME NEW d \in Db, Advanced(d), NEW p \in Receipts, d.rct[p].status # "kept",
         d.app[p] = NotApplied, NEW amount \in Nat, NEW al \in Alloc, NEW held \in BOOLEAN,
         NEW owed \in Int
  PROVE  LET e == Received(d, p, amount, al, held, owed) IN Advanced(e)
<1> DEFINE c == PaidAll(d, al)
           e == Received(d, p, amount, al, held, owed)
           row == ReceivedRow(amount, held)
           share == ReceivedShare(al)
<1>1. /\ e \in Db
      /\ e.rct = [d.rct EXCEPT ![p] = row] /\ e.app = [d.app EXCEPT ![p] = share]
  BY ReceivedDb
<1>2. c \in Db /\ SameBut(d, c)
  BY PaidAllDb
<1>3. e.advances = c.advances + (amount - Allocated(al))
  <2> HIDE DEF c
  <2> QED BY <1>2 DEF Received, Db, c
<1>4. row.status = "kept" /\ row.amount = amount /\ row \in RctRow
  BY DEF ReceivedRow, RctRow, RctFields
<1>5. \A i \in Invoices : Taken(share)[i] = Taken(d.app[p])[i] + al[i]
  BY DEF Alloc, Taken, NotApplied, ReceivedShare
<1> HIDE DEF c, e, row, share
<1>6. d.rct[p].amount = 0 /\ d.advances \in Int /\ d.app \in [Receipts -> Shares]
  BY DbFields DEF Advanced
<1>7. SharesMore(d, e, p, al)
  BY <1>1, <1>5, <1>6 DEF SharesMore
<1>8. Sum(UsedOf(e), Receipts) = Sum(UsedOf(d), Receipts) + Allocated(al)
  BY <1>1, <1>7, SharesMoreSums
<1>9. Allocated(al) \in Int
  BY AllocatedNat
<1>10. e.advances = d.advances + (row.amount - d.rct[p].amount) - Allocated(al)
  BY <1>2, <1>3, <1>4, <1>6, <1>9 DEF SameBut
<1>11. Advanced(e)
  BY <1>1, <1>4, <1>8, <1>9, <1>10, AdvancesMoved
<1> QED BY <1>11 DEF e

LEMMA AppliedAdvances ==
  ASSUME NEW d \in Db, Advanced(d), NEW p \in Receipts, NEW al \in Alloc, NEW owed \in Int
  PROVE  LET e == Applied(d, p, al, owed) IN Advanced(e)
<1> DEFINE c == PaidAll(d, al)
           e == Applied(d, p, al, owed)
           share == WithLater(d.app[p], al)
           row == d.rct[p]
<1>1. /\ e \in Db /\ e.rct = d.rct /\ e.app = [d.app EXCEPT ![p] = share]
  BY AppliedDb
<1>2. c \in Db /\ SameBut(d, c)
  BY PaidAllDb
<1>3. e.advances = c.advances - Allocated(al)
  <2> HIDE DEF c
  <2> QED BY <1>2 DEF Applied, Db, c
<1>4. /\ d.app \in [Receipts -> Shares] /\ d.app[p] \in Shares /\ d.advances \in Int
      /\ d.rct \in [Receipts -> RctRow] /\ row \in RctRow
  BY DbFields
<1>5. \A i \in Invoices : Taken(share)[i] = Taken(d.app[p])[i] + al[i]
  BY <1>4 DEF Taken, Shares, Alloc, WithLater
<1> HIDE DEF c, e, share
<1>6. SharesMore(d, e, p, al)
  BY <1>1, <1>4, <1>5 DEF SharesMore
<1>7. Sum(UsedOf(e), Receipts) = Sum(UsedOf(d), Receipts) + Allocated(al)
  BY <1>1, <1>6, SharesMoreSums
<1>8. Allocated(al) \in Int /\ row.amount \in Int
  BY <1>4, AllocatedNat DEF RctRow, RctFields
<1>9. e.advances = d.advances + (row.amount - d.rct[p].amount) - Allocated(al)
  BY <1>2, <1>3, <1>4, <1>8 DEF SameBut
<1>10. e.rct = [d.rct EXCEPT ![p] = row] /\ (row.status # "kept" => row.amount = 0)
  BY <1>1, <1>4 DEF Advanced
<1>11. Advanced(e)
  BY <1>1, <1>4, <1>7, <1>8, <1>9, <1>10, AdvancesMoved
<1> QED BY <1>11 DEF e

(* Transactions that touch no receipt.                                      *)
ReceiptsLeft(d, e) == e.rct = d.rct /\ e.app = d.app /\ e.advances = d.advances

LEMMA OthersLeaveReceipts ==
  ASSUME Typed, NEW r \in Requests,
         \/ Create(r) \/ Update(r) \/ Send(r) \/ Void(r) \/ Delete(r)
         \/ Memo(r) \/ Absorb(r) \/ Credit(r) \/ Refund(r) \/ VoidMemo(r) \/ RemoveMemo(r)
  PROVE  ReceiptsLeft(db, db')
<1>1. db \in Db
  BY DEF Typed
<1>2. \A d, i, row : ReceiptsLeft(d, Reversed(d, i, row))
  BY DEF ReceiptsLeft, Reversed
<1>3. \A d, i, t, o : ReceiptsLeft(d, Raised(d, i, t, o))
  BY DEF ReceiptsLeft, Raised
<1>4. \A d, m, i, a : ReceiptsLeft(d, Credited(d, m, i, a))
  BY DEF ReceiptsLeft, Credited
<1>5. CASE Create(r)
  BY <1>1, <1>3, <1>5 DEF Create, Commit, Then, ReceiptsLeft
<1>6. CASE Update(r)
  BY <1>1, <1>6 DEF Update, Commit, Then, ReceiptsLeft
<1>7. CASE Send(r)
  BY <1>1, <1>7 DEF Send, Commit, Then, ReceiptsLeft
<1>8. CASE Void(r)
  <2> DEFINE d == [db EXCEPT !.inv[req[r].i] = [req[r].seen EXCEPT !.status = "void"]]
  <2>1. db' = d \/ db' = Reversed(d, req[r].i, req[r].seen)
    BY <1>8 DEF Void, Commit, Then
  <2>2. d.rct = db.rct /\ d.app = db.app /\ d.advances = db.advances
    BY <1>1 DEF Db
  <2> HIDE DEF d
  <2> QED BY <1>2, <2>1, <2>2 DEF ReceiptsLeft
<1>9. CASE Delete(r)
  <2> DEFINE d == [db EXCEPT !.inv[req[r].i] = [NoInvoice EXCEPT !.status = "gone"]]
  <2>1. db' = d \/ db' = Reversed(d, req[r].i, req[r].seen)
    BY <1>9 DEF Delete, Commit, Then
  <2>2. d.rct = db.rct /\ d.app = db.app /\ d.advances = db.advances
    BY <1>1 DEF Db
  <2> HIDE DEF d
  <2> QED BY <1>2, <2>1, <2>2 DEF ReceiptsLeft
<1>10. CASE Memo(r)
  BY <1>1, <1>10 DEF Memo, Then, ReceiptsLeft
<1>11. CASE Absorb(r)
  BY <1>11 DEF Absorb, ReceiptsLeft
<1>12. CASE Credit(r)
  BY <1>4, <1>12 DEF Credit, Then
<1>13. CASE Refund(r)
  BY <1>1, <1>13 DEF Refund, Commit, Then, ReceiptsLeft
<1>14. CASE VoidMemo(r)
  BY <1>1, <1>14 DEF VoidMemo, Then, ReceiptsLeft
<1>15. CASE RemoveMemo(r)
  BY <1>1, <1>15 DEF RemoveMemo, Commit, Then, ReceiptsLeft
<1> QED BY <1>5, <1>6, <1>7, <1>8, <1>9, <1>10, <1>11, <1>12, <1>13, <1>14, <1>15

LEMMA ReceiptAdvanced ==
  ASSUME Typed, OneAtATime, Tied, apart, Advanced(db), NEW r \in Requests,
         Receive(r) \/ Apply(r)
  PROVE  Advanced(db')
<1> DEFINE c == req[r]
<1>1. c \in Calls /\ db \in Db /\ ~Idle(r)
  BY DEF Typed, Receive, Apply, Serving, Idle
<1>2. Books(db, Paid)
  BY <1>1, ServedFresh
<1>3. CASE Receive(r)
  <2>1. c \in ReceiveCall
    BY <1>1, <1>3, CallShapes DEF Receive, Serving
  <2>2. c.p \in Receipts /\ c.amount \in Nat /\ c.al \in Alloc /\ c.held \in BOOLEAN /\ c.owed \in Int
    BY <2>1, ReceivablesAssumption DEF ReceiveCall
  <2>3. /\ db.rct[c.p].status # "kept"
        /\ db' = Received(db, c.p, c.amount, c.al, c.held, c.owed)
    BY <1>3 DEF Receive, Commit, Then
  <2> HIDE DEF c
  <2>4. db.app[c.p] = NotApplied
    BY <1>2, <2>2, <2>3 DEF Books
  <2> QED BY <1>1, <2>2, <2>3, <2>4, ReceivedAdvances
<1>4. CASE Apply(r)
  <2>1. c \in ApplyCall
    BY <1>1, <1>4, CallShapes DEF Apply, Serving
  <2>2. c.p \in Receipts /\ c.al \in Alloc /\ c.owed \in Int
    BY <2>1 DEF ApplyCall
  <2>3. db' = Applied(db, c.p, c.al, c.owed)
    BY <1>4 DEF Apply, Commit, Then
  <2> HIDE DEF c
  <2> QED BY <1>1, <2>2, <2>3, AppliedAdvances
<1> QED BY <1>3, <1>4

LEMMA DeleteReceiptAdvanced ==
  ASSUME Typed, Typed', OneAtATime, Tied, apart, Advanced(db), NEW r \in Requests, DeleteReceipt(r)
  PROVE  Advanced(db')
<1> DEFINE c == req[r]
           of == Taken(c.app)
           touched == {i \in Invoices : of[i] > 0 /\ Exists(db.inv[i])}
           f == [i \in Invoices |-> IF i \in touched THEN Reopened(db.inv[i], of[i])
                                                      ELSE db.inv[i]]
           reopened == Refreshed([db EXCEPT !.inv = f], touched)
           at == Sum([i \in Invoices |-> c.app[i].at], Invoices)
           later == Sum([i \in Invoices |-> c.app[i].later], Invoices)
           row == [NoReceipt EXCEPT !.status = "gone"]
           d(owed) == [reopened EXCEPT
                         !.rct[c.p] = row,
                         !.app[c.p] = NotApplied,
                         !.book[c.p].undone = @ + c.amount,
                         !.owed = owed + at + later,
                         !.ar = @ + at + later,
                         !.advances = @ - (c.amount - at) + later,
                         !.cash = @ - c.amount]
<1>1. c \in Calls /\ db \in Db /\ db' \in Db /\ ~Idle(r)
  BY DEF Typed, DeleteReceipt, Serving, Idle
<1>2. c \in DeleteCall
  BY <1>1, CallShapes DEF DeleteReceipt, Serving
<1>3. c.p \in Receipts /\ c.app \in Shares /\ c.amount \in Nat
  BY <1>2 DEF DeleteCall
<1>4. PICK owed : db' = d(owed)
  BY DEF DeleteReceipt, Taken, Commit, Then
<1>5. c.app = db.app[c.p] /\ c.amount = db.rct[c.p].amount
  BY <1>1, <1>2, ServedFresh DEF DeleteCall, Fresh
<1>6. Sum(of, Invoices) = at + later /\ at \in Int /\ later \in Int
  <2> DEFINE g == [i \in Invoices |-> c.app[i].at]
             h == [i \in Invoices |-> c.app[i].later]
  <2>1. \A i \in Invoices : g[i] \in Int /\ h[i] \in Int /\ of[i] = g[i] + h[i]
    BY <1>3 DEF Shares, Taken
  <2> HIDE DEF g, h, of
  <2>2. Sum(of, Invoices) = Sum(g, Invoices) + Sum(h, Invoices)
    BY <2>1, ReceivablesAssumption, SumPlus
  <2>3. Sum(g, Invoices) \in Int /\ Sum(h, Invoices) \in Int
    BY <2>1, ReceivablesAssumption, SumInt
  <2> QED BY <2>2, <2>3 DEF g, h
<1>7. Used(db, c.p) = at + later
  BY <1>5, <1>6, UsedIs DEF of
<1> HIDE DEF of, at, later, row
<1>8. /\ db'.rct = [db.rct EXCEPT ![c.p] = row]
      /\ db'.app = [db.app EXCEPT ![c.p] = NotApplied]
      /\ db'.advances = db.advances - (c.amount - at) + later
  <2> HIDE DEF f, c, touched
  <2>1. /\ reopened.rct = db.rct /\ reopened.app = db.app
        /\ reopened.advances = db.advances
        /\ reopened = [reopened EXCEPT !.inv = f]
    BY <1>1 DEF Refreshed, Db
  <2>2. DOMAIN reopened = DOMAIN db
    BY DEF Refreshed
  <2> HIDE DEF reopened
  <2> QED BY <1>1, <1>4, <2>1, <2>2 DEF Db
<1>9. row.status # "kept" /\ row.amount = 0 /\ row \in RctRow
  BY DEF row, NoReceipt, RctRow, RctFields
<1> DEFINE p == c.p
           e == db'
           amount == c.amount
<1>10. /\ e \in Db /\ p \in Receipts /\ amount \in Nat /\ db.rct[p].amount = amount
       /\ e.rct = [db.rct EXCEPT ![p] = row] /\ e.app = [db.app EXCEPT ![p] = NotApplied]
       /\ e.advances = db.advances - (amount - at) + later /\ Used(db, p) = at + later
  BY <1>1, <1>3, <1>5, <1>7, <1>8
<1> HIDE DEF c, p, e, amount
<1>11. Sum(UsedOf(e), Receipts) = Sum(UsedOf(db), Receipts) + (0 - (at + later))
  <2>1. db.app \in [Receipts -> Shares]
    BY <1>1, DbFields
  <2>2. \A q \in Receipts : UsedOf(db)[q] \in Int /\ UsedOf(e)[q] \in Int
    BY <1>1, <1>10, FigureTypes
  <2>3. ASSUME NEW q \in Receipts \ {p}
        PROVE  UsedOf(e)[q] = UsedOf(db)[q]
    BY <1>10, <2>1, UsedSame DEF UsedOf
  <2>4. Sum(UsedOf(e), Receipts) = Sum(UsedOf(db), Receipts) + UsedOf(e)[p] - UsedOf(db)[p]
    BY <1>10, <2>2, <2>3, SumChange, ReceivablesAssumption
  <2>5. UsedOf(db)[p] = at + later
    BY <1>10 DEF UsedOf
  <2>6. UsedOf(e)[p] = 0
    BY <1>10, <2>1, UnusedReceipt DEF UsedOf
  <2>7. Sum(UsedOf(db), Receipts) \in Int
    BY <1>1, FigureSums
  <2> QED BY <1>6, <2>4, <2>5, <2>6, <2>7
<1>12. e.advances = db.advances + (row.amount - db.rct[p].amount) - (0 - (at + later))
  BY <1>1, <1>6, <1>9, <1>10, DbFields
<1>13. (0 - (at + later)) \in Int
  BY <1>6
<1>14. Advanced(e)
  <2> DEFINE used == 0 - (at + later)
  <2>1. /\ used \in Int /\ Sum(UsedOf(e), Receipts) = Sum(UsedOf(db), Receipts) + used
        /\ e.advances = db.advances + (row.amount - db.rct[p].amount) - used
    BY <1>11, <1>12, <1>13
  <2> HIDE DEF used
  <2> QED BY <1>1, <1>9, <1>10, <2>1, AdvancesMoved
<1> QED BY <1>14 DEF e

LEMMA SettleAdvanced ==
  ASSUME Typed, OneAtATime, Tied, apart, Advanced(db), NEW r \in Requests, Settle(r)
  PROVE  Advanced(db')
<1> DEFINE c == req[r]
           alone == Alone(c.i, c.a)
           advanced == Applied(db, c.p, alone, c.owed)
           credited == Credited(advanced, c.m, c.i, c.b)
           al == AutoApply(credited, c.cash)
           received == Received(credited, c.q, c.cash, al, FALSE, credited.owed)
<1>1. c \in Calls /\ db \in Db /\ ~Idle(r) /\ Amounts \subseteq Nat
  BY ReceivablesAssumption DEF Typed, Settle, Serving, Idle
<1>2. c \in SettleCall /\ Books(db, Paid)
  BY <1>1, CallShapes, ServedFresh DEF Settle, Serving
<1>3. /\ c.p \in Receipts /\ c.m \in Memos /\ c.q \in Receipts /\ c.i \in Invoices
      /\ c.a \in Nat /\ c.b \in Nat /\ c.cash \in Nat /\ c.owed \in Int
  <2>1. /\ c.p \in Receipts /\ c.m \in Memos /\ c.q \in Receipts /\ c.i \in Invoices
        /\ c.a \in Amounts /\ c.b \in Amounts /\ c.cash \in Amounts \cup {0} /\ c.owed \in Int
    BY <1>2 DEF SettleCall
  <2> HIDE DEF c
  <2>2. Amounts \cup {0} \subseteq Nat
    BY <1>1
  <2> QED BY <1>1, <2>1, <2>2
<1>4. /\ db.rct[c.p].status = "kept" /\ db.rct[c.q].status = "none"
      /\ db' = IF c.cash = 0 THEN credited ELSE received
  BY DEF Settle, MayApply, Then
<1>5. alone \in Alloc
  BY <1>3, AllocatedAlone
<1> DEFINE share == WithLater(db.app[c.p], alone)
<1> HIDE DEF alone, c
<1>6. /\ advanced \in Db /\ advanced.rct = db.rct /\ Advanced(advanced)
      /\ advanced.app = [db.app EXCEPT ![c.p] = share]
  BY <1>1, <1>3, <1>5, AppliedDb, AppliedAdvances, SMTT(40)
<1>7. advanced.app[c.q] = NotApplied
  <2>1. db.app[c.q] = NotApplied /\ db.app \in [Receipts -> Shares] /\ c.p # c.q
    BY <1>1, <1>2, <1>3, <1>4, DbFields DEF Books
  <2> HIDE DEF share
  <2> QED BY <1>3, <1>6, <2>1
<1> HIDE DEF advanced
<1>8. /\ credited \in Db /\ credited.rct = advanced.rct /\ credited.app = advanced.app
      /\ credited.advances = advanced.advances
  <2>1. credited \in Db /\ credited.rct = advanced.rct /\ credited.app = advanced.app
    <3>1. LET e == Credited(advanced, c.m, c.i, c.b)
          IN /\ e \in Db /\ e.rct = advanced.rct /\ e.app = advanced.app
             /\ e.owed = advanced.owed
             /\ e.memo = [advanced.memo EXCEPT ![c.m] = WithCredit(advanced.memo[c.m], c.b)]
      BY <1>3, <1>6, CreditedDb
    <3> QED BY <3>1
  <2>2. credited.advances = advanced.advances
    BY DEF Credited
  <2> QED BY <2>1, <2>2
<1> HIDE DEF credited
<1>9. Advanced(credited) /\ credited.rct[c.q].status # "kept" /\ credited.app[c.q] = NotApplied
  BY <1>4, <1>6, <1>7, <1>8, SameAdvances
<1>10. al \in Alloc /\ credited.owed \in Int
  BY <1>3, <1>8, AutoApplyWithin, DbFields
<1> HIDE DEF al
<1>11. Advanced(received)
  <2>1. ASSUME NEW held \in BOOLEAN
        PROVE  LET e == Received(credited, c.q, c.cash, al, held, credited.owed) IN Advanced(e)
    BY <1>3, <1>8, <1>9, <1>10, ReceivedAdvances
  <2>2. FALSE \in BOOLEAN
    OBVIOUS
  <2> QED BY <2>1, <2>2
<1> QED BY <1>4, <1>9, <1>11

LEMMA ApproveSaleAdvanced ==
  ASSUME Typed, ReceiptsSound, OneAtATime, Tied, apart, Advanced(db), NEW r \in Requests,
         ApproveSale(r)
  PROVE  Advanced(db')
<1> DEFINE c == req[r]
           raised == Raised(db, c.i, c.t, c.owed)
           use(p) == SmallerOf(Unapplied(db, p), c.t)
           P == CHOOSE p \in c.A : TRUE
           alone == Alone(c.i, use(P))
           applied == Applied(raised, P, alone, raised.owed)
           advanced == IF \A p \in c.A : use(p) = 0 THEN raised ELSE applied
           f == [p \in Receipts |-> IF p \in c.A THEN [advanced.rct[p] EXCEPT !.held = FALSE]
                                                 ELSE advanced.rct[p]]
           freed == [advanced EXCEPT !.rct = f]
           al == Alone(c.i, c.cash)
           received == Received(freed, c.q, c.cash, al, FALSE, freed.owed)
           collected == IF c.cash = 0 THEN freed ELSE received
<1>1. /\ c \in Calls /\ db \in Db /\ Amounts \subseteq Nat /\ ~Idle(r)
  BY ReceivablesAssumption DEF Typed, ApproveSale, Serving, Idle
<1>2. c \in SaleCall /\ Books(db, Paid)
  BY <1>1, CallShapes, ServedFresh DEF ApproveSale, Serving
<1>3. /\ c.i \in Invoices /\ c.t \in Nat /\ c.A \subseteq Receipts /\ c.q \in Receipts
      /\ c.cash \in Nat /\ c.owed \in Int
  <2>1. /\ c.i \in Invoices /\ c.t \in Amounts /\ c.A \subseteq Receipts /\ c.q \in Receipts
        /\ c.cash \in Amounts \cup {0} /\ c.owed \in Int
    BY <1>2 DEF SaleCall
  <2> HIDE DEF c
  <2>2. Amounts \cup {0} \subseteq Nat
    BY <1>1
  <2> QED BY <1>1, <2>1, <2>2
<1>4. /\ db' = [collected EXCEPT !.sale[c.i] = PaidStatusOf(collected.inv[c.i])]
      /\ db.rct[c.q].status = "none" /\ \A p \in c.A : db.rct[p].held
  BY DEF ApproveSale, Commit, Then
<1> HIDE DEF c
<1>5. /\ raised \in Db /\ raised.rct = db.rct /\ raised.app = db.app
      /\ raised.advances = db.advances
  <2>1. raised \in Db /\ raised.rct = db.rct /\ raised.app = db.app
    <3>1. LET e == Raised(db, c.i, c.t, c.owed)
          IN e \in Db /\ e.rct = db.rct /\ e.app = db.app /\ e.memo = db.memo
      BY <1>1, <1>3, RaisedDb
    <3> QED BY <3>1
  <2>2. raised.advances = db.advances
    BY DEF Raised
  <2> QED BY <2>1, <2>2
<1> HIDE DEF raised
<1>6. Advanced(raised) /\ db.app[c.q] = NotApplied /\ c.q \notin c.A
  <2>1. Advanced(raised)
    BY <1>5, SameAdvances
  <2>2. db.app[c.q] = NotApplied
    BY <1>2, <1>3, <1>4 DEF Books
  <2>3. db.rct[c.q] \in RctRow
    BY <1>1, <1>3, DbFields
  <2>4. ~db.rct[c.q].held
    BY <1>4, <2>3 DEF RctRow
  <2> QED BY <1>4, <2>1, <2>2, <2>4
<1>7. /\ advanced \in Db /\ Advanced(advanced) /\ advanced.rct = db.rct
      /\ advanced.app[c.q] = NotApplied
  <2>1. CASE \A p \in c.A : use(p) = 0
    BY <1>5, <1>6, <2>1
  <2>2. CASE ~ \A p \in c.A : use(p) = 0
    <3>1. P \in c.A
      BY <2>2
    <3>2. P \in Receipts /\ P # c.q
      BY <1>3, <1>6, <3>1
    <3> DEFINE u == use(P)
    <3>3. u \in Nat
      <4>1. db.rct[P] \in RctRow /\ Used(db, P) \in Nat /\ db.rct[P].held
        BY <1>1, <1>4, <3>1, <3>2, DbFields, UsedNat
      <4>2. db.rct[P].status = "kept" /\ db.rct[P].amount \in Nat
        BY <4>1 DEF RctRow, RctFields
      <4> HIDE DEF P
      <4>3. Used(db, P) <= db.rct[P].amount
        BY <3>2, <4>2 DEF ReceiptsSound, SpentWithin
      <4> QED BY <1>3, <4>1, <4>2, <4>3 DEF Unapplied, SmallerOf
    <3>4. alone \in Alloc
      BY <1>3, <3>3, AllocatedAlone
    <3> DEFINE share == WithLater(raised.app[P], alone)
    <3> HIDE DEF P, alone, use
    <3>5. /\ applied \in Db /\ applied.rct = raised.rct /\ Advanced(applied)
          /\ applied.app = [raised.app EXCEPT ![P] = share]
      <4>1. raised.owed \in Int
        BY <1>5, DbFields
      <4> QED BY <1>5, <1>6, <3>2, <3>4, <4>1, AppliedDb, AppliedAdvances
    <3> HIDE DEF share
    <3>6. applied.app[c.q] = NotApplied
      BY <1>1, <1>3, <1>5, <1>6, <3>2, <3>5, DbFields
    <3> HIDE DEF applied
    <3>7. advanced = applied
      BY <2>2 DEF use
    <3> HIDE DEF advanced
    <3> QED BY <1>5, <3>5, <3>6, <3>7
  <2> QED BY <2>1, <2>2
<1> HIDE DEF advanced
<1>8. ASSUME NEW p \in Receipts
      PROVE  /\ f[p] \in RctRow /\ f[p].status = advanced.rct[p].status
             /\ f[p].amount = advanced.rct[p].amount
  <2> DEFINE row == advanced.rct[p]
             free == [row EXCEPT !.held = FALSE]
  <2>1. row \in RctRow
    BY <1>7, DbFields
  <2>2. f[p] \in {row, free}
    OBVIOUS
  <2> HIDE DEF row, f
  <2>3. free \in RctRow /\ free.status = row.status /\ free.amount = row.amount
    BY <2>1 DEF RctRow, RctFields
  <2> QED BY <2>1, <2>2, <2>3 DEF row
<1>9. f \in [Receipts -> RctRow]
  BY <1>8
<1> HIDE DEF f
<1>10. /\ freed \in Db /\ freed.rct = f /\ freed.app = advanced.app
       /\ freed.advances = advanced.advances
  BY <1>7, <1>9 DEF Db
<1> HIDE DEF freed
<1>11. /\ Advanced(freed) /\ freed.rct[c.q].status # "kept" /\ freed.app[c.q] = NotApplied
       /\ freed.owed \in Int
  <2>1. Advanced(freed)
    BY <1>7, <1>8, <1>10, SameAdvances
  <2> QED BY <1>3, <1>4, <1>7, <1>8, <1>10, <2>1, DbFields
<1>12. al \in Alloc
  BY <1>3, AllocatedAlone
<1> HIDE DEF al
<1>13. Advanced(received)
  <2>1. ASSUME NEW held \in BOOLEAN
        PROVE  LET e == Received(freed, c.q, c.cash, al, held, freed.owed) IN Advanced(e)
    BY <1>3, <1>10, <1>11, <1>12, ReceivedAdvances
  <2>2. FALSE \in BOOLEAN
    OBVIOUS
  <2> QED BY <2>1, <2>2
<1> HIDE DEF received
<1>14. Advanced(collected)
  BY <1>11, <1>13
<1> HIDE DEF collected
<1>15. /\ db'.rct = collected.rct /\ db'.app = collected.app
       /\ db'.advances = collected.advances
  BY <1>4
<1> DEFINE e == db'
<1>16. e.rct = collected.rct /\ e.app = collected.app /\ e.advances = collected.advances
  BY <1>15
<1> HIDE DEF e
<1>17. Advanced(e)
  BY <1>14, <1>16, SameAdvances
<1> QED BY <1>17 DEF e

(* While requests never overlap, account 2400 is what the receipts have     *)
(* left.                                                                    *)
AdvancesTied == apart => Advanced(db)

LEMMA StepAdvanced ==
  ASSUME Typed, Typed', ReceiptsSound, OneAtATime, Tied, AdvancesTied, [Next]_vars
  PROVE  AdvancesTied'
<1>1. SUFFICES ASSUME apart' PROVE Advanced(db)'
  BY DEF AdvancesTied
<1>2. ASSUME ReceiptsLeft(db, db'), apart
      PROVE  Advanced(db)'
  <2> DEFINE e == db'
  <2>1. Advanced(db) /\ e.rct = db.rct /\ e.app = db.app /\ e.advances = db.advances
    BY <1>2 DEF AdvancesTied, ReceiptsLeft
  <2> HIDE DEF e
  <2>2. Advanced(e)
    BY <2>1, SameAdvances
  <2> QED BY <2>2 DEF e
<1>3. ASSUME NEW r \in Requests, AskStep(r) \/ Drop(r)
      PROVE  Advanced(db)'
  <2>1. (apart' => apart) /\ db' = db
    <3>1. ASSUME NEW call, Ask(r, call)
          PROVE  (apart' => apart) /\ db' = db
      BY <3>1 DEF Ask
    <3>2. CASE AskStep(r)
      <4>1. \E call : Ask(r, call)
        BY <3>2 DEF AskStep, AskCreate, AskInvoice, AskReceive, AskApply, AskDeleteReceipt,
                    AskSettle, AskApproveSale, AskMemo, AskCredit, AskMemoEnd
      <4> QED BY <3>1, <4>1
    <3>3. CASE Drop(r)
      BY <3>3 DEF Drop
    <3> QED BY <1>3, <3>2, <3>3
  <2>2. ReceiptsLeft(db, db')
    BY <2>1 DEF ReceiptsLeft
  <2> QED BY <1>1, <1>2, <2>1, <2>2
<1>4. ASSUME NEW r \in Requests, ServeStep(r)
      PROVE  Advanced(db)'
  <2>1. apart' = apart
    BY <1>4 DEF ServeStep, Create, Update, Send, Void, Delete, Receive, Apply, DeleteReceipt,
                Settle, ApproveSale, Memo, Absorb, Credit, Refund, VoidMemo, RemoveMemo,
                Commit, Then
  <2>2. CASE \/ Create(r) \/ Update(r) \/ Send(r) \/ Void(r) \/ Delete(r)
             \/ Memo(r) \/ Absorb(r) \/ Credit(r) \/ Refund(r) \/ VoidMemo(r) \/ RemoveMemo(r)
    BY <1>1, <1>2, <2>1, <2>2, OthersLeaveReceipts
  <2>3. CASE Receive(r) \/ Apply(r)
    BY <1>1, <2>1, <2>3, ReceiptAdvanced DEF AdvancesTied
  <2>4. CASE DeleteReceipt(r)
    BY <1>1, <2>1, <2>4, DeleteReceiptAdvanced DEF AdvancesTied
  <2>5. CASE Settle(r)
    BY <1>1, <2>1, <2>5, SettleAdvanced DEF AdvancesTied
  <2>6. CASE ApproveSale(r)
    BY <1>1, <2>1, <2>6, ApproveSaleAdvanced DEF AdvancesTied
  <2> QED BY <1>4, <2>2, <2>3, <2>4, <2>5, <2>6 DEF ServeStep
<1>5. CASE ReleaseAdvance
  <2>1. PICK p \in Receipts : db' = [db EXCEPT !.rct[p].held = FALSE]
    BY <1>5 DEF ReleaseAdvance, Kept
  <2>2. apart' = apart /\ db \in Db
    BY <1>5 DEF ReleaseAdvance, Typed
  <2> DEFINE e == db'
  <2>3. /\ e.app = db.app /\ e.advances = db.advances
        /\ e.rct = [db.rct EXCEPT ![p].held = FALSE]
    BY <2>1, <2>2 DEF Db
  <2>4. db.rct \in [Receipts -> RctFields]
    BY <2>2, DbFields DEF RctRow
  <2> HIDE DEF e
  <2>5. ASSUME NEW q \in Receipts
        PROVE  e.rct[q].status = db.rct[q].status /\ e.rct[q].amount = db.rct[q].amount
    BY <2>3, <2>4 DEF RctFields
  <2>6. Advanced(db)
    BY <1>1, <2>2 DEF AdvancesTied
  <2>7. Advanced(e)
    BY <2>3, <2>5, <2>6, SameAdvances
  <2> QED BY <2>7 DEF e
<1>6. CASE UNCHANGED vars
  BY <1>1, <1>2, <1>6 DEF vars, ReceiptsLeft
<1> QED BY <1>3, <1>4, <1>5, <1>6 DEF Next

-----------------------------------------------------------------------------
(* What a memo is worth is in its balance, in what it paid and in what was  *)
(* refunded; one that no longer counts paid and refunded nothing.           *)
MemoWhole(row, paid, back) ==
  /\ row.status \in {"open", "applied", "closed"} => back = 0
  /\ row.status = "refunded" => row.balance = 0 /\ row.total = paid + back
  /\ row.status \in {"none", "void", "gone"} => paid = 0 /\ back = 0
MemosWhole == \A m \in Memos : MemoWhole(db.memo[m], spent[m], db.refund[m])
MemosTied == apart => MemosWhole

LEMMA MemoStaysWhole ==
  ASSUME Typed, Typed', MemosWhole, NEW m \in Memos, NEW row, NEW paid, NEW back,
         db'.memo = [db.memo EXCEPT ![m] = row], spent' = [spent EXCEPT ![m] = paid],
         db'.refund = [db.refund EXCEPT ![m] = back], MemoWhole(row, paid, back)
  PROVE  MemosWhole'
<1>1. /\ db.memo \in [Memos -> MemoRow] /\ db.refund \in [Memos -> Int]
      /\ spent \in [Memos -> Nat]
  BY DbFields DEF Typed
<1>2. ASSUME NEW j \in Memos
      PROVE  MemoWhole(db'.memo[j], spent'[j], db'.refund[j])
  <2>1. CASE j = m
    BY <1>1, <2>1
  <2>2. CASE j # m
    <3>1. db'.memo[j] = db.memo[j] /\ spent'[j] = spent[j] /\ db'.refund[j] = db.refund[j]
      BY <1>1, <2>2
    <3> QED BY <3>1 DEF MemosWhole
  <2> QED BY <2>1, <2>2
<1> QED BY <1>2 DEF MemosWhole

LEMMA MemoRowWhole ==
  ASSUME Typed, Typed', MemosWhole, NEW m \in Memos, NEW row,
         db'.memo = [db.memo EXCEPT ![m] = row], spent' = spent, db'.refund = db.refund,
         MemoWhole(row, spent[m], db.refund[m])
  PROVE  MemosWhole'
<1>1. db.refund \in [Memos -> Int] /\ spent \in [Memos -> Nat]
  BY DbFields DEF Typed
<1>2. spent' = [spent EXCEPT ![m] = spent[m]] /\ db'.refund = [db.refund EXCEPT ![m] = db.refund[m]]
  BY <1>1
<1> QED BY <1>2, MemoStaysWhole

(* Transactions that touch no memo.                                         *)
MemosLeft(d, e) == e.memo = d.memo /\ e.refund = d.refund

LEMMA OthersLeaveMemos ==
  ASSUME Typed, NEW r \in Requests,
         \/ Create(r) \/ Update(r) \/ Send(r) \/ Void(r) \/ Delete(r) \/ Receive(r)
         \/ Apply(r) \/ DeleteReceipt(r) \/ ApproveSale(r) \/ Absorb(r)
  PROVE  MemosLeft(db, db') /\ spent' = spent
<1>1. db \in Db
  BY DEF Typed
<1>2. \A d, i, row : MemosLeft(d, Reversed(d, i, row))
  BY DEF MemosLeft, Reversed
<1>3. \A d, i, t, o : MemosLeft(d, Raised(d, i, t, o))
  BY DEF MemosLeft, Raised
<1>4. \A d, al : MemosLeft(d, PaidAll(d, al))
  BY DEF MemosLeft, PaidAll, Refreshed
<1>5. \A d, p, amount, al, held, o : MemosLeft(d, Received(d, p, amount, al, held, o))
  BY <1>4 DEF MemosLeft, Received
<1>6. \A d, p, al, o : MemosLeft(d, Applied(d, p, al, o))
  BY <1>4 DEF MemosLeft, Applied
<1>7. CASE Create(r)
  BY <1>1, <1>3, <1>7 DEF Create, Commit, Then, MemosLeft
<1>8. CASE Update(r)
  BY <1>1, <1>8 DEF Update, Commit, Then, MemosLeft
<1>9. CASE Send(r)
  BY <1>1, <1>9 DEF Send, Commit, Then, MemosLeft
<1>10. CASE Void(r)
  <2> DEFINE d == [db EXCEPT !.inv[req[r].i] = [req[r].seen EXCEPT !.status = "void"]]
  <2>1. (db' = d \/ db' = Reversed(d, req[r].i, req[r].seen)) /\ spent' = spent
    BY <1>10 DEF Void, Commit, Then
  <2>2. d.memo = db.memo /\ d.refund = db.refund
    BY <1>1 DEF Db
  <2> HIDE DEF d
  <2> QED BY <1>2, <2>1, <2>2 DEF MemosLeft
<1>11. CASE Delete(r)
  <2> DEFINE d == [db EXCEPT !.inv[req[r].i] = [NoInvoice EXCEPT !.status = "gone"]]
  <2>1. (db' = d \/ db' = Reversed(d, req[r].i, req[r].seen)) /\ spent' = spent
    BY <1>11 DEF Delete, Commit, Then
  <2>2. d.memo = db.memo /\ d.refund = db.refund
    BY <1>1 DEF Db
  <2> HIDE DEF d
  <2> QED BY <1>2, <2>1, <2>2 DEF MemosLeft
<1>12. CASE Receive(r)
  BY <1>5, <1>12 DEF Receive, Commit, Then
<1>13. CASE Apply(r)
  BY <1>6, <1>13 DEF Apply, Commit, Then
<1>14. CASE DeleteReceipt(r)
  <2> DEFINE c == req[r]
             of == [i \in Invoices |-> c.app[i].at + c.app[i].later]
             touched == {i \in Invoices : of[i] > 0 /\ Exists(db.inv[i])}
             reopened == Refreshed([db EXCEPT !.inv = [i \in Invoices |->
                            IF i \in touched THEN Reopened(db.inv[i], of[i]) ELSE db.inv[i]]],
                          touched)
             at == Sum([i \in Invoices |-> c.app[i].at], Invoices)
             later == Sum([i \in Invoices |-> c.app[i].later], Invoices)
  <2>1. PICK owed :
          /\ db' = [reopened EXCEPT
                      !.rct[c.p] = [NoReceipt EXCEPT !.status = "gone"],
                      !.app[c.p] = NotApplied,
                      !.book[c.p].undone = @ + c.amount,
                      !.owed = owed + at + later,
                      !.ar = @ + at + later,
                      !.advances = @ - (c.amount - at) + later,
                      !.cash = @ - c.amount]
          /\ spent' = spent
    BY <1>14 DEF DeleteReceipt, Commit, Then
  <2>2. reopened.memo = db.memo /\ reopened.refund = db.refund
    BY DEF Refreshed
  <2> HIDE DEF reopened, at, later, c
  <2> QED BY <2>1, <2>2 DEF MemosLeft
<1>15. CASE ApproveSale(r)
  <2> DEFINE c == req[r]
             raised == Raised(db, c.i, c.t, c.owed)
             use(p) == SmallerOf(Unapplied(db, p), c.t)
             P == CHOOSE p \in c.A : TRUE
             applied == Applied(raised, P, Alone(c.i, use(P)), raised.owed)
             advanced == IF \A p \in c.A : use(p) = 0 THEN raised ELSE applied
             f == [p \in Receipts |-> IF p \in c.A THEN [advanced.rct[p] EXCEPT !.held = FALSE]
                                                   ELSE advanced.rct[p]]
             freed == [advanced EXCEPT !.rct = f]
             received == Received(freed, c.q, c.cash, Alone(c.i, c.cash), FALSE, freed.owed)
             collected == IF c.cash = 0 THEN freed ELSE received
  <2>1. /\ db' = [collected EXCEPT !.sale[c.i] = PaidStatusOf(collected.inv[c.i])]
        /\ spent' = spent
    BY <1>15 DEF ApproveSale, Commit, Then
  <2>2. MemosLeft(db, raised)
    BY <1>3
  <2>3. MemosLeft(raised, applied)
    BY <1>6
  <2>4. MemosLeft(freed, received)
    BY <1>5
  <2> HIDE DEF c, raised, applied, received, f, use
  <2>5. MemosLeft(db, advanced)
    BY <2>2, <2>3 DEF MemosLeft
  <2> HIDE DEF advanced
  <2>6. MemosLeft(advanced, freed)
    BY DEF MemosLeft
  <2> HIDE DEF freed
  <2>7. MemosLeft(db, collected)
    BY <2>4, <2>5, <2>6 DEF MemosLeft
  <2> HIDE DEF collected
  <2> QED BY <2>1, <2>7 DEF MemosLeft
<1>16. CASE Absorb(r)
  BY <1>16 DEF Absorb, MemosLeft
<1> QED BY <1>7, <1>8, <1>9, <1>10, <1>11, <1>12, <1>13, <1>14, <1>15, <1>16

(* A memo that pays on an invoice is closed or stays applied.               *)
LEMMA CreditedWhole ==
  ASSUME NEW row \in MemoRow, row.status \in {"open", "applied"}, NEW a \in Nat,
         NEW paid, NEW back, MemoWhole(row, paid, back), NEW more
  PROVE  MemoWhole(WithCredit(row, a), more, back)
<1> DEFINE left == row.total - (row.applied + a)
           st == IF left <= 0 THEN "closed" ELSE "applied"
           ap == row.applied + a
<1>1. row \in MemoFields /\ st \in {"closed", "applied"}
  BY DEF MemoRow
<1>2. WithCredit(row, a) = [row EXCEPT !.applied = ap, !.balance = left, !.status = st]
  BY DEF WithCredit
<1> HIDE DEF left, st, ap
<1>3. WithCredit(row, a).status = st
  BY <1>1, <1>2 DEF MemoFields
<1> QED BY <1>1, <1>3 DEF MemoWhole

(* What a request that ends a memo has read of it is so when it is served.  *)
MemoFresh(c, d) ==
  /\ c.op \in {"refund", "voidMemo"} => c.seen = d.memo[c.m]
  /\ c.op = "voidMemo" => c.seen.status \in {"open", "applied", "closed"} /\ c.seen.applied = 0
  /\ c.op = "removeMemo" => d.memo[c.m].status \in {"void", "gone"}

LEMMA MemoStepWhole ==
  ASSUME Typed, Typed', MemosSound, MemosWhole, NEW r \in Requests, MemoFresh(req[r], db),
         \/ Memo(r) \/ Credit(r) \/ Settle(r) \/ Refund(r) \/ VoidMemo(r) \/ RemoveMemo(r)
  PROVE  MemosWhole'
<1> DEFINE c == req[r]
<1>1. /\ c \in Calls /\ db \in Db /\ ~Idle(r) /\ Amounts \subseteq Nat
      /\ db.memo \in [Memos -> MemoRow] /\ db.refund \in [Memos -> Int]
      /\ spent \in [Memos -> Nat]
  BY ReceivablesAssumption, DbFields
     DEF Typed, Memo, Credit, Settle, Refund, VoidMemo, RemoveMemo, Serving, Idle
<1>2. MemoFresh(c, db)
  OBVIOUS
<1>3. \A m \in Memos : /\ MemoWhole(db.memo[m], spent[m], db.refund[m])
                       /\ Counted(db.memo[m], spent[m]) /\ db.memo[m] \in MemoRow
                       /\ spent[m] \in Nat /\ db.refund[m] \in Int
  BY <1>1 DEF MemosWhole, MemosSound
<1>4. CASE Memo(r)
  <2> DEFINE row == [status |-> "open", total |-> c.t, applied |-> 0, balance |-> c.t, of |-> c.S]
  <2>1. c \in MemoCall
    BY <1>1, <1>4, CallShapes DEF Memo, Serving
  <2>2. c.m \in Memos
    BY <2>1 DEF MemoCall
  <2>3. /\ db'.memo = [db.memo EXCEPT ![c.m] = row] /\ db'.refund = db.refund
        /\ spent' = spent /\ db.memo[c.m].status = "none"
    BY <1>1, <1>4 DEF Memo, Then, Db
  <2>4. row.status = "open"
    OBVIOUS
  <2> HIDE DEF c, row
  <2>5. MemoWhole(row, spent[c.m], db.refund[c.m])
    BY <1>3, <2>2, <2>3, <2>4 DEF MemoWhole
  <2> QED BY <2>2, <2>3, <2>5, MemoRowWhole
<1>5. ASSUME NEW d \in Db, d.memo = db.memo, d.refund = db.refund, NEW m \in Memos,
             NEW i \in Invoices, NEW a \in Nat, MayCredit(d, m, i, a),
             MemosLeft(Credited(d, m, i, a), db'), spent' = [spent EXCEPT ![m] = @ + a]
      PROVE  MemosWhole'
  <2> DEFINE row == WithCredit(db.memo[m], a)
             e == Credited(d, m, i, a)
  <2>1. /\ e \in Db /\ e.rct = d.rct /\ e.app = d.app /\ e.owed = d.owed
        /\ e.memo = [d.memo EXCEPT ![m] = WithCredit(d.memo[m], a)]
    BY <1>5, CreditedDb
  <2>2. e.refund = d.refund
    BY DEF Credited
  <2>3. db'.memo = [db.memo EXCEPT ![m] = row] /\ db'.refund = db.refund
    BY <1>5, <2>1, <2>2 DEF MemosLeft
  <2>4. db.memo[m].status \in {"open", "applied"}
    BY <1>5 DEF MayCredit
  <2>5. MemoWhole(row, spent[m] + a, db.refund[m])
    BY <1>3, <1>5, <2>4, CreditedWhole
  <2> HIDE DEF row, e
  <2>6. /\ spent' = [spent EXCEPT ![m] = spent[m] + a]
        /\ db'.refund = [db.refund EXCEPT ![m] = db.refund[m]]
    BY <1>1, <1>5, <2>3
  <2> QED BY <2>3, <2>5, <2>6, MemoStaysWhole
<1>6. CASE Credit(r)
  <2>1. c \in CreditCall
    BY <1>1, <1>6, CallShapes DEF Credit, Serving
  <2>2. /\ c.m \in Memos /\ c.i \in Invoices /\ c.a \in Int /\ c.a > 0
        /\ MayCredit(db, c.m, c.i, c.a)
    BY <1>6, <2>1 DEF CreditCall, Credit, MayCredit, MayPay
  <2>3. /\ db' = Credited(db, c.m, c.i, c.a) /\ spent' = [spent EXCEPT ![c.m] = @ + c.a]
    BY <1>6 DEF Credit, Then
  <2> HIDE DEF c
  <2>4. MemosLeft(Credited(db, c.m, c.i, c.a), db') /\ c.a \in Nat
    BY <2>2, <2>3 DEF MemosLeft
  <2> QED BY <1>1, <1>5, <2>2, <2>3, <2>4
<1>7. CASE Settle(r)
  <2> DEFINE advanced == Applied(db, c.p, Alone(c.i, c.a), c.owed)
             credited == Credited(advanced, c.m, c.i, c.b)
             received == Received(credited, c.q, c.cash, AutoApply(credited, c.cash), FALSE,
                                  credited.owed)
  <2>1. c \in SettleCall
    BY <1>1, <1>7, CallShapes DEF Settle, Serving
  <2>2. /\ c.p \in Receipts /\ c.m \in Memos /\ c.i \in Invoices
        /\ c.a \in Nat /\ c.b \in Nat /\ c.owed \in Int
    BY <1>1, <2>1 DEF SettleCall
  <2>3. /\ db' = IF c.cash = 0 THEN credited ELSE received
        /\ spent' = [spent EXCEPT ![c.m] = @ + c.b] /\ MayCredit(advanced, c.m, c.i, c.b)
    BY <1>7 DEF Settle, Then
  <2>4. \A d, al : MemosLeft(d, PaidAll(d, al))
    BY DEF MemosLeft, PaidAll, Refreshed
  <2>5. MemosLeft(db, advanced)
    BY <2>4 DEF MemosLeft, Applied
  <2>6. MemosLeft(credited, received)
    BY <2>4 DEF MemosLeft, Received
  <2>7. advanced \in Db
    BY <1>1, <2>2, AllocatedAlone, AppliedParts
  <2> HIDE DEF advanced, received, c
  <2>8. MemosLeft(credited, db')
    BY <2>3, <2>6 DEF MemosLeft
  <2> QED BY <1>5, <2>2, <2>3, <2>5, <2>7, <2>8 DEF MemosLeft
<1>8. CASE Refund(r)
  <2> DEFINE row == [c.seen EXCEPT !.balance = 0, !.status = "refunded"]
             by == c.seen.balance
  <2>1. c \in RefundCall /\ c.op = "refund"
    BY <1>1, <1>8, CallShapes DEF Refund, Serving
  <2>2. /\ c.m \in Memos /\ c.seen \in MemoRow /\ c.seen \in MemoFields /\ by \in Int
        /\ by > 0 /\ c.seen = db.memo[c.m]
    BY <1>2, <1>8, <2>1 DEF RefundCall, MemoRow, MemoFields, Refund, MemoFresh
  <2>3. /\ db' = [db EXCEPT !.memo[c.m] = row, !.refund[c.m] = @ + c.seen.balance,
                            !.owed = @ + c.seen.balance, !.ar = @ + c.seen.balance,
                            !.cash = @ - c.seen.balance]
        /\ spent' = spent
    BY <1>8 DEF Refund, Commit, Then
  <2>4. row.balance = 0 /\ row.status = "refunded" /\ row.total = c.seen.total
    BY <2>2 DEF MemoFields
  <2> HIDE DEF c, row
  <2>5. /\ db'.memo = [db.memo EXCEPT ![c.m] = row]
        /\ db'.refund = [db.refund EXCEPT ![c.m] = @ + by]
    BY <1>1, <2>3 DEF Db
  <2>6. c.seen.status \in {"open", "applied"} /\ c.seen.total \in Int /\ c.seen.applied \in Int
    BY <2>2 DEF MemoRow, MemoFields
  <2>7. c.seen.total = spent[c.m] + by /\ db.refund[c.m] = 0
    <3>1. db.refund[c.m] = 0
      BY <1>3, <2>2, <2>6 DEF MemoWhole
    <3>2. c.seen.applied = spent[c.m] /\ c.seen.balance = c.seen.total - c.seen.applied
      BY <1>3, <2>2, <2>6 DEF Counted
    <3>3. c.seen.balance \in Int /\ by = c.seen.balance
      BY <2>2
    <3> QED BY <2>6, <3>1, <3>2, <3>3
  <2> HIDE DEF by
  <2>8. MemoWhole(row, spent[c.m], db.refund[c.m] + by)
    BY <1>3, <2>2, <2>4, <2>7 DEF MemoWhole
  <2>9. /\ spent' = [spent EXCEPT ![c.m] = spent[c.m]]
        /\ db'.refund = [db.refund EXCEPT ![c.m] = db.refund[c.m] + by]
    BY <1>1, <2>2, <2>3, <2>5
  <2> QED BY <2>2, <2>5, <2>8, <2>9, MemoStaysWhole
<1>9. CASE VoidMemo(r)
  <2> DEFINE row == [c.seen EXCEPT !.balance = 0, !.status = "void"]
  <2>1. c \in VoidCall /\ c.op = "voidMemo"
    BY <1>1, <1>9, CallShapes DEF VoidMemo, Serving
  <2>2. /\ c.m \in Memos /\ c.seen \in MemoFields /\ c.seen = db.memo[c.m]
        /\ c.seen.status \in {"open", "applied", "closed"} /\ c.seen.applied = 0
    BY <1>2, <2>1 DEF VoidCall, MemoRow, MemoFresh
  <2>3. /\ db' = [db EXCEPT !.memo[c.m] = row, !.book[c.m].undone = @ + c.seen.total,
                            !.owed = @ + c.seen.total, !.ar = @ + c.seen.total]
        /\ spent' = spent
    BY <1>9 DEF VoidMemo, Then
  <2>4. row.status = "void"
    BY <2>2 DEF MemoFields
  <2> HIDE DEF c, row
  <2>5. db'.memo = [db.memo EXCEPT ![c.m] = row] /\ db'.refund = db.refund
    BY <1>1, <2>3 DEF Db
  <2>6. spent[c.m] = 0 /\ db.refund[c.m] = 0
    BY <1>3, <2>2 DEF MemoWhole, Counted
  <2>7. MemoWhole(row, spent[c.m], db.refund[c.m])
    BY <2>4, <2>6 DEF MemoWhole
  <2> QED BY <2>2, <2>3, <2>5, <2>7, MemoRowWhole
<1>10. CASE RemoveMemo(r)
  <2> DEFINE row == [NoMemo EXCEPT !.status = "gone"]
  <2>1. c \in RemoveCall /\ c.op = "removeMemo"
    BY <1>1, <1>10, CallShapes DEF RemoveMemo, Serving
  <2>2. c.m \in Memos /\ db.memo[c.m].status \in {"void", "gone"}
    BY <1>2, <2>1 DEF RemoveCall, MemoFresh
  <2>3. db' = [db EXCEPT !.memo[c.m] = row] /\ spent' = spent
    BY <1>10 DEF RemoveMemo, Commit, Then
  <2>4. row.status = "gone"
    BY DEF NoMemo
  <2> HIDE DEF c, row
  <2>5. db'.memo = [db.memo EXCEPT ![c.m] = row] /\ db'.refund = db.refund
    BY <1>1, <2>3 DEF Db
  <2>6. MemoWhole(row, spent[c.m], db.refund[c.m])
    BY <1>3, <2>2, <2>4 DEF MemoWhole
  <2> QED BY <2>2, <2>3, <2>5, <2>6, MemoRowWhole
<1> QED BY <1>4, <1>6, <1>7, <1>8, <1>9, <1>10

LEMMA StepWhole ==
  ASSUME Typed, Typed', MemosSound, OneAtATime, Tied, MemosTied, [Next]_vars
  PROVE  MemosTied'
<1>1. SUFFICES ASSUME apart' PROVE MemosWhole'
  BY DEF MemosTied
<1>2. ASSUME MemosLeft(db, db'), spent' = spent, apart
      PROVE  MemosWhole'
  BY <1>2 DEF MemosTied, MemosWhole, MemosLeft
<1>3. ASSUME NEW r \in Requests, AskStep(r) \/ Drop(r)
      PROVE  MemosWhole'
  <2>1. (apart' => apart) /\ db' = db /\ spent' = spent
    <3>1. ASSUME NEW call, Ask(r, call)
          PROVE  (apart' => apart) /\ db' = db /\ spent' = spent
      BY <3>1 DEF Ask
    <3>2. CASE AskStep(r)
      <4>1. \E call : Ask(r, call)
        BY <3>2 DEF AskStep, AskCreate, AskInvoice, AskReceive, AskApply, AskDeleteReceipt,
                    AskSettle, AskApproveSale, AskMemo, AskCredit, AskMemoEnd
      <4> QED BY <3>1, <4>1
    <3>3. CASE Drop(r)
      BY <3>3 DEF Drop
    <3> QED BY <1>3, <3>2, <3>3
  <2> QED BY <1>1, <1>2, <2>1 DEF MemosLeft
<1>4. ASSUME NEW r \in Requests, ServeStep(r)
      PROVE  MemosWhole'
  <2>1. apart' = apart
    BY <1>4 DEF ServeStep, Create, Update, Send, Void, Delete, Receive, Apply, DeleteReceipt,
                Settle, ApproveSale, Memo, Absorb, Credit, Refund, VoidMemo, RemoveMemo,
                Commit, Then
  <2>2. CASE \/ Create(r) \/ Update(r) \/ Send(r) \/ Void(r) \/ Delete(r) \/ Receive(r)
             \/ Apply(r) \/ DeleteReceipt(r) \/ ApproveSale(r) \/ Absorb(r)
    BY <1>1, <1>2, <2>1, <2>2, OthersLeaveMemos
  <2>3. CASE \/ Memo(r) \/ Credit(r) \/ Settle(r) \/ Refund(r) \/ VoidMemo(r) \/ RemoveMemo(r)
    <3>1. apart /\ MemosWhole /\ ~Idle(r)
      BY <1>1, <2>1, <2>3 DEF MemosTied, Memo, Credit, Settle, Refund, VoidMemo, RemoveMemo,
                              Serving, Idle
    <3>2. MemoFresh(req[r], db)
      BY <3>1 DEF OneAtATime, Fresh, MemoFresh
    <3> QED BY <2>3, <3>1, <3>2, MemoStepWhole
  <2> QED BY <1>4, <2>2, <2>3 DEF ServeStep
<1>5. CASE ReleaseAdvance
  BY <1>1, <1>2, <1>5 DEF ReleaseAdvance, MemosLeft
<1>6. CASE UNCHANGED vars
  BY <1>1, <1>2, <1>6 DEF vars, MemosLeft
<1> QED BY <1>3, <1>4, <1>5, <1>6 DEF Next

-----------------------------------------------------------------------------
(* The same, whatever else overlaps, where the requests that refund or void *)
(* a memo are served alone: what they have read of it stays so.             *)
EndsMemo(c) == Ahead(c) \cap {"refund", "voidMemo"} # {}
EndsAlone == \A q, r \in Requests : q # r /\ EndsMemo(req[r]) => Idle(q)
MemosRead == \A r \in Requests : MemoFresh(req[r], db)
OthersServed == {"refund", "voidMemo"} \cap Overlapping = {}

LEMMA EndsMemoIs ==
  ASSUME NEW c
  PROVE  EndsMemo(c) <=> \/ c.op \in {"refund", "voidMemo"}
                         \/ c.op \in {"memo", "absorb", "credit"} /\ c.refund
  BY DEF EndsMemo, Ahead

(* An ended memo stays so.                                                  *)
EndedStay ==
  \A m \in Memos : db.memo[m].status \in {"void", "gone"} => db'.memo[m].status \in {"void", "gone"}

LEMMA ServedAlone ==
  ASSUME Typed, EndsAlone, MemosRead, NEW r \in Requests, ~Idle(r), NEW c,
         req' = [req EXCEPT ![r] = c], EndsMemo(c) => EndsMemo(req[r]), MemoFresh(c, db'),
         EndedStay
  PROVE  EndsAlone' /\ MemosRead'
<1>1. \A q \in Requests : req'[q] = IF q = r THEN c ELSE req[q]
  BY DEF Typed
<1>2. \A q \in Requests \ {r} : ~EndsMemo(req[q])
  BY DEF EndsAlone
<1>3. EndsAlone'
  <2> SUFFICES ASSUME NEW p \in Requests, NEW q \in Requests, p # q, EndsMemo(req'[q])
               PROVE  req'[p].op = "idle"
    BY DEF EndsAlone, Idle
  <2>1. q = r /\ EndsMemo(req[r]) /\ req'[p] = req[p]
    BY <1>1, <1>2
  <2> QED BY <2>1 DEF EndsAlone, Idle
<1>4. ASSUME NEW q \in Requests PROVE MemoFresh(req'[q], db')
  <2>1. CASE q = r
    BY <1>1, <2>1
  <2>2. CASE q # r
    <3>1. req'[q] = req[q] /\ req[q].op \notin {"refund", "voidMemo"} /\ MemoFresh(req[q], db)
      BY <1>1, <1>2, <2>2, EndsMemoIs DEF MemosRead
    <3>2. req[q].op = "removeMemo" => req[q].m \in Memos
      BY CallShapes DEF Typed, RemoveCall
    <3> QED BY <3>1, <3>2 DEF MemoFresh, EndedStay
  <2> QED BY <2>1, <2>2
<1> QED BY <1>3, <1>4 DEF MemosRead

LEMMA AskedAlone ==
  ASSUME OthersServed, Typed, EndsAlone, MemosRead, NEW r \in Requests, NEW c, Ask(r, c),
         MemoFresh(c, db)
  PROVE  EndsAlone' /\ MemosRead'
<1>1. \A q \in Requests : req'[q] = IF q = r THEN c ELSE req[q]
  BY DEF Ask, Typed
<1>2. \A q \in Requests : Idle(q) => ~EndsMemo(req[q])
  BY EndsMemoIs DEF Idle
<1>3. ASSUME NEW q \in Requests, EndsMemo(c) \/ EndsMemo(req[q])
      PROVE  Idle(q)
  BY <1>3 DEF Ask, EndsMemo, OthersServed
<1>4. EndsAlone'
  <2> SUFFICES ASSUME NEW p \in Requests, NEW q \in Requests, p # q, EndsMemo(req'[q])
               PROVE  req'[p].op = "idle"
    BY DEF EndsAlone, Idle
  <2>1. CASE q = r
    BY <1>1, <1>3, <2>1 DEF Idle
  <2>2. CASE q # r
    BY <1>1, <1>2, <1>3, <2>2
  <2> QED BY <2>1, <2>2
<1>5. db' = db
  BY DEF Ask
<1> QED BY <1>1, <1>4, <1>5 DEF MemosRead

LEMMA AskStepAlone ==
  ASSUME OthersServed, Typed, EndsAlone, MemosRead, NEW r \in Requests, AskStep(r)
  PROVE  EndsAlone' /\ MemosRead'
<1>1. ASSUME NEW c, Ask(r, c), c.op \notin {"refund", "voidMemo", "removeMemo"}
      PROVE  EndsAlone' /\ MemosRead'
  BY <1>1, AskedAlone DEF MemoFresh
<1>2. CASE AskMemoEnd(r)
  <2>1. PICK m \in Memos :
          \/ Ask(r, [op |-> "refund", m |-> m, seen |-> db.memo[m]])
          \/ /\ db.memo[m].status \in {"open", "applied", "closed"} /\ db.memo[m].applied = 0
             /\ \E remove \in BOOLEAN :
                  Ask(r, [op |-> "voidMemo", m |-> m, seen |-> db.memo[m], remove |-> remove])
    BY <1>2 DEF AskMemoEnd
  <2>2. MemoFresh([op |-> "refund", m |-> m, seen |-> db.memo[m]], db)
    BY DEF MemoFresh
  <2>3. db.memo[m].status \in {"open", "applied", "closed"} /\ db.memo[m].applied = 0 =>
          \A remove :
            MemoFresh([op |-> "voidMemo", m |-> m, seen |-> db.memo[m], remove |-> remove], db)
    BY DEF MemoFresh
  <2> QED BY <2>1, <2>2, <2>3, AskedAlone
<1>3. CASE AskCreate(r)
  BY <1>1, <1>3 DEF AskCreate
<1>4. CASE AskInvoice(r)
  BY <1>1, <1>4 DEF AskInvoice
<1>5. CASE AskReceive(r) \/ AskApply(r) \/ AskDeleteReceipt(r)
  BY <1>1, <1>5 DEF AskReceive, AskApply, AskDeleteReceipt
<1>6. CASE AskSettle(r)
  BY <1>1, <1>6 DEF AskSettle
<1>7. CASE AskApproveSale(r)
  BY <1>1, <1>7 DEF AskApproveSale
<1>8. CASE AskMemo(r) \/ AskCredit(r)
  BY <1>1, <1>8 DEF AskMemo, AskCredit
<1> QED BY <1>2, <1>3, <1>4, <1>5, <1>6, <1>7, <1>8 DEF AskStep

LEMMA ServeStepAlone ==
  ASSUME Typed, EndsAlone, MemosRead, NEW r \in Requests, ServeStep(r)
  PROVE  EndsAlone' /\ MemosRead'
<1> DEFINE c == req[r]
<1>1. /\ c \in Calls /\ db \in Db /\ ~Idle(r) /\ db.memo \in [Memos -> MemoRow]
      /\ MemoFresh(c, db)
  BY DbFields
     DEF Typed, MemosRead, ServeStep, Create, Update, Send, Void, Delete, Receive, Apply,
         DeleteReceipt, Settle, ApproveSale, Memo, Absorb, Credit, Refund, VoidMemo, RemoveMemo,
         Serving, Idle
<1>2. ~EndsMemo(Done) /\ \A d : MemoFresh(Done, d)
  BY EndsMemoIs DEF Done, MemoFresh
<1>3. ASSUME db'.memo = db.memo PROVE EndedStay
  BY <1>3 DEF EndedStay
<1>4. ASSUME NEW m \in Memos, NEW row, db'.memo = [db.memo EXCEPT ![m] = row],
             db.memo[m].status \notin {"void", "gone"} \/ row.status \in {"void", "gone"}
      PROVE  EndedStay
  BY <1>1, <1>4 DEF EndedStay
<1>5. CASE \/ Create(r) \/ Update(r) \/ Send(r) \/ Void(r) \/ Delete(r) \/ Receive(r)
           \/ Apply(r) \/ DeleteReceipt(r) \/ ApproveSale(r)
  <2>1. db'.memo = db.memo
    BY <1>5, OthersLeaveMemos DEF MemosLeft
  <2>2. req' = [req EXCEPT ![r] = Done]
    BY <1>5 DEF Create, Update, Send, Void, Delete, Receive, Apply, DeleteReceipt, ApproveSale,
                Commit, Then
  <2> QED BY <1>1, <1>2, <1>3, <2>1, <2>2, ServedAlone
<1>6. CASE Settle(r)
  <2> DEFINE advanced == Applied(db, c.p, Alone(c.i, c.a), c.owed)
             credited == Credited(advanced, c.m, c.i, c.b)
             received == Received(credited, c.q, c.cash, AutoApply(credited, c.cash), FALSE,
                                  credited.owed)
  <2>1. c \in SettleCall
    BY <1>1, <1>6, CallShapes DEF Settle, Serving
  <2>2. /\ c.p \in Receipts /\ c.m \in Memos /\ c.i \in Invoices
        /\ c.a \in Nat /\ c.b \in Nat /\ c.owed \in Int
    BY <2>1, ReceivablesAssumption DEF SettleCall
  <2>3. /\ db' = IF c.cash = 0 THEN credited ELSE received
        /\ req' = [req EXCEPT ![r] = Done] /\ MayCredit(advanced, c.m, c.i, c.b)
    BY <1>6 DEF Settle, Then
  <2>4. \A d, al : PaidAll(d, al).memo = d.memo
    BY DEF PaidAll, Refreshed
  <2>5. advanced.memo = db.memo
    BY <2>4 DEF Applied
  <2>6. received.memo = credited.memo
    BY <2>4 DEF Received
  <2>7. advanced \in Db
    BY <1>1, <2>2, AllocatedAlone, AppliedParts
  <2> HIDE DEF advanced, received, c
  <2>8. credited.memo = [db.memo EXCEPT ![c.m] = WithCredit(db.memo[c.m], c.b)]
    BY <2>2, <2>3, <2>5, <2>7, CreditedDb
  <2> HIDE DEF credited
  <2>9. db'.memo = [db.memo EXCEPT ![c.m] = WithCredit(db.memo[c.m], c.b)]
    BY <2>3, <2>6, <2>8
  <2>10. db.memo[c.m].status \in {"open", "applied"}
    BY <2>3, <2>5 DEF MayCredit
  <2>11. EndedStay
    BY <1>4, <2>2, <2>9, <2>10
  <2> QED BY <1>1, <1>2, <2>3, <2>11, ServedAlone
<1>7. CASE Memo(r)
  <2> DEFINE row == [status |-> "open", total |-> c.t, applied |-> 0, balance |-> c.t, of |-> c.S]
             absorb == [op |-> "absorb", m |-> c.m, left |-> c.t, S |-> c.S,
                        refund |-> c.refund]
             k == IF c.S = {} /\ ~c.refund THEN Done ELSE absorb
  <2>1. c \in MemoCall
    BY <1>1, <1>7, CallShapes DEF Memo, Serving
  <2>2. c.m \in Memos /\ c.op = "memo"
    BY <2>1 DEF MemoCall
  <2>3. /\ req' = [req EXCEPT ![r] = k] /\ db.memo[c.m].status = "none"
        /\ db'.memo = [db.memo EXCEPT ![c.m] = row]
    BY <1>1, <1>7 DEF Memo, Then, Db
  <2>4. (EndsMemo(absorb) => EndsMemo(c)) /\ \A d : MemoFresh(absorb, d)
    BY <2>2, EndsMemoIs DEF MemoFresh
  <2> HIDE DEF row, absorb
  <2>5. EndedStay
    BY <1>4, <2>2, <2>3
  <2>6. (EndsMemo(k) => EndsMemo(c)) /\ MemoFresh(k, db')
    BY <1>2, <2>4
  <2> HIDE DEF k
  <2> QED BY <1>1, <2>3, <2>5, <2>6, ServedAlone
<1>8. CASE Absorb(r)
  <2> DEFINE refund == [op |-> "refund", m |-> c.m, seen |-> db.memo[c.m]]
             a(i) == SmallerOf(c.left, db.inv[i].balance)
             credit(i) == [op |-> "credit", m |-> c.m, i |-> i, a |-> a(i), refund |-> c.refund]
  <2>1. c.op = "absorb" /\ db' = db
    BY <1>8 DEF Absorb, Serving
  <2>2. \/ c.refund /\ req' = [req EXCEPT ![r] = refund]
        \/ req' = [req EXCEPT ![r] = Done]
        \/ \E i \in c.S : req' = [req EXCEPT ![r] = credit(i)]
    BY <1>8 DEF Absorb
  <2>3. (c.refund => EndsMemo(c)) /\ MemoFresh(refund, db)
    BY <2>1, EndsMemoIs DEF MemoFresh
  <2>4. \A i : (EndsMemo(credit(i)) => EndsMemo(c)) /\ MemoFresh(credit(i), db)
    BY <2>1, EndsMemoIs DEF MemoFresh
  <2> HIDE DEF credit, refund
  <2>5. PICK k : /\ req' = [req EXCEPT ![r] = k] /\ (EndsMemo(k) => EndsMemo(c))
                 /\ MemoFresh(k, db)
    BY <1>2, <2>2, <2>3, <2>4
  <2> QED BY <1>1, <1>3, <2>1, <2>5, ServedAlone
<1>9. CASE Credit(r)
  <2> DEFINE now == Credited(db, c.m, c.i, c.a)
             absorb == [op |-> "absorb", m |-> c.m, left |-> now.memo[c.m].balance,
                        S |-> {}, refund |-> TRUE]
             k == IF c.refund THEN absorb ELSE Done
  <2>1. c \in CreditCall
    BY <1>1, <1>9, CallShapes DEF Credit, Serving
  <2>2. /\ c.m \in Memos /\ c.i \in Invoices /\ c.a \in Nat /\ c.op = "credit"
        /\ MayCredit(db, c.m, c.i, c.a)
    BY <1>9, <2>1 DEF CreditCall, Credit, MayCredit, MayPay
  <2>3. db' = now /\ req' = [req EXCEPT ![r] = k]
    BY <1>9 DEF Credit, Then
  <2>4. \A d : MemoFresh(absorb, d)
    BY DEF MemoFresh
  <2>5. c.refund => EndsMemo(c)
    BY <2>2, EndsMemoIs
  <2> HIDE DEF absorb
  <2>6. (EndsMemo(k) => EndsMemo(c)) /\ MemoFresh(k, db')
    BY <1>2, <2>4, <2>5
  <2> HIDE DEF k
  <2>7. now.memo = [db.memo EXCEPT ![c.m] = WithCredit(db.memo[c.m], c.a)]
    BY <1>1, <2>2, CreditedDb
  <2>8. EndedStay
    BY <1>4, <2>2, <2>3, <2>7 DEF MayCredit
  <2> QED BY <1>1, <2>3, <2>6, <2>8, ServedAlone
<1>10. CASE Refund(r)
  <2> DEFINE row == [c.seen EXCEPT !.balance = 0, !.status = "refunded"]
  <2>1. c \in RefundCall /\ c.op = "refund"
    BY <1>1, <1>10, CallShapes DEF Refund, Serving
  <2>2. c.m \in Memos /\ c.seen = db.memo[c.m] /\ c.seen.balance > 0
    BY <1>1, <1>10, <2>1 DEF RefundCall, Refund, MemoFresh
  <2>3. db'.memo = [db.memo EXCEPT ![c.m] = row] /\ req' = [req EXCEPT ![r] = Done]
    BY <1>1, <1>10 DEF Refund, Commit, Then, Db
  <2>4. db.memo[c.m].status \in {"open", "applied"}
    BY <1>1, <2>2 DEF MemoRow
  <2> HIDE DEF row
  <2>5. EndedStay
    BY <1>4, <2>2, <2>3, <2>4
  <2> QED BY <1>1, <1>2, <2>3, <2>5, ServedAlone
<1>11. CASE VoidMemo(r)
  <2> DEFINE row == [c.seen EXCEPT !.balance = 0, !.status = "void"]
             remove == [op |-> "removeMemo", m |-> c.m]
             k == IF c.remove THEN remove ELSE Done
  <2>1. c \in VoidCall
    BY <1>1, <1>11, CallShapes DEF VoidMemo, Serving
  <2>2. c.m \in Memos /\ c.seen \in MemoFields
    BY <2>1 DEF VoidCall, MemoRow
  <2>3. db'.memo = [db.memo EXCEPT ![c.m] = row] /\ req' = [req EXCEPT ![r] = k]
    BY <1>1, <1>11 DEF VoidMemo, Then, Db
  <2>4. row.status = "void"
    BY <2>2 DEF MemoFields
  <2> HIDE DEF row
  <2>5. EndedStay
    BY <1>4, <2>2, <2>3, <2>4
  <2>6. db'.memo[c.m].status = "void"
    BY <1>1, <2>2, <2>3, <2>4
  <2>7. ~EndsMemo(remove) /\ MemoFresh(remove, db')
    BY <2>6, EndsMemoIs DEF MemoFresh
  <2> HIDE DEF remove
  <2>8. ~EndsMemo(k) /\ MemoFresh(k, db')
    BY <1>2, <2>7
  <2> HIDE DEF k
  <2> QED BY <1>1, <2>3, <2>5, <2>8, ServedAlone
<1>12. CASE RemoveMemo(r)
  <2> DEFINE row == [NoMemo EXCEPT !.status = "gone"]
  <2>1. c \in RemoveCall
    BY <1>1, <1>12, CallShapes DEF RemoveMemo, Serving
  <2>2. c.m \in Memos
    BY <2>1 DEF RemoveCall
  <2>3. db'.memo = [db.memo EXCEPT ![c.m] = row] /\ req' = [req EXCEPT ![r] = Done]
    BY <1>1, <1>12 DEF RemoveMemo, Commit, Then, Db
  <2>4. row.status = "gone"
    BY DEF NoMemo
  <2> HIDE DEF row
  <2>5. EndedStay
    BY <1>4, <2>2, <2>3, <2>4
  <2> QED BY <1>1, <1>2, <2>3, <2>5, ServedAlone
<1> QED BY <1>5, <1>6, <1>7, <1>8, <1>9, <1>10, <1>11, <1>12 DEF ServeStep

LEMMA StepAlone ==
  ASSUME OthersServed, Typed, EndsAlone, MemosRead, [Next]_vars
  PROVE  EndsAlone' /\ MemosRead'
<1>1. ASSUME NEW r \in Requests, Drop(r)
      PROVE  EndsAlone' /\ MemosRead'
  <2>1. /\ db' = db /\ req' = [req EXCEPT ![r] = Done] /\ ~Idle(r)
    BY <1>1 DEF Drop
  <2>2. ~EndsMemo(Done) /\ MemoFresh(Done, db') /\ EndedStay
    BY <2>1, EndsMemoIs DEF Done, MemoFresh, EndedStay
  <2> QED BY <2>1, <2>2, ServedAlone
<1>2. CASE ReleaseAdvance
  <2>1. db'.memo = db.memo /\ req' = req
    BY <1>2 DEF ReleaseAdvance, Typed, Db
  <2> QED BY <2>1 DEF EndsAlone, MemosRead, MemoFresh, Idle
<1>3. CASE UNCHANGED vars
  BY <1>3 DEF vars, EndsAlone, MemosRead, MemoFresh, Idle
<1> QED BY <1>1, <1>2, <1>3, AskStepAlone, ServeStepAlone DEF Next

LEMMA StepKeepsWhole ==
  ASSUME Typed, Typed', MemosSound, MemosRead, MemosWhole, [Next]_vars
  PROVE  MemosWhole'
<1>1. ASSUME MemosLeft(db, db'), spent' = spent
      PROVE  MemosWhole'
  BY <1>1 DEF MemosWhole, MemosLeft
<1>2. ASSUME NEW r \in Requests, AskStep(r)
      PROVE  MemosWhole'
  <2>1. PICK call : Ask(r, call)
    BY <1>2 DEF AskStep, AskCreate, AskInvoice, AskReceive, AskApply, AskDeleteReceipt,
                AskSettle, AskApproveSale, AskMemo, AskCredit, AskMemoEnd
  <2> QED BY <1>1, <2>1 DEF Ask, MemosLeft
<1>3. ASSUME NEW r \in Requests, Drop(r)
      PROVE  MemosWhole'
  BY <1>1, <1>3 DEF Drop, MemosLeft
<1>4. ASSUME NEW r \in Requests, ServeStep(r)
      PROVE  MemosWhole'
  <2>1. CASE \/ Create(r) \/ Update(r) \/ Send(r) \/ Void(r) \/ Delete(r) \/ Receive(r)
             \/ Apply(r) \/ DeleteReceipt(r) \/ ApproveSale(r) \/ Absorb(r)
    BY <1>1, <2>1, OthersLeaveMemos
  <2>2. CASE \/ Memo(r) \/ Credit(r) \/ Settle(r) \/ Refund(r) \/ VoidMemo(r) \/ RemoveMemo(r)
    BY <2>2, MemoStepWhole DEF MemosRead
  <2> QED BY <1>4, <2>1, <2>2 DEF ServeStep
<1>5. CASE ReleaseAdvance
  BY <1>1, <1>5 DEF ReleaseAdvance, MemosLeft
<1>6. CASE UNCHANGED vars
  BY <1>1, <1>6 DEF vars, MemosLeft
<1> QED BY <1>2, <1>3, <1>4, <1>5, <1>6 DEF Next

(* Where a refund or the end of a memo is served alone, and whatever else   *)
(* overlaps: no receipt is ever applied beyond its amount, one a delivery   *)
(* on its way holds is whole until that delivery is approved or given up,   *)
(* and what a credit memo paid and gave back never add up to more than its  *)
(* credit (qa invariants I10, I20 and M1).                                  *)
THEOREM NothingIsOverspent ==
  ASSUME {"refund", "voidMemo"} \cap Overlapping = {}
  PROVE  Spec => []NothingOverspent
<1>1. Init => EndsAlone /\ MemosRead /\ MemosWhole
  <2> SUFFICES ASSUME Init PROVE EndsAlone /\ MemosRead /\ MemosWhole
    OBVIOUS
  <2>1. \A r \in Requests : req[r].op = "idle"
    BY DEF Init
  <2>2. \A m \in Memos : db.memo[m].status = "none" /\ db.refund[m] = 0 /\ spent[m] = 0
    BY DEF Init, NoMemo
  <2> QED BY <2>1, <2>2, EndsMemoIs DEF EndsAlone, MemosRead, MemoFresh, MemosWhole, MemoWhole
<1>2. /\ Typed /\ Typed' /\ MemosSound /\ EndsAlone /\ MemosRead /\ MemosWhole /\ [Next]_vars
      => EndsAlone' /\ MemosRead' /\ MemosWhole'
  BY StepAlone, StepKeepsWhole DEF OthersServed
<1>3. Typed /\ ReceiptsSound /\ MemosSound /\ MemosWhole => NothingOverspent
  <2> SUFFICES ASSUME Typed, ReceiptsSound, MemosSound, MemosWhole PROVE NothingOverspent
    OBVIOUS
  <2>1. ASSUME NEW p \in Kept(db)
        PROVE  Used(db, p) <= db.rct[p].amount /\ (db.rct[p].held => Used(db, p) = 0)
    BY <2>1 DEF Kept, ReceiptsSound, SpentWithin, HeldWhole
  <2>2. ASSUME NEW m \in Memos
        PROVE  spent[m] + db.refund[m] <= IF m \in LiveMemos(db) THEN db.memo[m].total ELSE 0
    <3>1. /\ MemoWhole(db.memo[m], spent[m], db.refund[m]) /\ db.memo[m].status \in MemoStatus
          /\ db.memo[m].total \in Nat /\ spent[m] \in Nat /\ db.refund[m] \in Int
      BY DbFields DEF MemosWhole, Typed, MemoRow, MemoFields
    <3>2. PICK T \in Nat : WorthAtMost(m, T)
      BY DEF MemosSound
    <3>3. CASE db.memo[m].status \in {"none", "void", "gone"}
      BY <3>1, <3>3 DEF MemoWhole, LiveMemos
    <3>4. CASE db.memo[m].status \in {"open", "applied", "closed"}
      BY <3>1, <3>2, <3>4 DEF MemoWhole, WorthAtMost, LiveMemos
    <3>5. CASE db.memo[m].status = "refunded"
      BY <3>1, <3>5 DEF MemoWhole, LiveMemos
    <3> QED BY <3>1, <3>3, <3>4, <3>5 DEF MemoStatus
  <2> QED BY <2>1, <2>2 DEF NothingOverspent
<1> QED BY <1>1, <1>2, <1>3, ReceiptsAlwaysSound, MemosAlwaysSound, PTL DEF Spec

-----------------------------------------------------------------------------
(* The other columns add up to the same: what the receipts that are kept    *)
(* have left, ...                                                           *)
LEMMA UnappliedIsAdvances ==
  ASSUME NEW d \in Db, Advanced(d),
         \A p \in Receipts : d.rct[p].status # "kept" => d.app[p] = NotApplied
  PROVE  /\ Sum([p \in Receipts |-> Unapplied(d, p)], Kept(d)) = d.advances
         /\ Sum([p \in Receipts |-> d.rct[p].amount], Kept(d)) =
              d.advances + Sum(UsedOf(d), Receipts)
<1> DEFINE left == [p \in Receipts |-> Unapplied(d, p)]
<1>1. IsFiniteSet(Receipts) /\ Kept(d) \in SUBSET Receipts
  BY ReceivablesAssumption DEF Kept
<1>2. \A p \in Receipts : /\ AmountOf(d)[p] \in Int /\ UsedOf(d)[p] \in Int
                          /\ AmountOf(d)[p] = d.rct[p].amount /\ UsedOf(d)[p] = Used(d, p)
  BY AmountTypes, FigureTypes
<1>3. \A p \in Receipts : left[p] \in Int /\ AmountOf(d)[p] = left[p] + UsedOf(d)[p]
  BY <1>2 DEF Unapplied
<1>4. ASSUME NEW p \in Receipts \ Kept(d)
      PROVE  AmountOf(d)[p] = 0 /\ left[p] = 0
  <2>1. d.app[p] = NotApplied /\ AmountOf(d)[p] = 0
    BY <1>2 DEF Advanced, Kept
  <2>2. UsedOf(d)[p] = 0
    BY <2>1, UnusedReceipt DEF UsedOf
  <2> QED BY <1>3, <2>1, <2>2
<1> HIDE DEF left
<1>5. Sum(AmountOf(d), Receipts) = Sum(left, Receipts) + Sum(UsedOf(d), Receipts)
  BY <1>1, <1>2, <1>3, SumPlus
<1>6. Sum(left, Receipts) = Sum(left, Kept(d)) /\ Sum(left, Receipts) \in Int
  BY <1>1, <1>3, <1>4, SumWithin, SumInt
<1>7. Sum(AmountOf(d), Receipts) = Sum(AmountOf(d), Kept(d))
  BY <1>1, <1>2, <1>4, SumWithin
<1>8. Sum(UsedOf(d), Receipts) \in Int /\ d.advances \in Int
  BY FigureSums, DbFields
<1>9. /\ Sum(left, Kept(d)) = d.advances
      /\ Sum(AmountOf(d), Kept(d)) = d.advances + Sum(UsedOf(d), Receipts)
  BY <1>5, <1>6, <1>7, <1>8 DEF Advanced
<1> QED BY <1>9 DEF left, AmountOf

(* ... what open invoices were raised for, ...                              *)
LEMMA TotalsOfInvoices ==
  ASSUME NEW d \in Db
  PROVE  Sum([i \in Invoices |-> d.inv[i].total], Collectable(d)) =
           Sum(Owes(d), Invoices) + Sum(PaidOf(d), Invoices)
<1> DEFINE f == [i \in Invoices |-> d.inv[i].total]
           g == [i \in Invoices |-> IF i \in Collectable(d) THEN d.inv[i].total ELSE 0]
<1>1. /\ IsFiniteSet(Invoices) /\ IsFiniteSet(Collectable(d))
      /\ Collectable(d) \in SUBSET Invoices
  BY ReceivablesAssumption, FS_Subset DEF Collectable
<1>2. ASSUME NEW i \in Invoices
      PROVE  /\ g[i] \in Int /\ Owes(d)[i] \in Int /\ PaidOf(d)[i] \in Int
             /\ g[i] = Owes(d)[i] + PaidOf(d)[i]
  <2>1. d.inv[i] \in InvRow
    BY DbFields
  <2>2. /\ d.inv[i].total \in Nat /\ d.inv[i].paid \in Nat
        /\ d.inv[i].balance = d.inv[i].total - d.inv[i].paid
        /\ d.inv[i].paid > 0 => d.inv[i].status \in OpenStatus
    BY <2>1, InvRowFields
  <2>3. /\ Owes(d)[i] = OpenBalance(d.inv[i]) /\ PaidOf(d)[i] = d.inv[i].paid
        /\ Owes(d)[i] \in Int /\ PaidOf(d)[i] \in Int
    BY FigureTypes
  <2>4. i \in Collectable(d) <=> d.inv[i].status \in OpenStatus
    BY DEF Collectable
  <2> QED BY <2>2, <2>3, <2>4 DEF OpenBalance
<1>3. \A i \in Invoices \ Collectable(d) : g[i] = 0
  OBVIOUS
<1>4. \A i \in Collectable(d) : g[i] = f[i]
  BY <1>1
<1> HIDE DEF f, g
<1>5. Sum(g, Invoices) = Sum(Owes(d), Invoices) + Sum(PaidOf(d), Invoices)
  BY <1>1, <1>2, SumPlus
<1>6. Sum(g, Invoices) = Sum(g, Collectable(d))
  BY <1>1, <1>2, <1>3, SumWithin
<1>7. Sum(g, Collectable(d)) = Sum(f, Collectable(d))
  BY <1>1, <1>4, SumSame
<1> QED BY <1>5, <1>6, <1>7 DEF f

(* ... and what live memos were worth, less what was refunded.              *)
LEMMA TotalsOfMemos ==
  ASSUME NEW d \in Db, NEW s \in [Memos -> Nat],
         \A m \in Memos : /\ Counted(d.memo[m], s[m])
                          /\ MemoWhole(d.memo[m], s[m], d.refund[m])
  PROVE  /\ Sum([m \in Memos |-> d.memo[m].total], LiveMemos(d)) =
              Sum(Holds(d), Memos) + Sum(s, Memos) + Sum(d.refund, LiveMemos(d))
         /\ Sum(s, Memos) \in Int /\ Sum(d.refund, LiveMemos(d)) \in Int
<1> DEFINE f == [m \in Memos |-> d.memo[m].total]
           g == [m \in Memos |-> IF m \in LiveMemos(d) THEN d.memo[m].total ELSE 0]
           h == [m \in Memos |-> Holds(d)[m] + s[m]]
           R == d.refund
<1>1. /\ IsFiniteSet(Memos) /\ IsFiniteSet(LiveMemos(d)) /\ LiveMemos(d) \in SUBSET Memos
      /\ R \in [Memos -> Int]
  BY ReceivablesAssumption, FS_Subset, DbFields DEF LiveMemos
<1>2. ASSUME NEW m \in Memos
      PROVE  /\ g[m] \in Int /\ h[m] \in Int /\ Holds(d)[m] \in Int /\ s[m] \in Int
             /\ h[m] = Holds(d)[m] + s[m] /\ g[m] = h[m] + R[m]
             /\ m \notin LiveMemos(d) => R[m] = 0
  <2>1. d.memo[m] \in MemoFields
    BY DbFields DEF MemoRow
  <2>2. /\ d.memo[m].total \in Int /\ d.memo[m].balance \in Int /\ d.memo[m].applied \in Int
        /\ d.memo[m].status \in MemoStatus
    BY <2>1 DEF MemoFields
  <2>3. Holds(d)[m] = LiveBalance(d.memo[m]) /\ Holds(d)[m] \in Int
    BY FigureTypes
  <2>4. m \in LiveMemos(d) <=> d.memo[m].status \notin {"none", "void", "gone"}
    BY DEF LiveMemos
  <2>5. s[m] \in Int /\ R[m] \in Int /\ R[m] = d.refund[m]
    BY <1>1
  <2>6. h[m] = Holds(d)[m] + s[m]
    OBVIOUS
  <2>7. Counted(d.memo[m], s[m]) /\ MemoWhole(d.memo[m], s[m], R[m])
    OBVIOUS
  <2> HIDE DEF R, h
  <2>8. CASE m \notin LiveMemos(d)
    <3>1. s[m] = 0 /\ R[m] = 0
      BY <2>4, <2>7, <2>8 DEF MemoWhole
    <3>2. Holds(d)[m] = 0 /\ g[m] = 0
      BY <2>3, <2>4, <2>8 DEF LiveBalance
    <3> QED BY <2>6, <2>8, <3>1, <3>2
  <2>9. CASE m \in LiveMemos(d)
    <3>1. Holds(d)[m] = d.memo[m].balance /\ g[m] = d.memo[m].total
      BY <2>3, <2>4, <2>9 DEF LiveBalance
    <3>2. CASE d.memo[m].status = "refunded"
      <4>1. d.memo[m].balance = 0 /\ d.memo[m].total = s[m] + R[m]
        BY <2>7, <3>2 DEF MemoWhole
      <4> QED BY <2>2, <2>3, <2>5, <2>6, <2>9, <3>1, <4>1
    <3>3. CASE d.memo[m].status \in {"open", "applied", "closed"}
      <4>1. R[m] = 0 /\ d.memo[m].applied = s[m]
            /\ d.memo[m].balance = d.memo[m].total - d.memo[m].applied
        BY <2>7, <3>3 DEF MemoWhole, Counted
      <4> QED BY <2>2, <2>3, <2>5, <2>6, <2>9, <3>1, <4>1
    <3> QED BY <2>2, <2>4, <2>9, <3>2, <3>3 DEF MemoStatus
  <2> QED BY <2>8, <2>9
<1>3. \A m \in Memos \ LiveMemos(d) : g[m] = 0
  OBVIOUS
<1>4. \A m \in LiveMemos(d) : g[m] = f[m]
  BY <1>1
<1> HIDE DEF f, g, h, R
<1>5. Sum(h, Memos) = Sum(Holds(d), Memos) + Sum(s, Memos)
  BY <1>1, <1>2, SumPlus
<1>6. Sum(g, Memos) = Sum(h, Memos) + Sum(R, Memos)
  <2>1. \A m \in Memos : h[m] \in Int /\ R[m] \in Int /\ g[m] = h[m] + R[m]
    BY <1>1, <1>2
  <2> QED BY <1>1, <2>1, SumPlus
<1>7. Sum(g, Memos) = Sum(g, LiveMemos(d))
  BY <1>1, <1>2, <1>3, SumWithin
<1>8. Sum(g, LiveMemos(d)) = Sum(f, LiveMemos(d))
  BY <1>1, <1>4, SumSame
<1>9. Sum(R, Memos) = Sum(R, LiveMemos(d)) /\ Sum(R, Memos) \in Int
  BY <1>1, <1>2, SumWithin, SumInt
<1>10. Sum(s, Memos) \in Int /\ Sum(Holds(d), Memos) \in Int
  BY <1>1, <1>2, SumInt
<1> QED BY <1>5, <1>6, <1>7, <1>8, <1>9, <1>10 DEF f, R

(* So the exposure and the statement close on the two accounts.             *)
LEMMA BooksClose ==
  ASSUME NEW d \in Db, NEW s \in [Memos -> Nat], Books(d, Sum(s, Memos)), Advanced(d),
         \A m \in Memos : /\ Counted(d.memo[m], s[m])
                          /\ MemoWhole(d.memo[m], s[m], d.refund[m])
  PROVE  Exposure(d) = d.ar - d.advances /\ StatementClosing(d) = d.ar - d.advances
<1>1. \A p \in Receipts : d.rct[p].status # "kept" => d.app[p] = NotApplied
  BY DEF Books
<1>2. /\ Sum([p \in Receipts |-> Unapplied(d, p)], Kept(d)) = d.advances
      /\ Sum([p \in Receipts |-> d.rct[p].amount], Kept(d)) =
           d.advances + Sum(UsedOf(d), Receipts)
  BY <1>1, UnappliedIsAdvances
<1>3. d.ar = Sum([i \in Invoices |-> d.inv[i].balance], Collectable(d))
               - Sum([m \in Memos |-> d.memo[m].balance], LiveMemos(d))
  BY BooksTie
<1>4. d.ar \in Int /\ d.advances \in Int
  BY DbFields
<1>5. /\ Sum(Owes(d), Invoices) \in Int /\ Sum(PaidOf(d), Invoices) \in Int
      /\ Sum(Holds(d), Memos) \in Int /\ Sum(UsedOf(d), Receipts) \in Int
  BY FigureSums
<1>6. /\ Sum([i \in Invoices |-> d.inv[i].balance], Collectable(d)) \in Int
      /\ Sum([m \in Memos |-> d.memo[m].balance], LiveMemos(d)) \in Int
  <2>1. IsFiniteSet(Collectable(d)) /\ IsFiniteSet(LiveMemos(d))
    BY ReceivablesAssumption, FS_Subset DEF Collectable, LiveMemos
  <2>2. \A i \in Collectable(d) : [j \in Invoices |-> d.inv[j].balance][i] \in Int
    BY DbFields, InvRowFields DEF Collectable
  <2>3. \A m \in LiveMemos(d) : [j \in Memos |-> d.memo[j].balance][m] \in Int
    BY DbFields DEF LiveMemos, MemoRow, MemoFields
  <2> QED BY <2>1, <2>2, <2>3, SumInt
<1>7. Exposure(d) = d.ar - d.advances
  BY <1>2, <1>3, <1>4, <1>6 DEF Exposure
<1>8. Sum([i \in Invoices |-> d.inv[i].total], Collectable(d)) =
        Sum(Owes(d), Invoices) + Sum(PaidOf(d), Invoices)
  BY TotalsOfInvoices
<1>9. /\ Sum([m \in Memos |-> d.memo[m].total], LiveMemos(d)) =
           Sum(Holds(d), Memos) + Sum(s, Memos) + Sum(d.refund, LiveMemos(d))
      /\ Sum(s, Memos) \in Int /\ Sum(d.refund, LiveMemos(d)) \in Int
  BY TotalsOfMemos
<1>10. /\ d.ar = Sum(Owes(d), Invoices) - Sum(Holds(d), Memos)
       /\ Sum(PaidOf(d), Invoices) = Sum(UsedOf(d), Receipts) + Sum(s, Memos)
  BY DEF Books
<1>11. StatementClosing(d) = d.ar - d.advances
  BY <1>2, <1>4, <1>5, <1>8, <1>9, <1>10 DEF StatementClosing
<1> QED BY <1>7, <1>11

LEMMA InitCloses ==
  ASSUME Init
  PROVE  AdvancesTied /\ MemosTied
<1>1. /\ \A m \in Memos : db.memo[m].status = "none" /\ spent[m] = 0 /\ db.refund[m] = 0
      /\ \A p \in Receipts : db.app[p] = NotApplied /\ db.rct[p].amount = 0
      /\ db.advances = 0
  BY DEF Init, NoMemo, NoReceipt
<1>2. Sum(AmountOf(db), Receipts) = 0
  <2>1. \A p \in Receipts : AmountOf(db)[p] = 0
    BY <1>1 DEF AmountOf
  <2> QED BY <2>1, SumZero, ReceivablesAssumption
<1>3. Sum(UsedOf(db), Receipts) = 0
  <2>1. ASSUME NEW p \in Receipts
        PROVE  UsedOf(db)[p] = 0
    BY <1>1, UnusedReceipt DEF UsedOf
  <2> QED BY <2>1, SumZero, ReceivablesAssumption
<1>4. Advanced(db)
  BY <1>1, <1>2, <1>3 DEF Advanced
<1>5. MemosWhole
  BY <1>1 DEF MemosWhole, MemoWhole
<1> QED BY <1>4, <1>5 DEF AdvancesTied, MemosTied

(* While requests never overlap, and no invoice that is void is voided      *)
(* again, account 1100 and the customer's running balance are what open     *)
(* invoices leave unpaid less what live credit memos still hold; invoices   *)
(* say paid exactly what receipts and memos paid (qa invariant I6); and the *)
(* exposure the credit limit is judged on and the closing balance of the    *)
(* statement, each added up from other columns, are both 1100 less 2400.    *)
THEOREM ReceivablesTie ==
  ASSUME VoidAgain = FALSE
  PROVE  Spec => []ReceivableTies
<1>1. Init => OneAtATime /\ Tied /\ AdvancesTied /\ MemosTied
  BY InitTied, InitCloses
<1>2. Typed /\ Typed' /\ ReceiptsSound /\ MemosSound /\ OneAtATime /\ Tied /\ [Next]_vars
        => OneAtATime' /\ Tied'
  BY StepTied
<1>3. Typed /\ Typed' /\ ReceiptsSound /\ OneAtATime /\ Tied /\ AdvancesTied /\ [Next]_vars
        => AdvancesTied'
  BY StepAdvanced
<1>4. Typed /\ Typed' /\ MemosSound /\ OneAtATime /\ Tied /\ MemosTied /\ [Next]_vars
        => MemosTied'
  BY StepWhole
<1>5. Typed /\ TypeOK /\ MemosSound /\ Tied /\ AdvancesTied /\ MemosTied => ReceivableTies
  <2> SUFFICES ASSUME Typed, TypeOK, MemosSound, Tied, AdvancesTied, MemosTied, apart
               PROVE  ReceivableTies
    BY DEF ReceivableTies
  <2>1. /\ db \in Db /\ spent \in [Memos -> Nat] /\ Books(db, Sum(spent, Memos))
        /\ Advanced(db)
    BY DEF Typed, Tied, Paid, AdvancesTied
  <2>2. \A m \in Memos : /\ Counted(db.memo[m], spent[m])
                         /\ MemoWhole(db.memo[m], spent[m], db.refund[m])
    BY DEF MemosSound, MemosTied, MemosWhole
  <2>3. Exposure(db) = db.ar - db.advances /\ StatementClosing(db) = db.ar - db.advances
    BY <2>1, <2>2, BooksClose
  <2> QED BY <2>1, <2>3, BooksTie DEF ReceivableTies
<1> QED BY <1>1, <1>2, <1>3, <1>4, <1>5, ReceiptsAlwaysSound, MemosAlwaysSound, RowsAddUp,
           PTL DEF Spec

-----------------------------------------------------------------------------
(* What the reports read off one state, see ReceivablesReports: each        *)
(* document with the entries that made and undid it.                        *)

(* An open invoice is not paid beyond its total; its entry is in the book   *)
(* once, and neither before it is open nor after its end.                   *)
InvoiceFiled(row, book, sale) ==
  /\ row.status \in OpenStatus =>
       row.paid <= row.total /\ book.made = row.total /\ book.undone = 0
  /\ row.status = "paid" => row.paid = row.total
  /\ row.status \in {"none", "draft"} => book.made = 0 /\ book.undone = 0 /\ sale = "none"
  /\ row.status \in {"void", "gone"} => book.made + book.undone = 0
(* The sale of a delivery says what its invoice does, unless a memo paid on *)
(* the invoice; money is what the receipts paid on it.                      *)
SaleFiled(row, sale, money) ==
  /\ money <= row.paid
  /\ \/ sale = "none" \/ row.status \notin OpenStatus
     \/ sale = PaidStatusOf(row) \/ money < row.paid
ReceiptFiled(row, book, share) ==
  /\ row.status = "none" => book.made = 0 /\ book.undone = 0
  /\ row.status = "kept" => book.made = -row.amount /\ book.undone = 0
  /\ row.status = "gone" => book.made + book.undone = 0
  /\ row.status # "kept" => share = NotApplied
MemoFiled(row, book) ==
  /\ row.status = "none" => book.made = 0 /\ book.undone = 0
  /\ row.status \in {"void", "gone"} => book.made + book.undone = 0
  /\ row.status \notin {"none", "void", "gone"} => book.made = -row.total /\ book.undone = 0

Filed(d) ==
  /\ \A i \in Invoices : /\ InvoiceFiled(d.inv[i], d.book[i], d.sale[i])
                         /\ SaleFiled(d.inv[i], d.sale[i], Sum(ShareOf(d, i), Receipts))
  /\ \A p \in Receipts : ReceiptFiled(d.rct[p], d.book[p], d.app[p])
  /\ \A m \in Memos : MemoFiled(d.memo[m], d.book[m])
AllFiled == apart => Filed(db)

(* A payment leaves an invoice filed, and so does taking one back.          *)
LEMMA PaidFiled ==
  ASSUME NEW row \in InvRow, NEW a \in Nat, row.status \in OpenStatus, a <= row.balance,
         NEW book, NEW sale, NEW sold, InvoiceFiled(row, book, sale)
  PROVE  InvoiceFiled(PaidBy(row, a), book, sold)
<1> DEFINE paid == row.paid + a
           left == row.total - paid
           s == IF paid >= row.total THEN "paid" ELSE "partial"
           now == [row EXCEPT !.paid = paid, !.balance = left, !.status = s]
<1>1. /\ row \in InvFields /\ row.paid \in Nat /\ row.total \in Nat
      /\ row.balance = row.total - row.paid
  BY InvRowFields DEF InvRow
<1>2. s \in OpenStatus /\ paid <= row.total /\ (s = "paid" => paid = row.total)
      /\ s \notin {"none", "draft", "void", "gone"}
  BY <1>1 DEF OpenStatus
<1>3. PaidBy(row, a) = now
  BY DEF PaidBy
<1> HIDE DEF paid, left, s
<1>4. now.paid = paid /\ now.status = s /\ now.total = row.total
  BY <1>1 DEF InvFields
<1> HIDE DEF now
<1> QED BY <1>2, <1>3, <1>4 DEF InvoiceFiled

LEMMA ReopenedFiled ==
  ASSUME NEW row \in InvRow, NEW a \in Nat, row.status \in OpenStatus, a <= row.paid,
         NEW book, NEW sale, NEW sold, InvoiceFiled(row, book, sale)
  PROVE  InvoiceFiled(Reopened(row, a), book, sold)
<1> DEFINE paid == Above0(row.paid - a)
           left == row.total - paid
           s == IF paid >= row.total THEN "paid" ELSE IF paid > 0 THEN "partial" ELSE "sent"
           now == [row EXCEPT !.paid = paid, !.balance = left, !.status = s]
<1>1. /\ row \in InvFields /\ row.paid \in Nat /\ row.total \in Nat
  BY InvRowFields DEF InvRow
<1>2. paid <= row.total /\ paid \in Int
  BY <1>1 DEF Above0, InvoiceFiled
<1>3. s \in OpenStatus /\ (s = "paid" => paid = row.total)
      /\ s \notin {"none", "draft", "void", "gone"}
  BY <1>1, <1>2 DEF OpenStatus
<1>4. Reopened(row, a) = now
  BY DEF Reopened
<1> HIDE DEF paid, left, s
<1>5. now.paid = paid /\ now.status = s /\ now.total = row.total
  BY <1>1 DEF InvFields
<1> HIDE DEF now
<1> QED BY <1>2, <1>3, <1>4, <1>5 DEF InvoiceFiled

(* What PaidAll makes of each invoice and its sale.                         *)
LEMMA PaidAllRows ==
  ASSUME NEW d \in Db, NEW al \in Alloc, NEW i \in Invoices
  PROVE  LET c == PaidAll(d, al)
         IN /\ al[i] > 0 => /\ c.inv[i] = PaidBy(d.inv[i], al[i])
                            /\ c.sale[i] \in {d.sale[i], PaidStatusOf(c.inv[i])}
                            /\ d.sale[i] # "none" => c.sale[i] = PaidStatusOf(c.inv[i])
            /\ ~(al[i] > 0) => c.inv[i] = d.inv[i] /\ c.sale[i] = d.sale[i]
<1> DEFINE f == [j \in Invoices |-> IF al[j] > 0 THEN PaidBy(d.inv[j], al[j]) ELSE d.inv[j]]
           e == [d EXCEPT !.inv = f]
           S == {j \in Invoices : al[j] > 0}
           c == PaidAll(d, al)
<1>1. c = Refreshed(e, S)
  BY DEF PaidAll
<1>2. e.inv = f /\ e.sale = d.sale /\ e \in [inv : {f}, rct : {d.rct}, app : {d.app},
         memo : {d.memo}, sale : {d.sale}, refund : {d.refund}, book : {d.book},
         owed : {d.owed}, ar : {d.ar}, advances : {d.advances}, cash : {d.cash}]
  BY DEF Db
<1>3. f[i] = IF al[i] > 0 THEN PaidBy(d.inv[i], al[i]) ELSE d.inv[i]
  OBVIOUS
<1>4. i \in S <=> al[i] > 0
  OBVIOUS
<1> HIDE DEF f, e, S
<1>5. /\ c.inv = f
      /\ c.sale[i] = IF i \in S /\ d.sale[i] # "none" THEN PaidStatusOf(f[i]) ELSE d.sale[i]
  BY <1>1, <1>2 DEF Refreshed
<1> HIDE DEF c
<1>6. CASE al[i] > 0
  BY <1>3, <1>4, <1>5, <1>6 DEF c
<1>7. CASE ~(al[i] > 0)
  BY <1>3, <1>4, <1>5, <1>7 DEF c
<1> QED BY <1>6, <1>7

(* Payments of one receipt on invoices, see PaidAll.                        *)
LEMMA PaidInvoicesFiled ==
  ASSUME NEW d \in Db, NEW e \in Db, Filed(d), NEW p \in Receipts, NEW al \in Alloc,
         MayPayAll(d, al), SharesMore(d, e, p, al), e.inv = PaidAll(d, al).inv,
         e.sale = PaidAll(d, al).sale, \A i \in Invoices : e.book[i] = d.book[i]
  PROVE  \A i \in Invoices :
           /\ InvoiceFiled(e.inv[i], e.book[i], e.sale[i])
           /\ SaleFiled(e.inv[i], e.sale[i], Sum(ShareOf(e, i), Receipts))
<1> DEFINE c == PaidAll(d, al)
<1> TAKE i \in Invoices
<1>1. /\ al[i] > 0 => /\ c.inv[i] = PaidBy(d.inv[i], al[i])
                      /\ c.sale[i] \in {d.sale[i], PaidStatusOf(c.inv[i])}
                      /\ d.sale[i] # "none" => c.sale[i] = PaidStatusOf(c.inv[i])
      /\ ~(al[i] > 0) => c.inv[i] = d.inv[i] /\ c.sale[i] = d.sale[i]
  BY PaidAllRows
<1>2. e.inv[i] = c.inv[i] /\ e.sale[i] = c.sale[i] /\ e.book[i] = d.book[i]
  OBVIOUS
<1> HIDE DEF c
<1>3. /\ d.inv[i] \in InvRow /\ al[i] \in Nat /\ d.inv[i].paid \in Nat
      /\ Sum(ShareOf(d, i), Receipts) \in Nat
  BY DbFields, FigureSums, InvRowFields DEF Alloc
<1>4. Sum(ShareOf(e, i), Receipts) = Sum(ShareOf(d, i), Receipts) + al[i]
  BY SharesMoreSums
<1>5. /\ InvoiceFiled(d.inv[i], d.book[i], d.sale[i])
      /\ SaleFiled(d.inv[i], d.sale[i], Sum(ShareOf(d, i), Receipts))
  BY DEF Filed
<1>6. CASE al[i] > 0
  <2>1. d.inv[i].status \in OpenStatus /\ al[i] <= d.inv[i].balance
    BY <1>6 DEF MayPayAll, MayPay
  <2>2. InvoiceFiled(e.inv[i], e.book[i], e.sale[i])
    BY <1>1, <1>2, <1>3, <1>5, <1>6, <2>1, PaidFiled
  <2>3. e.inv[i].paid = d.inv[i].paid + al[i]
    <3>1. PaidBy(d.inv[i], al[i]).paid = d.inv[i].paid + al[i]
      BY <1>3, <2>1, PaidByFigures
    <3> QED BY <1>1, <1>2, <1>6, <3>1
  <2>4. e.sale[i] \in {"none", PaidStatusOf(e.inv[i])}
    BY <1>1, <1>2, <1>6
  <2>5. SaleFiled(e.inv[i], e.sale[i], Sum(ShareOf(e, i), Receipts))
    BY <1>3, <1>4, <1>5, <2>3, <2>4 DEF SaleFiled
  <2> QED BY <2>2, <2>5
<1>7. CASE ~(al[i] > 0)
  <2>1. al[i] = 0 /\ Sum(ShareOf(e, i), Receipts) = Sum(ShareOf(d, i), Receipts)
    BY <1>3, <1>4, <1>7
  <2> QED BY <1>1, <1>2, <1>5, <1>7, <2>1
<1> QED BY <1>6, <1>7

LEMMA ReceivedFiled ==
  ASSUME NEW d \in Db, Filed(d), NEW p \in Receipts, d.rct[p].status = "none",
         NEW amount \in Nat, NEW al \in Alloc, MayPayAll(d, al), NEW held \in BOOLEAN,
         NEW owed \in Int
  PROVE  LET e == Received(d, p, amount, al, held, owed) IN Filed(e)
<1> DEFINE c == PaidAll(d, al)
           e == Received(d, p, amount, al, held, owed)
           row == ReceivedRow(amount, held)
           share == ReceivedShare(al)
<1>1. /\ e \in Db /\ e.memo = d.memo
      /\ e.rct = [d.rct EXCEPT ![p] = row] /\ e.app = [d.app EXCEPT ![p] = share]
  BY ReceivedDb
<1>2. c \in Db /\ SameBut(d, c)
  BY PaidAllDb
<1>3. e.inv = c.inv /\ e.sale = c.sale /\ e.book = [c.book EXCEPT ![p].made = -amount]
  <2> HIDE DEF c
  <2> QED BY <1>2 DEF Received, Db, c
<1>4. /\ d.rct \in [Receipts -> RctRow] /\ d.app \in [Receipts -> Shares]
      /\ d.book \in [Documents -> BookRow] /\ p \in Documents
  BY DbFields DEF Documents
<1>5. d.app[p] = NotApplied /\ d.book[p].made = 0 /\ d.book[p].undone = 0
  BY DEF Filed, ReceiptFiled
<1>6. row.status = "kept" /\ row.amount = amount
  BY DEF ReceivedRow
<1>7. \A i \in Invoices : Taken(share)[i] = Taken(d.app[p])[i] + al[i]
  BY <1>5 DEF Alloc, Taken, NotApplied, ReceivedShare
<1> HIDE DEF e, row, share
<1>8. e.book = [d.book EXCEPT ![p].made = -amount]
  BY <1>2, <1>3 DEF SameBut
<1>9. /\ \A x \in Documents \ {p} : e.book[x] = d.book[x]
      /\ e.book[p].made = -amount /\ e.book[p].undone = 0
  BY <1>4, <1>5, <1>8 DEF BookRow
<1>10. /\ \A i \in Invoices : i \in Documents \ {p}
       /\ \A m \in Memos : m \in Documents \ {p}
       /\ \A q \in Receipts \ {p} : q \in Documents \ {p}
  BY ReceivablesAssumption DEF Documents
<1>11. SharesMore(d, e, p, al)
  BY <1>1, <1>4, <1>7 DEF SharesMore
<1>12. \A i \in Invoices :
         /\ InvoiceFiled(e.inv[i], e.book[i], e.sale[i])
         /\ SaleFiled(e.inv[i], e.sale[i], Sum(ShareOf(e, i), Receipts))
  BY <1>1, <1>3, <1>9, <1>10, <1>11, PaidInvoicesFiled
<1> HIDE DEF c
<1>13. ASSUME NEW q \in Receipts
       PROVE  ReceiptFiled(e.rct[q], e.book[q], e.app[q])
  <2>1. CASE q = p
    <3>1. e.rct[q] = row
      BY <1>1, <1>4, <2>1
    <3> QED BY <1>6, <1>9, <2>1, <3>1 DEF ReceiptFiled
  <2>2. CASE q # p
    <3>1. e.rct[q] = d.rct[q] /\ e.app[q] = d.app[q] /\ e.book[q] = d.book[q]
      BY <1>1, <1>4, <1>9, <1>10, <2>2
    <3> QED BY <3>1 DEF Filed
  <2> QED BY <2>1, <2>2
<1>14. \A m \in Memos : MemoFiled(e.memo[m], e.book[m])
  BY <1>1, <1>9, <1>10 DEF Filed
<1>15. Filed(e)
  BY <1>12, <1>13, <1>14 DEF Filed
<1> QED BY <1>15 DEF e

LEMMA AppliedFiled ==
  ASSUME NEW d \in Db, Filed(d), NEW p \in Receipts, d.rct[p].status = "kept",
         NEW al \in Alloc, MayPayAll(d, al), NEW owed \in Int
  PROVE  LET e == Applied(d, p, al, owed) IN Filed(e)
<1> DEFINE c == PaidAll(d, al)
           e == Applied(d, p, al, owed)
           share == WithLater(d.app[p], al)
<1>1. /\ e \in Db /\ e.memo = d.memo /\ e.rct = d.rct /\ e.app = [d.app EXCEPT ![p] = share]
  BY AppliedDb
<1>2. c \in Db /\ SameBut(d, c)
  BY PaidAllDb
<1>3. e.inv = c.inv /\ e.sale = c.sale /\ e.book = c.book
  <2> HIDE DEF c
  <2> QED BY <1>2 DEF Applied, Db, c
<1>4. d.app \in [Receipts -> Shares] /\ d.app[p] \in Shares
  BY DbFields
<1>5. \A i \in Invoices : Taken(share)[i] = Taken(d.app[p])[i] + al[i]
  BY <1>4 DEF Taken, Shares, Alloc, WithLater
<1> HIDE DEF e, share
<1>6. SharesMore(d, e, p, al)
  BY <1>1, <1>4, <1>5 DEF SharesMore
<1>7. e.book = d.book
  BY <1>2, <1>3 DEF SameBut
<1>8. \A i \in Invoices :
        /\ InvoiceFiled(e.inv[i], e.book[i], e.sale[i])
        /\ SaleFiled(e.inv[i], e.sale[i], Sum(ShareOf(e, i), Receipts))
  BY <1>1, <1>3, <1>6, <1>7, PaidInvoicesFiled
<1> HIDE DEF c
<1>9. ASSUME NEW q \in Receipts
      PROVE  ReceiptFiled(e.rct[q], e.book[q], e.app[q])
  <2>1. ReceiptFiled(d.rct[q], d.book[q], d.app[q])
    BY DEF Filed
  <2>2. q # p => e.app[q] = d.app[q]
    BY <1>1, <1>4
  <2> QED BY <1>1, <1>7, <2>1, <2>2 DEF ReceiptFiled
<1>10. \A m \in Memos : MemoFiled(e.memo[m], e.book[m])
  BY <1>1, <1>7 DEF Filed
<1>11. Filed(e)
  BY <1>8, <1>9, <1>10 DEF Filed
<1> QED BY <1>11 DEF e


LEMMA SameFiled ==
  ASSUME NEW d, NEW e, Filed(d), e.inv = d.inv, e.sale = d.sale, e.book = d.book,
         e.app = d.app, e.memo = d.memo,
         \A p \in Receipts : /\ e.rct[p].status = d.rct[p].status
                             /\ e.rct[p].amount = d.rct[p].amount
  PROVE  Filed(e)
<1>1. \A i \in Invoices : ShareOf(e, i) = ShareOf(d, i)
  BY DEF ShareOf
<1>2. \A p \in Receipts : ReceiptFiled(e.rct[p], e.book[p], e.app[p])
  BY DEF Filed, ReceiptFiled
<1> QED BY <1>1, <1>2 DEF Filed

(* One invoice saved, with its own entries.                                 *)
LEMMA InvoiceChangedFiled ==
  ASSUME NEW d \in Db, NEW e, Filed(d), NEW i \in Invoices, NEW row,
         e.inv = [d.inv EXCEPT ![i] = row], e.sale = d.sale, e.rct = d.rct, e.app = d.app,
         e.memo = d.memo, \A x \in Documents \ {i} : e.book[x] = d.book[x],
         InvoiceFiled(row, e.book[i], d.sale[i]),
         SaleFiled(row, d.sale[i], Sum(ShareOf(d, i), Receipts))
  PROVE  Filed(e)
<1>1. d.inv \in [Invoices -> InvRow]
  BY DbFields
<1>2. /\ \A j \in Invoices \ {i} : j \in Documents \ {i}
      /\ \A m \in Memos : m \in Documents \ {i}
      /\ \A q \in Receipts : q \in Documents \ {i}
  BY ReceivablesAssumption DEF Documents
<1>3. ASSUME NEW j \in Invoices
      PROVE  /\ InvoiceFiled(e.inv[j], e.book[j], e.sale[j])
             /\ SaleFiled(e.inv[j], e.sale[j], Sum(ShareOf(e, j), Receipts))
  <2>1. ShareOf(e, j) = ShareOf(d, j)
    BY DEF ShareOf
  <2>2. CASE j = i
    BY <1>1, <2>1, <2>2
  <2>3. CASE j # i
    <3>1. e.inv[j] = d.inv[j] /\ e.book[j] = d.book[j]
      BY <1>1, <1>2, <2>3
    <3> QED BY <2>1, <3>1 DEF Filed
  <2> QED BY <2>2, <2>3
<1>4. \A p \in Receipts : ReceiptFiled(e.rct[p], e.book[p], e.app[p])
  BY <1>2 DEF Filed
<1>5. \A m \in Memos : MemoFiled(e.memo[m], e.book[m])
  BY <1>2 DEF Filed
<1> QED BY <1>3, <1>4, <1>5 DEF Filed

LEMMA MemoChangedFiled ==
  ASSUME NEW d \in Db, NEW e, Filed(d), NEW m \in Memos, NEW row,
         e.memo = [d.memo EXCEPT ![m] = row], e.inv = d.inv, e.sale = d.sale, e.rct = d.rct,
         e.app = d.app, \A x \in Documents \ {m} : e.book[x] = d.book[x],
         MemoFiled(row, e.book[m])
  PROVE  Filed(e)
<1>1. d.memo \in [Memos -> MemoRow]
  BY DbFields
<1>2. /\ \A j \in Invoices : j \in Documents \ {m}
      /\ \A n \in Memos \ {m} : n \in Documents \ {m}
      /\ \A q \in Receipts : q \in Documents \ {m}
  BY ReceivablesAssumption DEF Documents
<1>3. \A i \in Invoices : ShareOf(e, i) = ShareOf(d, i)
  BY DEF ShareOf
<1>4. \A i \in Invoices :
        /\ InvoiceFiled(e.inv[i], e.book[i], e.sale[i])
        /\ SaleFiled(e.inv[i], e.sale[i], Sum(ShareOf(e, i), Receipts))
  BY <1>2, <1>3 DEF Filed
<1>5. \A p \in Receipts : ReceiptFiled(e.rct[p], e.book[p], e.app[p])
  BY <1>2 DEF Filed
<1>6. ASSUME NEW n \in Memos
      PROVE  MemoFiled(e.memo[n], e.book[n])
  <2>1. CASE n = m
    BY <1>1, <2>1
  <2>2. CASE n # m
    BY <1>1, <1>2, <2>2 DEF Filed
  <2> QED BY <2>1, <2>2
<1> QED BY <1>4, <1>5, <1>6 DEF Filed

(* An invoice no receipt or memo paid: none, a draft, or one that ended.    *)
LEMMA UnpaidFiled ==
  ASSUME NEW d \in Db, Filed(d), NEW i \in Invoices, d.inv[i].paid = 0, NEW row, row.paid = 0,
         NEW sale, sale = "none" \/ row.status \notin OpenStatus
  PROVE  SaleFiled(row, sale, Sum(ShareOf(d, i), Receipts))
  BY DEF Filed, SaleFiled

LEMMA RaisedFiled ==
  ASSUME NEW d \in Db, Filed(d), NEW i \in Invoices, d.inv[i].status = "none",
         NEW t \in Nat, NEW owed \in Int
  PROVE  LET e == Raised(d, i, t, owed) IN Filed(e)
<1> DEFINE e == Raised(d, i, t, owed)
           row == [status |-> "sent", total |-> t, paid |-> 0, balance |-> t, posted |-> TRUE]
<1>1. e \in Db /\ e.rct = d.rct /\ e.app = d.app /\ e.memo = d.memo
  BY RaisedDb
<1>2. e.inv = [d.inv EXCEPT ![i] = row] /\ e.sale = d.sale
      /\ e.book = [d.book EXCEPT ![i].made = t]
  BY DEF Raised, Db
<1>3. InvoiceFiled(d.inv[i], d.book[i], d.sale[i])
  BY DEF Filed
<1>4. d.book \in [Documents -> BookRow] /\ i \in Documents
  BY DbFields DEF Documents
<1>5. e.book[i].made = t /\ e.book[i].undone = 0 /\ d.sale[i] = "none"
  BY <1>2, <1>3, <1>4 DEF InvoiceFiled, BookRow
<1>6. d.inv[i].paid = 0
  <2>1. d.inv[i] \in InvRow /\ d.inv[i].status \notin OpenStatus
    BY DbFields DEF OpenStatus
  <2> QED BY <2>1, InvRowFields
<1>7. row.paid = 0 /\ row.total = t /\ row.status = "sent"
  OBVIOUS
<1>8. \A x \in Documents \ {i} : e.book[x] = d.book[x]
  BY <1>2, <1>4
<1> HIDE DEF e, row
<1>9. SaleFiled(row, d.sale[i], Sum(ShareOf(d, i), Receipts))
  BY <1>5, <1>6, <1>7, UnpaidFiled
<1>10. InvoiceFiled(row, e.book[i], d.sale[i])
  BY <1>5, <1>7 DEF InvoiceFiled
<1>11. Filed(e)
  BY <1>1, <1>2, <1>8, <1>9, <1>10, InvoiceChangedFiled, ZenonT(60)
<1> QED BY <1>11 DEF e

LEMMA CreditedFiled ==
  ASSUME NEW d \in Db, Filed(d), NEW m \in Memos, NEW i \in Invoices, NEW a \in Nat,
         MayCredit(d, m, i, a)
  PROVE  LET e == Credited(d, m, i, a) IN Filed(e)
<1> DEFINE e == Credited(d, m, i, a)
           x == [d EXCEPT !.inv[i] = PaidBy(@, a)]
           memo == WithCredit(d.memo[m], a)
           row == PaidBy(d.inv[i], a)
<1>1. /\ e \in Db /\ e.rct = d.rct /\ e.app = d.app /\ e.owed = d.owed
      /\ e.memo = [d.memo EXCEPT ![m] = memo]
  BY CreditedDb
<1>2. e.inv = [d.inv EXCEPT ![i] = row] /\ e.book = d.book /\ e.sale = d.sale
  BY DEF Credited, Db
<1>3. /\ d.inv[i] \in InvRow /\ d.inv[i].status \in OpenStatus /\ a > 0
      /\ a <= d.inv[i].balance /\ d.memo[m].status \in {"open", "applied"}
      /\ d.memo[m] \in MemoFields
  BY DbFields DEF MayCredit, MayPay, MemoRow
<1>4. row.paid = d.inv[i].paid + a
  BY <1>3, PaidByFigures
<1>5. row \in InvRow
  BY <1>3, PaidByRow
<1>6. memo.total = d.memo[m].total /\ memo.status \in {"closed", "applied"}
  <2> DEFINE left == d.memo[m].total - (d.memo[m].applied + a)
             st == IF left <= 0 THEN "closed" ELSE "applied"
             ap == d.memo[m].applied + a
  <2>1. memo = [d.memo[m] EXCEPT !.applied = ap, !.balance = left, !.status = st]
    BY DEF WithCredit
  <2>2. st \in {"closed", "applied"}
    OBVIOUS
  <2> HIDE DEF left, st, ap, memo
  <2> QED BY <1>3, <2>1, <2>2 DEF MemoFields
<1>7. x.inv = [d.inv EXCEPT ![i] = row] /\ x.book = d.book /\ x.sale = d.sale
      /\ x.rct = d.rct /\ x.app = d.app /\ x.memo = d.memo
  BY DEF Db
<1>8. x \in Db
  <2> DEFINE f == [d.inv EXCEPT ![i] = row]
  <2>1. f \in [Invoices -> InvRow]
    BY <1>5, DbFields
  <2>2. x = [d EXCEPT !.inv = f]
    OBVIOUS
  <2> HIDE DEF f, x
  <2> QED BY <2>1, <2>2 DEF Db
<1> HIDE DEF e, x, row, memo
<1>9. /\ InvoiceFiled(d.inv[i], d.book[i], d.sale[i])
      /\ SaleFiled(d.inv[i], d.sale[i], Sum(ShareOf(d, i), Receipts))
      /\ MemoFiled(d.memo[m], d.book[m])
  BY DEF Filed
<1>10. InvoiceFiled(row, x.book[i], d.sale[i])
  BY <1>3, <1>7, <1>9, PaidFiled DEF row
<1>11. SaleFiled(row, d.sale[i], Sum(ShareOf(d, i), Receipts))
  <2>1. Sum(ShareOf(d, i), Receipts) \in Nat /\ d.inv[i].paid \in Nat
    BY <1>3, FigureSums, InvRowFields
  <2> QED BY <1>3, <1>4, <1>9, <2>1 DEF SaleFiled
<1>12. Filed(x)
  BY <1>7, <1>10, <1>11, InvoiceChangedFiled
<1>13. MemoFiled(memo, d.book[m])
  BY <1>3, <1>6, <1>9 DEF MemoFiled
<1>14. Filed(e)
  BY <1>1, <1>2, <1>7, <1>8, <1>12, <1>13, MemoChangedFiled
<1> QED BY <1>14 DEF e

-----------------------------------------------------------------------------
(* Each handler, while requests do not overlap. *)

ServedApart(r) ==
  /\ Typed /\ Typed' /\ OneAtATime /\ Tied /\ apart /\ Filed(db) /\ r \in Requests

LEMMA CreateFiled ==
  ASSUME NEW r, ServedApart(r), Create(r)
  PROVE  Filed(db')
<1> DEFINE c == req[r]
           i == c.i
           raised == Raised(db, i, c.t, c.owed)
           row == [NoInvoice EXCEPT !.status = "draft", !.total = c.t, !.balance = c.t]
           drafted == [db EXCEPT !.inv[i] = row]
<1>1. c \in CreateCall /\ db \in Db
  BY CallShapes DEF Typed, ServedApart, Create, Serving
<1>2. i \in Invoices /\ c.t \in Nat /\ c.owed \in Int /\ db.inv[i].status = "none"
  BY <1>1, ReceivablesAssumption DEF CreateCall, Create
<1>3. db' = raised \/ db' = drafted
  BY DEF Create, Commit, Then
<1>4. drafted.inv = [db.inv EXCEPT ![i] = row] /\ drafted.book = db.book
      /\ drafted.sale = db.sale /\ drafted.rct = db.rct /\ drafted.app = db.app
      /\ drafted.memo = db.memo
  BY <1>1 DEF Db
<1>5. row.status = "draft" /\ row.paid = 0
  BY DEF NoInvoice
<1>6. Filed(db)
  BY DEF ServedApart
<1> DEFINE t == c.t
           owed == c.owed
<1> HIDE DEF c, i, row, drafted, t, owed
<1>7. Filed(raised)
  <2>1. i \in Invoices /\ t \in Nat /\ owed \in Int /\ raised = Raised(db, i, t, owed)
    BY <1>2 DEF t, owed
  <2> HIDE DEF raised
  <2> QED BY <1>1, <1>2, <1>6, <2>1, RaisedFiled
<1> HIDE DEF raised
<1>8. Filed(drafted)
  <2>1. InvoiceFiled(db.inv[i], db.book[i], db.sale[i]) /\ db.inv[i] \in InvRow
    BY <1>1, <1>2, <1>6, DbFields DEF Filed
  <2>2. db.sale[i] = "none" /\ db.inv[i].paid = 0
    BY <1>2, <2>1, InvRowFields DEF InvoiceFiled, OpenStatus
  <2>3. SaleFiled(row, db.sale[i], Sum(ShareOf(db, i), Receipts))
    BY <1>1, <1>2, <1>5, <1>6, <2>2, UnpaidFiled
  <2>4. InvoiceFiled(row, drafted.book[i], db.sale[i])
    BY <1>2, <1>4, <1>5, <2>1 DEF InvoiceFiled, OpenStatus
  <2> QED BY <1>1, <1>2, <1>4, <1>6, <2>3, <2>4, InvoiceChangedFiled
<1> QED BY <1>3, <1>7, <1>8

LEMMA UpdateFiled ==
  ASSUME NEW r, ServedApart(r), Update(r)
  PROVE  Filed(db')
<1> DEFINE c == req[r]
           i == c.i
           row == [c.seen EXCEPT !.total = c.t, !.balance = c.t]
           e == [db EXCEPT !.inv[i] = row]
<1>1. c \in UpdateCall /\ db \in Db /\ Fresh(c, db) /\ Filed(db)
  BY CallShapes, ServedFresh DEF Typed, ServedApart, Update, Serving, Idle
<1>2. /\ i \in Invoices /\ c.seen \in InvFields /\ c.seen.status = "draft"
      /\ c.seen = db.inv[i] /\ db.inv[i] \in InvRow
  BY <1>1, DbFields DEF UpdateCall, MayUpdate, InvRow, Fresh
<1>3. row.paid = c.seen.paid /\ row.status = "draft"
  BY <1>2 DEF InvFields
<1>4. db' = e
  BY DEF Update, Commit, Then
<1>5. /\ e.inv = [db.inv EXCEPT ![i] = row] /\ e.book = db.book /\ e.sale = db.sale
      /\ e.rct = db.rct /\ e.app = db.app /\ e.memo = db.memo
  BY <1>1 DEF Db
<1> HIDE DEF e, row, i, c
<1>6. InvoiceFiled(db.inv[i], db.book[i], db.sale[i]) /\ db.inv[i].paid = 0
  BY <1>1, <1>2, InvRowFields DEF Filed, OpenStatus
<1>7. InvoiceFiled(row, e.book[i], db.sale[i]) /\ db.sale[i] = "none"
  BY <1>2, <1>3, <1>5, <1>6 DEF InvoiceFiled, OpenStatus
<1>8. SaleFiled(row, db.sale[i], Sum(ShareOf(db, i), Receipts))
  BY <1>1, <1>2, <1>3, <1>6, <1>7, UnpaidFiled
<1>9. Filed(e)
  BY <1>1, <1>2, <1>5, <1>7, <1>8, InvoiceChangedFiled
<1> QED BY <1>4, <1>9

LEMMA SendFiled ==
  ASSUME NEW r, ServedApart(r), Send(r)
  PROVE  Filed(db')
<1> DEFINE c == req[r]
           i == c.i
           seen == c.seen
           st == IF seen.status = "draft" THEN "sent" ELSE seen.status
           row == [seen EXCEPT !.posted = TRUE, !.status = st]
           d == [db EXCEPT !.inv[i] = row]
           e == [d EXCEPT !.book[i].made = @ + seen.total, !.owed = @ + seen.total,
                          !.ar = @ + seen.total]
<1>1. c \in SendCall /\ db \in Db /\ Fresh(c, db) /\ Filed(db) /\ Books(db, Paid)
  BY CallShapes, ServedFresh DEF Typed, ServedApart, Send, Serving, Idle
<1>2. /\ i \in Invoices /\ seen \in InvFields /\ MaySend(seen)
      /\ seen = db.inv[i] /\ db.inv[i] \in InvRow
  BY <1>1, DbFields DEF SendCall, InvRow, Fresh
<1>3. row.paid = seen.paid /\ row.status = st /\ row.total = seen.total
      /\ row.balance = seen.balance
  BY <1>2 DEF InvFields
<1>4. db' = IF seen.posted THEN d ELSE e
  BY DEF Send, Commit, Then
<1>5. /\ d.inv = [db.inv EXCEPT ![i] = row] /\ d.book = db.book /\ d.sale = db.sale
      /\ d.rct = db.rct /\ d.app = db.app /\ d.memo = db.memo
  BY <1>1 DEF Db
<1>6. /\ e.inv = d.inv /\ e.book = [d.book EXCEPT ![i].made = @ + seen.total]
      /\ e.sale = d.sale /\ e.rct = d.rct /\ e.app = d.app /\ e.memo = d.memo
  <2> HIDE DEF d
  <2>1. DOMAIN d = DOMAIN db
    BY <1>1 DEF d, Db
  <2> QED BY <1>1, <2>1 DEF Db
<1>7. /\ PostedOnce(seen) /\ InvoiceFiled(seen, db.book[i], db.sale[i])
      /\ SaleFiled(seen, db.sale[i], Sum(ShareOf(db, i), Receipts))
  BY <1>1, <1>2 DEF Books, Filed
<1>8. seen.status \in OpenStatus \/ seen.status = "draft"
  BY <1>2 DEF MaySend, Exists, InvFields, InvoiceStatus, OpenStatus
<1>9. seen.status = "draft" => st = "sent"
  OBVIOUS
<1>10. seen.status # "draft" => st = seen.status
  OBVIOUS
<1> HIDE DEF d, e, row, st, seen, i, c
<1>11. CASE seen.posted
  <2>1. seen.status \in OpenStatus /\ st = seen.status
    BY <1>7, <1>8, <1>10, <1>11 DEF PostedOnce, OpenStatus
  <2>2. InvoiceFiled(row, d.book[i], db.sale[i])
    BY <1>3, <1>5, <1>7, <2>1 DEF InvoiceFiled
  <2>3. SaleFiled(row, db.sale[i], Sum(ShareOf(db, i), Receipts))
    BY <1>3, <1>7, <2>1 DEF SaleFiled, PaidStatusOf
  <2>4. Filed(d)
    BY <1>1, <1>2, <1>5, <2>2, <2>3, InvoiceChangedFiled
  <2> QED BY <1>4, <1>11, <2>4
<1>12. CASE ~seen.posted
  <2>1. seen.status = "draft" /\ st = "sent"
    BY <1>7, <1>8, <1>9, <1>12 DEF PostedOnce
  <2>2. seen.paid = 0 /\ seen.total \in Nat
    BY <1>2, <2>1, InvRowFields DEF OpenStatus
  <2>3. db.book \in [Documents -> BookRow] /\ i \in Documents
    BY <1>1, <1>2, DbFields DEF Documents
  <2>4. db.book[i].made = 0 /\ db.book[i].undone = 0 /\ db.sale[i] = "none"
    BY <1>7, <2>1 DEF InvoiceFiled
  <2>5. e.book[i].made = seen.total /\ e.book[i].undone = 0
    BY <1>5, <1>6, <2>2, <2>3, <2>4 DEF BookRow
  <2>6. \A x \in Documents \ {i} : e.book[x] = db.book[x]
    BY <1>5, <1>6, <2>3
  <2>7. InvoiceFiled(row, e.book[i], db.sale[i])
    BY <1>3, <2>1, <2>2, <2>5 DEF InvoiceFiled
  <2>8. SaleFiled(row, db.sale[i], Sum(ShareOf(db, i), Receipts))
    BY <1>1, <1>2, <1>3, <2>2, <2>4, UnpaidFiled
  <2>9. /\ e.inv = [db.inv EXCEPT ![i] = row] /\ e.sale = db.sale /\ e.rct = db.rct
        /\ e.app = db.app /\ e.memo = db.memo
    BY <1>5, <1>6
  <2>10. Filed(e)
    BY <1>1, <1>2, <2>6, <2>7, <2>8, <2>9, InvoiceChangedFiled
  <2> QED BY <1>4, <1>12, <2>10
<1> QED BY <1>11, <1>12

(* Void and Delete: the entries of the invoice add up to nothing.           *)
LEMMA EndedFiled ==
  ASSUME db \in Db, Filed(db), NEW i \in Invoices, NEW seen, seen = db.inv[i], seen.paid = 0,
         PostedOnce(seen), NEW row, row.status \in {"void", "gone"}, row.paid = 0,
         NEW reverses, reverses <=> seen.posted /\ seen.status # "void",
         LET d == [db EXCEPT !.inv[i] = row]
         IN db' = IF reverses THEN Reversed(d, i, seen) ELSE d
  PROVE  Filed(db')
<1> DEFINE d == [db EXCEPT !.inv[i] = row]
           e == Reversed(d, i, seen)
<1>1. /\ d.inv = [db.inv EXCEPT ![i] = row] /\ d.book = db.book /\ d.sale = db.sale
      /\ d.rct = db.rct /\ d.app = db.app /\ d.memo = db.memo
  BY DEF Db
<1>2. /\ e.inv = d.inv /\ e.book = [d.book EXCEPT ![i].undone = @ - seen.total]
      /\ e.sale = d.sale /\ e.rct = d.rct /\ e.app = d.app /\ e.memo = d.memo
  <2> HIDE DEF d
  <2>1. DOMAIN d = DOMAIN db
    BY DEF d, Db
  <2> QED BY <2>1 DEF Db, Reversed
<1>3. db' = IF reverses THEN e ELSE d
  OBVIOUS
<1>4. /\ InvoiceFiled(seen, db.book[i], db.sale[i]) /\ seen \in InvRow
      /\ db.book \in [Documents -> BookRow] /\ i \in Documents
  BY DbFields DEF Filed, Documents
<1>5. seen.total \in Nat /\ seen.status \in InvoiceStatus
  BY <1>4, InvRowFields
<1>6. SaleFiled(row, db.sale[i], Sum(ShareOf(db, i), Receipts))
  <2>1. row.status \notin OpenStatus
    BY DEF OpenStatus
  <2> QED BY <2>1, UnpaidFiled
<1> HIDE DEF d, e
<1>7. CASE reverses
  <2>1. seen.status \in OpenStatus
    BY <1>7 DEF PostedOnce
  <2>2. db.book[i].made = seen.total /\ db.book[i].undone = 0
    BY <1>4, <2>1 DEF InvoiceFiled
  <2>3. e.book[i].made = seen.total /\ e.book[i].undone = 0 - seen.total
    BY <1>1, <1>2, <1>4, <2>2 DEF BookRow
  <2>4. \A x \in Documents \ {i} : e.book[x] = db.book[x]
    BY <1>1, <1>2, <1>4
  <2>5. InvoiceFiled(row, e.book[i], db.sale[i])
    BY <1>5, <2>3 DEF InvoiceFiled, OpenStatus
  <2>6. /\ e.inv = [db.inv EXCEPT ![i] = row] /\ e.sale = db.sale /\ e.rct = db.rct
        /\ e.app = db.app /\ e.memo = db.memo
    BY <1>1, <1>2
  <2>7. Filed(e)
    BY <1>6, <2>4, <2>5, <2>6, InvoiceChangedFiled
  <2> QED BY <1>3, <1>7, <2>7
<1>8. CASE ~reverses
  <2>1. seen.status \notin OpenStatus
    BY <1>8 DEF PostedOnce, OpenStatus
  <2>2. db.book[i].made + db.book[i].undone = 0
    BY <1>4, <1>5, <2>1 DEF InvoiceFiled, InvoiceStatus, OpenStatus
  <2>3. InvoiceFiled(row, d.book[i], db.sale[i])
    BY <1>1, <2>2 DEF InvoiceFiled, OpenStatus
  <2>4. Filed(d)
    BY <1>1, <1>6, <2>3, InvoiceChangedFiled
  <2> QED BY <1>3, <1>8, <2>4
<1> QED BY <1>7, <1>8

LEMMA VoidFiled ==
  ASSUME NEW r, ServedApart(r), Void(r) \/ Delete(r)
  PROVE  Filed(db')
<1> DEFINE c == req[r]
           i == c.i
           seen == c.seen
<1>1. c \in EndCall /\ db \in Db /\ Fresh(c, db) /\ Filed(db) /\ Books(db, Paid)
  BY CallShapes, ServedFresh DEF Typed, ServedApart, Void, Delete, Serving, Idle
<1>2. /\ i \in Invoices /\ seen \in InvFields /\ seen.paid = 0 /\ seen = db.inv[i]
      /\ PostedOnce(seen)
  BY <1>1 DEF EndCall, InvRow, Fresh, Books
<1>3. CASE Void(r)
  <2> DEFINE row == [seen EXCEPT !.status = "void"]
             reverses == seen.posted
  <2>1. row.status = "void" /\ row.paid = 0
    BY <1>2 DEF InvFields
  <2>2. seen.status # "void"
    BY <1>1, <1>3 DEF Fresh, Void, Serving
  <2>3. LET d == [db EXCEPT !.inv[i] = row]
        IN db' = IF reverses THEN Reversed(d, i, seen) ELSE d
    BY <1>3 DEF Void, Commit, Then
  <2>4. reverses <=> seen.posted /\ seen.status # "void"
    BY <2>2
  <2> HIDE DEF row, reverses, c, i, seen
  <2> QED BY <1>1, <1>2, <2>1, <2>3, <2>4, EndedFiled
<1>4. CASE Delete(r)
  <2> DEFINE row == [NoInvoice EXCEPT !.status = "gone"]
             reverses == ToReverse(seen)
  <2>1. row.status = "gone" /\ row.paid = 0
    BY DEF NoInvoice
  <2>2. LET d == [db EXCEPT !.inv[i] = row]
        IN db' = IF reverses THEN Reversed(d, i, seen) ELSE d
    BY <1>4 DEF Delete, Commit, Then
  <2>3. reverses <=> seen.posted /\ seen.status # "void"
    BY DEF ToReverse
  <2> HIDE DEF row, reverses, c, i, seen
  <2> QED BY <1>1, <1>2, <2>1, <2>2, <2>3, EndedFiled
<1> QED BY <1>3, <1>4

LEMMA ReceiptFiledStep ==
  ASSUME NEW r, ServedApart(r), Receive(r) \/ Apply(r)
  PROVE  Filed(db')
<1> DEFINE c == req[r]
<1>1. c \in Calls /\ db \in Db /\ Filed(db)
  BY DEF Typed, ServedApart
<1>2. CASE Receive(r)
  <2>1. c \in ReceiveCall
    BY <1>1, <1>2, CallShapes DEF Receive, Serving
  <2>2. /\ c.p \in Receipts /\ c.amount \in Nat /\ c.al \in Alloc /\ c.held \in BOOLEAN
        /\ c.owed \in Int
    BY <2>1, ReceivablesAssumption DEF ReceiveCall
  <2>3. /\ db.rct[c.p].status = "none" /\ MayPayAll(db, c.al)
        /\ db' = Received(db, c.p, c.amount, c.al, c.held, c.owed)
    BY <1>2 DEF Receive, MayReceive, Commit, Then
  <2> HIDE DEF c
  <2>4. LET e == Received(db, c.p, c.amount, c.al, c.held, c.owed) IN Filed(e)
    BY <1>1, <2>2, <2>3, ReceivedFiled
  <2> QED BY <2>3, <2>4
<1>3. CASE Apply(r)
  <2>1. c \in ApplyCall
    BY <1>1, <1>3, CallShapes DEF Apply, Serving
  <2>2. c.p \in Receipts /\ c.al \in Alloc /\ c.owed \in Int
    BY <2>1 DEF ApplyCall
  <2>3. /\ db.rct[c.p].status = "kept" /\ MayPayAll(db, c.al)
        /\ db' = Applied(db, c.p, c.al, c.owed)
    BY <1>3 DEF Apply, MayApply, Commit, Then
  <2> HIDE DEF c
  <2>4. LET e == Applied(db, c.p, c.al, c.owed) IN Filed(e)
    BY <1>1, <2>2, <2>3, AppliedFiled
  <2> QED BY <2>3, <2>4
<1> QED BY <1>2, <1>3

LEMMA MemoStepFiled ==
  ASSUME NEW r, ServedApart(r),
         Memo(r) \/ Credit(r) \/ Refund(r) \/ VoidMemo(r) \/ RemoveMemo(r)
  PROVE  Filed(db')
<1> DEFINE c == req[r]
           m == c.m
           e == db'
<1>1. /\ c \in Calls /\ db \in Db /\ Fresh(c, db) /\ Filed(db)
      /\ db.memo \in [Memos -> MemoRow] /\ db.book \in [Documents -> BookRow]
  BY ServedFresh, DbFields
     DEF Typed, ServedApart, Memo, Credit, Refund, VoidMemo, RemoveMemo, Serving, Idle
<1>2. ASSUME NEW n \in Memos
      PROVE  n \in Documents /\ db.memo[n] \in MemoFields /\ MemoFiled(db.memo[n], db.book[n])
  BY <1>1 DEF Documents, MemoRow, Filed
<1>3. CASE Memo(r)
  <2> DEFINE row == [status |-> "open", total |-> c.t, applied |-> 0, balance |-> c.t, of |-> c.S]
  <2>1. m \in Memos
    BY <1>1, <1>3, CallShapes DEF Memo, Serving, MemoCall
  <2>2. /\ e.memo = [db.memo EXCEPT ![m] = row] /\ e.book = [db.book EXCEPT ![m].made = -c.t]
        /\ e.inv = db.inv /\ e.sale = db.sale /\ e.rct = db.rct /\ e.app = db.app
        /\ db.memo[m].status = "none"
    BY <1>1, <1>3 DEF Memo, Then, Db
  <2>3. row.status = "open" /\ row.total = c.t
    OBVIOUS
  <2> HIDE DEF row, e, m
  <2>4. e.book[m].made = -c.t /\ e.book[m].undone = 0
    BY <1>1, <1>2, <2>1, <2>2 DEF MemoFiled, BookRow
  <2>5. \A x \in Documents \ {m} : e.book[x] = db.book[x]
    BY <1>1, <1>2, <2>1, <2>2
  <2>6. MemoFiled(row, e.book[m])
    BY <2>3, <2>4 DEF MemoFiled
  <2>7. Filed(e)
    BY <1>1, <2>1, <2>2, <2>5, <2>6, MemoChangedFiled
  <2> QED BY <2>7 DEF e
<1>4. CASE Credit(r)
  <2>1. c \in CreditCall
    BY <1>1, <1>4, CallShapes DEF Credit, Serving
  <2>2. /\ c.m \in Memos /\ c.i \in Invoices /\ c.a \in Int /\ c.a > 0
        /\ MayCredit(db, c.m, c.i, c.a) /\ db' = Credited(db, c.m, c.i, c.a)
    BY <1>4, <2>1 DEF CreditCall, Credit, MayCredit, MayPay, Then
  <2> HIDE DEF c
  <2>3. c.a \in Nat
    BY <2>2
  <2>4. LET x == Credited(db, c.m, c.i, c.a) IN Filed(x)
    BY <1>1, <2>2, <2>3, CreditedFiled
  <2> QED BY <2>2, <2>4
<1>5. CASE Refund(r)
  <2> DEFINE row == [c.seen EXCEPT !.balance = 0, !.status = "refunded"]
  <2>1. c \in RefundCall /\ c.op = "refund"
    BY <1>1, <1>5, CallShapes DEF Refund, Serving
  <2>2. /\ m \in Memos /\ c.seen \in MemoRow /\ c.seen \in MemoFields /\ c.seen.balance > 0
        /\ c.seen = db.memo[m]
    BY <1>1, <1>5, <2>1 DEF RefundCall, MemoRow, Refund, Fresh
  <2>3. /\ e.memo = [db.memo EXCEPT ![m] = row] /\ e.book = db.book
        /\ e.inv = db.inv /\ e.sale = db.sale /\ e.rct = db.rct /\ e.app = db.app
    BY <1>1, <1>5 DEF Refund, Commit, Then, Db
  <2>4. row.status = "refunded" /\ row.total = c.seen.total
    BY <2>2 DEF MemoFields
  <2>5. c.seen.status \in {"open", "applied"}
    BY <2>2 DEF MemoRow
  <2> HIDE DEF row, e, m, c
  <2>6. MemoFiled(row, e.book[m])
    BY <1>2, <2>2, <2>3, <2>4, <2>5 DEF MemoFiled
  <2>7. Filed(e)
    BY <1>1, <2>2, <2>3, <2>6, MemoChangedFiled
  <2> QED BY <2>7 DEF e
<1>6. CASE VoidMemo(r)
  <2> DEFINE row == [c.seen EXCEPT !.balance = 0, !.status = "void"]
  <2>1. c \in VoidCall /\ c.op = "voidMemo"
    BY <1>1, <1>6, CallShapes DEF VoidMemo, Serving
  <2>2. /\ m \in Memos /\ c.seen \in MemoFields /\ c.seen = db.memo[m]
        /\ c.seen.status \in {"open", "applied", "closed"}
    BY <1>1, <2>1 DEF VoidCall, MemoRow, Fresh
  <2>3. /\ e.memo = [db.memo EXCEPT ![m] = row]
        /\ e.book = [db.book EXCEPT ![m].undone = @ + c.seen.total]
        /\ e.inv = db.inv /\ e.sale = db.sale /\ e.rct = db.rct /\ e.app = db.app
    BY <1>1, <1>6 DEF VoidMemo, Then, Db
  <2>4. row.status = "void"
    BY <2>2 DEF MemoFields
  <2> HIDE DEF row, e, m, c
  <2>5. /\ db.book[m].made = -c.seen.total /\ db.book[m].undone = 0 /\ c.seen.total \in Int
        /\ db.book[m] \in BookRow
    BY <1>1, <1>2, <2>2 DEF MemoFiled, MemoFields
  <2>6. e.book[m].made + e.book[m].undone = 0
    BY <1>1, <1>2, <2>2, <2>3, <2>5 DEF BookRow
  <2>7. \A x \in Documents \ {m} : e.book[x] = db.book[x]
    BY <1>1, <1>2, <2>2, <2>3
  <2>8. MemoFiled(row, e.book[m])
    BY <2>4, <2>6 DEF MemoFiled
  <2>9. Filed(e)
    BY <1>1, <2>2, <2>3, <2>7, <2>8, MemoChangedFiled
  <2> QED BY <2>9 DEF e
<1>7. CASE RemoveMemo(r)
  <2> DEFINE row == [NoMemo EXCEPT !.status = "gone"]
  <2>1. c \in RemoveCall /\ c.op = "removeMemo"
    BY <1>1, <1>7, CallShapes DEF RemoveMemo, Serving
  <2>2. m \in Memos /\ db.memo[m].status = "void"
    BY <1>1, <2>1 DEF RemoveCall, Fresh
  <2>3. /\ e.memo = [db.memo EXCEPT ![m] = row] /\ e.book = db.book
        /\ e.inv = db.inv /\ e.sale = db.sale /\ e.rct = db.rct /\ e.app = db.app
    BY <1>1, <1>7 DEF RemoveMemo, Commit, Then, Db
  <2>4. row.status = "gone"
    BY DEF NoMemo
  <2> HIDE DEF row, e, m, c
  <2>5. MemoFiled(row, e.book[m])
    BY <1>2, <2>2, <2>3, <2>4 DEF MemoFiled
  <2>6. Filed(e)
    BY <1>1, <2>2, <2>3, <2>5, MemoChangedFiled
  <2> QED BY <2>6 DEF e
<1> QED BY <1>3, <1>4, <1>5, <1>6, <1>7

LEMMA ReleaseFiled ==
  ASSUME db \in Db, Filed(db), ReleaseAdvance
  PROVE  Filed(db')
<1> DEFINE e == db'
<1>1. PICK p \in Receipts : db' = [db EXCEPT !.rct[p].held = FALSE]
  BY DEF ReleaseAdvance, Kept
<1>2. /\ e.inv = db.inv /\ e.sale = db.sale /\ e.book = db.book /\ e.app = db.app
      /\ e.memo = db.memo /\ e.rct = [db.rct EXCEPT ![p].held = FALSE]
  BY <1>1 DEF Db
<1>3. db.rct \in [Receipts -> RctFields]
  BY DbFields DEF RctRow
<1> HIDE DEF e
<1>4. ASSUME NEW q \in Receipts
      PROVE  e.rct[q].status = db.rct[q].status /\ e.rct[q].amount = db.rct[q].amount
  BY <1>2, <1>3 DEF RctFields
<1>5. Filed(e)
  BY <1>2, <1>4, SameFiled
<1> QED BY <1>5 DEF e

(* Taking a receipt back: its invoices are reopened, and their sales say    *)
(* so.                                                                      *)
LEMMA DeleteReceiptFiled ==
  ASSUME NEW r, ServedApart(r), DeleteReceipt(r)
  PROVE  Filed(db')
<1> DEFINE c == req[r]
           p == c.p
           of == Taken(c.app)
           touched == {i \in Invoices : of[i] > 0 /\ Exists(db.inv[i])}
           f == [i \in Invoices |-> IF i \in touched THEN Reopened(db.inv[i], of[i])
                                                      ELSE db.inv[i]]
           g == [i \in Invoices |-> IF i \in touched /\ db.sale[i] # "none"
                                      THEN PaidStatusOf(f[i]) ELSE db.sale[i]]
           reopened == Refreshed([db EXCEPT !.inv = f], touched)
           at == Sum([i \in Invoices |-> c.app[i].at], Invoices)
           later == Sum([i \in Invoices |-> c.app[i].later], Invoices)
           row == [NoReceipt EXCEPT !.status = "gone"]
           d(owed) == [reopened EXCEPT
                         !.rct[c.p] = row,
                         !.app[c.p] = NotApplied,
                         !.book[c.p].undone = @ + c.amount,
                         !.owed = owed + at + later,
                         !.ar = @ + at + later,
                         !.advances = @ - (c.amount - at) + later,
                         !.cash = @ - c.amount]
           e == db'
<1>1. /\ c \in DeleteCall /\ c.op = "deleteReceipt" /\ db \in Db /\ db' \in Db
      /\ Fresh(c, db) /\ Filed(db) /\ Books(db, Paid)
  BY CallShapes, ServedFresh DEF Typed, ServedApart, DeleteReceipt, Serving, Idle
<1>2. /\ p \in Receipts /\ c.app \in Shares /\ c.amount \in Nat /\ c.app = db.app[p]
      /\ c.amount = db.rct[p].amount /\ db.rct[p].status = "kept"
  BY <1>1 DEF DeleteCall, Fresh
<1>3. PICK owed : db' = d(owed)
  BY DEF DeleteReceipt, Taken, Commit, Then
<1>4. /\ e.inv = f /\ e.sale = g /\ e.memo = db.memo /\ e.rct = [db.rct EXCEPT ![p] = row]
      /\ e.app = [db.app EXCEPT ![p] = NotApplied]
      /\ e.book = [db.book EXCEPT ![p].undone = @ + c.amount]
  <2> DEFINE x == [db EXCEPT !.inv = f]
  <2>1. x.inv = f /\ x.sale = db.sale /\ x.memo = db.memo /\ x.rct = db.rct /\ x.app = db.app
        /\ x.book = db.book /\ DOMAIN x = DOMAIN db
    BY <1>1 DEF Db
  <2> HIDE DEF x, f, touched, at, later, row, c, p, of
  <2>2. reopened = [x EXCEPT !.sale = g]
    BY <2>1 DEF Refreshed, x
  <2> HIDE DEF g, reopened
  <2>3. /\ reopened.inv = f /\ reopened.sale = g /\ reopened.memo = db.memo
        /\ reopened.rct = db.rct /\ reopened.app = db.app /\ reopened.book = db.book
        /\ DOMAIN reopened = DOMAIN db
    BY <1>1, <2>1, <2>2 DEF Db
  <2> QED BY <1>1, <1>3, <2>3 DEF Db, p
<1>5. of \in Alloc
  BY <1>2 DEF Taken, Shares, Alloc
<1>6. row.status = "gone"
  BY DEF NoReceipt
<1>7. /\ db.rct \in [Receipts -> RctRow] /\ db.app \in [Receipts -> Shares]
      /\ db.book \in [Documents -> BookRow] /\ p \in Documents
  BY <1>1, <1>2, DbFields DEF Documents
<1>8. of = Taken(db.app[p])
  BY <1>2
<1> HIDE DEF e, row, c, p, of
<1>9. SharesMore(e, db, p, of)
  <2>1. \A i \in Invoices : Taken(NotApplied)[i] = 0 /\ of[i] \in Nat
    BY <1>5 DEF Taken, NotApplied, Alloc
  <2>2. \A i \in Invoices : Taken(db.app[p])[i] = Taken(NotApplied)[i] + of[i]
    BY <1>8, <2>1
  <2> QED BY <1>2, <1>4, <1>7, <2>2 DEF SharesMore
<1>10. /\ \A i \in Invoices : i \in Documents \ {p}
       /\ \A m \in Memos : m \in Documents \ {p}
       /\ \A q \in Receipts \ {p} : q \in Documents \ {p}
  BY <1>2, ReceivablesAssumption DEF Documents
<1>11. \A x \in Documents \ {p} : e.book[x] = db.book[x]
  BY <1>4, <1>7
<1>12. ASSUME NEW i \in Invoices
       PROVE  /\ InvoiceFiled(e.inv[i], e.book[i], e.sale[i])
              /\ SaleFiled(e.inv[i], e.sale[i], Sum(ShareOf(e, i), Receipts))
  <2>1. /\ InvoiceFiled(db.inv[i], db.book[i], db.sale[i])
        /\ SaleFiled(db.inv[i], db.sale[i], Sum(ShareOf(db, i), Receipts))
        /\ db.inv[i] \in InvRow /\ e.book[i] = db.book[i] /\ of[i] \in Nat
        /\ db.inv[i].paid \in Nat
    BY <1>1, <1>5, <1>10, <1>11, DbFields, InvRowFields DEF Filed, Alloc
  <2>2. of[i] <= db.inv[i].paid /\ (of[i] > 0 => db.inv[i].status \in OpenStatus)
    BY <1>1, <1>2, <1>8, ShareWithin
  <2>3. /\ Sum(ShareOf(db, i), Receipts) = Sum(ShareOf(e, i), Receipts) + of[i]
        /\ Sum(ShareOf(e, i), Receipts) \in Nat
    BY <1>1, <1>2, <1>5, <1>9, SharesMoreSums, FigureSums DEF e
  <2>4. CASE of[i] > 0
    <3>1. i \in touched
      BY <2>2, <2>4 DEF Exists, OpenStatus
    <3>2. e.inv[i] = Reopened(db.inv[i], of[i])
      BY <1>4, <3>1
    <3>3. e.sale[i] \in {"none", PaidStatusOf(e.inv[i])}
      BY <1>4, <3>1
    <3>4. InvoiceFiled(e.inv[i], e.book[i], e.sale[i])
      BY <2>1, <2>2, <2>4, <3>2, ReopenedFiled
    <3>5. e.inv[i].paid = db.inv[i].paid - of[i]
      <4>1. db.inv[i].paid = Reopened(db.inv[i], of[i]).paid + of[i]
        BY <2>1, <2>2, <2>4, ReopenedFigures
      <4>2. Reopened(db.inv[i], of[i]).paid \in Nat
        BY <2>1, <2>2, <2>4, ReopenedRow, InvRowFields
      <4> QED BY <2>1, <3>2, <4>1, <4>2
    <3> HIDE DEF f, g, touched
    <3>6. SaleFiled(e.inv[i], e.sale[i], Sum(ShareOf(e, i), Receipts))
      BY <2>1, <2>3, <3>3, <3>5 DEF SaleFiled
    <3> QED BY <3>4, <3>6
  <2>5. CASE ~(of[i] > 0)
    <3>1. e.inv[i] = db.inv[i] /\ e.sale[i] = db.sale[i] /\ of[i] = 0
      BY <1>4, <2>1, <2>5
    <3> QED BY <2>1, <2>3, <3>1
  <2> QED BY <2>4, <2>5
<1> HIDE DEF f, g, touched
<1>13. ASSUME NEW q \in Receipts
       PROVE  ReceiptFiled(e.rct[q], e.book[q], e.app[q])
  <2>1. CASE q = p
    <3>1. e.rct[q] = row /\ e.app[q] = NotApplied
      BY <1>4, <1>7, <2>1
    <3>2. /\ db.book[p].made = -c.amount /\ db.book[p].undone = 0
          /\ e.book[p].made = db.book[p].made /\ e.book[p].undone = db.book[p].undone + c.amount
      BY <1>1, <1>2, <1>4, <1>7 DEF Filed, ReceiptFiled, BookRow
    <3>3. e.book[p].made + e.book[p].undone = 0
      BY <1>2, <3>2
    <3> QED BY <1>6, <2>1, <3>1, <3>3 DEF ReceiptFiled
  <2>2. CASE q # p
    <3>1. e.rct[q] = db.rct[q] /\ e.app[q] = db.app[q] /\ e.book[q] = db.book[q]
      BY <1>4, <1>7, <1>10, <1>11, <2>2
    <3> QED BY <1>1, <3>1 DEF Filed
  <2> QED BY <2>1, <2>2
<1>14. \A m \in Memos : MemoFiled(e.memo[m], e.book[m])
  BY <1>1, <1>4, <1>10, <1>11 DEF Filed
<1>15. Filed(e)
  BY <1>12, <1>13, <1>14 DEF Filed
<1> QED BY <1>15 DEF e

LEMMA SettleFiled ==
  ASSUME NEW r, ServedApart(r), Settle(r)
  PROVE  Filed(db')
<1> DEFINE c == req[r]
           alone == Alone(c.i, c.a)
           advanced == Applied(db, c.p, alone, c.owed)
           credited == Credited(advanced, c.m, c.i, c.b)
           al == AutoApply(credited, c.cash)
           received == Received(credited, c.q, c.cash, al, FALSE, credited.owed)
<1>1. c \in SettleCall /\ db \in Db /\ Filed(db) /\ Amounts \subseteq Nat
  BY CallShapes, ReceivablesAssumption DEF Typed, ServedApart, Settle, Serving, Idle
<1>2. /\ c.p \in Receipts /\ c.m \in Memos /\ c.q \in Receipts /\ c.i \in Invoices
      /\ c.a \in Nat /\ c.b \in Nat /\ c.cash \in Nat /\ c.owed \in Int
  <2>1. /\ c.p \in Receipts /\ c.m \in Memos /\ c.q \in Receipts /\ c.i \in Invoices
        /\ c.a \in Amounts /\ c.b \in Amounts /\ c.cash \in Amounts \cup {0} /\ c.owed \in Int
    BY <1>1 DEF SettleCall
  <2> HIDE DEF c
  <2>2. Amounts \cup {0} \subseteq Nat
    BY <1>1
  <2> QED BY <1>1, <2>1, <2>2
<1>3. /\ db.rct[c.p].status = "kept" /\ MayPayAll(db, alone)
      /\ MayCredit(advanced, c.m, c.i, c.b) /\ db.rct[c.q].status = "none"
      /\ db' = IF c.cash = 0 THEN credited ELSE received
  BY DEF Settle, MayApply, Then
<1>4. alone \in Alloc
  BY <1>2, AllocatedAlone
<1> HIDE DEF alone, c
<1>5. advanced \in Db /\ advanced.rct = db.rct
  BY <1>1, <1>2, <1>4, AppliedParts
<1>6. Filed(advanced)
  BY <1>1, <1>2, <1>3, <1>4, AppliedFiled
<1> HIDE DEF advanced
<1>7. credited \in Db /\ credited.rct = advanced.rct
  <2>1. LET x == Credited(advanced, c.m, c.i, c.b)
        IN /\ x \in Db /\ x.rct = advanced.rct /\ x.app = advanced.app /\ x.owed = advanced.owed
           /\ x.memo = [advanced.memo EXCEPT ![c.m] = WithCredit(advanced.memo[c.m], c.b)]
    BY <1>2, <1>5, CreditedDb
  <2> QED BY <2>1
<1>8. Filed(credited)
  BY <1>2, <1>3, <1>5, <1>6, CreditedFiled
<1> HIDE DEF credited
<1>9. al \in Alloc /\ MayPayAll(credited, al) /\ credited.owed \in Int
  BY <1>2, <1>7, AutoApplyWithin, SweepMayPay, DbFields
<1>10. credited.rct[c.q].status = "none"
  BY <1>3, <1>5, <1>7
<1> HIDE DEF al
<1>11. Filed(received)
  <2>1. ASSUME NEW held \in BOOLEAN
        PROVE  LET e == Received(credited, c.q, c.cash, al, held, credited.owed) IN Filed(e)
    BY <1>2, <1>7, <1>8, <1>9, <1>10, ReceivedFiled
  <2>2. FALSE \in BOOLEAN
    OBVIOUS
  <2> QED BY <2>1, <2>2
<1> QED BY <1>3, <1>8, <1>11

LEMMA ReceivedOpen ==
  ASSUME NEW d \in Db, NEW p \in Receipts, NEW amount, NEW al \in Alloc, NEW held, NEW owed,
         NEW i \in Invoices, d.inv[i].status \in OpenStatus
  PROVE  Received(d, p, amount, al, held, owed).inv[i].status \in OpenStatus
<1> DEFINE c == PaidAll(d, al)
<1>1. c.inv[i] \in {PaidBy(d.inv[i], al[i]), d.inv[i]}
  BY PaidAllRows
<1>2. Received(d, p, amount, al, held, owed).inv = c.inv
  <2>1. c \in Db
    BY PaidAllDb
  <2> HIDE DEF c
  <2> QED BY <2>1 DEF Received, Db, c
<1>3. PaidBy(d.inv[i], al[i]).status \in OpenStatus
  <2>1. d.inv[i] \in InvFields
    BY DbFields DEF InvRow
  <2> QED BY <2>1 DEF PaidBy, OpenStatus, InvFields
<1> HIDE DEF c
<1> QED BY <1>1, <1>2, <1>3

(* The sale is approved: it says what its invoice does.                     *)
LEMMA SaleSetFiled ==
  ASSUME NEW d \in Db, Filed(d), NEW i \in Invoices, d.inv[i].status \in OpenStatus
  PROVE  LET e == [d EXCEPT !.sale[i] = PaidStatusOf(d.inv[i])] IN Filed(e)
<1> DEFINE e == [d EXCEPT !.sale[i] = PaidStatusOf(d.inv[i])]
<1>1. /\ e.inv = d.inv /\ e.book = d.book /\ e.app = d.app /\ e.rct = d.rct /\ e.memo = d.memo
      /\ e.sale = [d.sale EXCEPT ![i] = PaidStatusOf(d.inv[i])]
  BY DEF Db
<1>2. d.sale \in [Invoices -> PaidStatus]
  BY DbFields
<1> HIDE DEF e
<1>3. ASSUME NEW j \in Invoices
      PROVE  /\ InvoiceFiled(e.inv[j], e.book[j], e.sale[j])
             /\ SaleFiled(e.inv[j], e.sale[j], Sum(ShareOf(e, j), Receipts))
  <2>1. ShareOf(e, j) = ShareOf(d, j)
    BY <1>1 DEF ShareOf
  <2>2. /\ InvoiceFiled(d.inv[j], d.book[j], d.sale[j])
        /\ SaleFiled(d.inv[j], d.sale[j], Sum(ShareOf(d, j), Receipts))
    BY DEF Filed
  <2>3. CASE j = i
    <3>1. e.sale[j] = PaidStatusOf(e.inv[j])
      BY <1>1, <1>2, <2>3
    <3>2. d.inv[j].status \notin {"none", "draft"}
      BY <2>3 DEF OpenStatus
    <3> QED BY <1>1, <2>1, <2>2, <3>1, <3>2 DEF InvoiceFiled, SaleFiled
  <2>4. CASE j # i
    BY <1>1, <1>2, <2>1, <2>2, <2>4
  <2> QED BY <2>3, <2>4
<1>4. /\ \A p \in Receipts : ReceiptFiled(e.rct[p], e.book[p], e.app[p])
      /\ \A m \in Memos : MemoFiled(e.memo[m], e.book[m])
  BY <1>1 DEF Filed
<1>5. Filed(e)
  BY <1>3, <1>4 DEF Filed
<1> QED BY <1>5 DEF e

LEMMA ApproveSaleFiled ==
  ASSUME NEW r, ServedApart(r), ReceiptsSound, ApproveSale(r)
  PROVE  Filed(db')
<1> DEFINE c == req[r]
           raised == Raised(db, c.i, c.t, c.owed)
           use(p) == SmallerOf(Unapplied(db, p), c.t)
           P == CHOOSE p \in c.A : TRUE
           applied == Applied(raised, P, Alone(c.i, use(P)), raised.owed)
           advanced == IF \A p \in c.A : use(p) = 0 THEN raised ELSE applied
           f == [p \in Receipts |-> IF p \in c.A THEN [advanced.rct[p] EXCEPT !.held = FALSE]
                                                 ELSE advanced.rct[p]]
           freed == [advanced EXCEPT !.rct = f]
           al == Alone(c.i, c.cash)
           received == Received(freed, c.q, c.cash, al, FALSE, freed.owed)
           collected == IF c.cash = 0 THEN freed ELSE received
           e == [collected EXCEPT !.sale[c.i] = PaidStatusOf(collected.inv[c.i])]
<1>1. /\ c \in SaleCall /\ db \in Db /\ Filed(db) /\ Books(db, Paid) /\ c.owed = db.owed
      /\ SpentWithin(db) /\ Amounts \subseteq Nat /\ Paid \in Int
  BY CallShapes, ServedFresh, ReceivablesAssumption, PaidInt
     DEF Typed, ServedApart, ReceiptsSound, ApproveSale, Serving, Idle, Fresh
<1>2. /\ c.i \in Invoices /\ c.t \in Nat /\ c.A \subseteq Receipts /\ c.q \in Receipts
      /\ c.cash \in Nat /\ c.owed \in Int
  <2>1. /\ c.i \in Invoices /\ c.t \in Amounts /\ c.A \subseteq Receipts /\ c.q \in Receipts
        /\ c.cash \in Amounts \cup {0} /\ c.owed \in Int
    BY <1>1 DEF SaleCall
  <2> HIDE DEF c
  <2>2. Amounts \cup {0} \subseteq Nat
    BY <1>1
  <2> QED BY <1>1, <2>1, <2>2
<1>3. /\ db' = e /\ db.inv[c.i].status = "none" /\ db.rct[c.q].status = "none"
      /\ c.cash <= freed.inv[c.i].balance /\ \A p \in c.A : db.rct[p].held
  BY DEF ApproveSale, Commit, Then
<1> HIDE DEF c
<1> DEFINE i == c.i
           t == c.t
<1>4. i \in Invoices /\ t \in Nat /\ db.inv[i].status = "none"
  BY <1>2, <1>3
<1>5. /\ raised \in Db /\ raised.rct = db.rct /\ Filed(raised)
      /\ raised.inv[i].status \in OpenStatus /\ raised.inv[i].balance = t
  <2>1. raised = Raised(db, i, t, db.owed) /\ db.owed \in Int
    BY <1>1, <1>2
  <2> HIDE DEF raised, i, t
  <2>2. LET x == Raised(db, i, t, db.owed)
        IN /\ x \in Db /\ Books(x, Paid) /\ x.rct = db.rct /\ x.app = db.app /\ x.memo = db.memo
           /\ x.inv[i].status \in OpenStatus /\ x.inv[i].balance = t
    BY <1>1, <1>4, RaisedBooks
  <2> DEFINE o == db.owed
  <2> HIDE DEF o
  <2>3. o \in Int
    BY <2>1 DEF o
  <2>4. LET x == Raised(db, i, t, o) IN Filed(x)
    BY <1>1, <1>4, <2>3, RaisedFiled
  <2> QED BY <2>1, <2>2, <2>4 DEF o
<1> HIDE DEF raised
<1>6. \A p \in c.A : /\ p \in Receipts /\ use(p) \in Nat /\ use(p) <= t
                     /\ db.rct[p].status = "kept"
  <2> TAKE p \in c.A
  <2>1. p \in Receipts /\ db.rct[p] \in RctRow
    BY <1>1, <1>2, DbFields
  <2>2. db.rct[p].status = "kept" /\ db.rct[p].amount \in Nat
    BY <1>3, <2>1 DEF RctRow, RctFields
  <2>3. Used(db, p) \in Nat /\ Used(db, p) <= db.rct[p].amount
    BY <1>1, <2>1, <2>2, UsedNat DEF SpentWithin
  <2> QED BY <1>2, <2>1, <2>2, <2>3 DEF SmallerOf, Unapplied
<1>7. /\ advanced \in Db /\ advanced.rct = db.rct /\ Filed(advanced)
      /\ advanced.inv[i].status \in OpenStatus
  <2>1. CASE \A p \in c.A : use(p) = 0
    BY <1>5, <2>1
  <2>2. CASE ~ \A p \in c.A : use(p) = 0
    <3>1. P \in c.A
      BY <2>2
    <3>2. P \in Receipts /\ use(P) \in Nat /\ use(P) <= t /\ db.rct[P].status = "kept"
      BY <1>6, <3>1
    <3> DEFINE a == use(P)
               alone == Alone(i, a)
    <3> HIDE DEF P, use, a
    <3>3. a \in Nat /\ a <= raised.inv[i].balance
      BY <1>5, <3>2 DEF a
    <3>4. alone \in Alloc /\ MayPayAll(raised, alone)
      BY <1>4, <1>5, <3>3, AllocatedAlone, AlonePays
    <3>5. applied = Applied(raised, P, alone, raised.owed)
      BY DEF a
    <3> HIDE DEF alone, i
    <3>6. raised.owed \in Int /\ raised.rct[P].status = "kept"
      BY <1>5, <3>2, DbFields
    <3>7. applied \in Db /\ applied.rct = raised.rct
      BY <1>5, <3>2, <3>4, <3>5, <3>6, AppliedParts
    <3>8. Filed(applied)
      BY <1>5, <3>2, <3>4, <3>5, <3>6, AppliedFiled
    <3>9. applied.inv[i].status \in OpenStatus
      BY <1>4, <1>5, <3>4, <3>5, AppliedOpen
    <3> HIDE DEF applied
    <3>10. advanced = applied
      BY <2>2 DEF use
    <3> HIDE DEF advanced
    <3> QED BY <1>5, <3>7, <3>8, <3>9, <3>10
  <2> QED BY <2>1, <2>2
<1> HIDE DEF advanced
<1>8. ASSUME NEW p \in Receipts
      PROVE  /\ f[p] \in RctRow /\ f[p].status = advanced.rct[p].status
             /\ f[p].amount = advanced.rct[p].amount
  <2> DEFINE row == advanced.rct[p]
             free == [row EXCEPT !.held = FALSE]
  <2>1. row \in RctRow
    BY <1>7, DbFields
  <2>2. f[p] \in {row, free}
    OBVIOUS
  <2> HIDE DEF row, f
  <2>3. free \in RctRow /\ free.status = row.status /\ free.amount = row.amount
    BY <2>1 DEF RctRow, RctFields
  <2> QED BY <2>1, <2>2, <2>3 DEF row
<1>9. f \in [Receipts -> RctRow]
  BY <1>8
<1> HIDE DEF f
<1>10. /\ freed \in Db /\ freed.rct = f /\ freed.app = advanced.app /\ freed.memo = advanced.memo
       /\ freed.inv = advanced.inv /\ freed.sale = advanced.sale /\ freed.book = advanced.book
  BY <1>7, <1>9 DEF Db
<1> HIDE DEF freed
<1>11. Filed(freed)
  BY <1>7, <1>8, <1>10, SameFiled
<1>12. freed.rct[c.q].status = "none" /\ freed.owed \in Int
  BY <1>2, <1>3, <1>7, <1>8, <1>10, DbFields
<1>13. al \in Alloc /\ MayPayAll(freed, al)
  <2>1. freed.inv[c.i].status \in OpenStatus
    BY <1>7, <1>10
  <2> QED BY <1>2, <1>3, <2>1, AllocatedAlone, AlonePays
<1> HIDE DEF al
<1>14. /\ Filed(received) /\ received \in Db /\ received.inv[i].status \in OpenStatus
  <2>1. ASSUME NEW held \in BOOLEAN
        PROVE  LET x == Received(freed, c.q, c.cash, al, held, freed.owed) IN Filed(x)
    BY <1>2, <1>10, <1>11, <1>12, <1>13, ReceivedFiled
  <2>2. FALSE \in BOOLEAN
    OBVIOUS
  <2>3. Filed(received)
    BY <2>1, <2>2
  <2>4. received \in Db
    BY <1>2, <1>10, <1>12, <1>13, ReceivedRows
  <2>5. received.inv[i].status \in OpenStatus
    BY <1>2, <1>4, <1>7, <1>10, <1>13, ReceivedOpen
  <2> QED BY <2>3, <2>4, <2>5
<1> HIDE DEF received
<1>15. Filed(collected) /\ collected \in Db /\ collected.inv[i].status \in OpenStatus
  BY <1>7, <1>10, <1>11, <1>14
<1> HIDE DEF collected
<1>16. Filed(e)
  <2>1. LET x == [collected EXCEPT !.sale[i] = PaidStatusOf(collected.inv[i])] IN Filed(x)
    <3> HIDE DEF i
    <3> QED BY <1>4, <1>15, SaleSetFiled
  <2> QED BY <2>1
<1> QED BY <1>3, <1>16

LEMMA StepFiled ==
  ASSUME Typed, Typed', ReceiptsSound, OneAtATime, Tied, AllFiled, [Next]_vars
  PROVE  AllFiled'
<1>1. SUFFICES ASSUME apart' PROVE Filed(db')
  BY DEF AllFiled
<1>2. ASSUME db' = db, apart
      PROVE  Filed(db')
  BY <1>2 DEF AllFiled
<1>3. ASSUME NEW r \in Requests, AskStep(r) \/ Drop(r)
      PROVE  Filed(db')
  <2>1. (apart' => apart) /\ db' = db
    <3>1. ASSUME NEW call, Ask(r, call)
          PROVE  (apart' => apart) /\ db' = db
      BY <3>1 DEF Ask
    <3>2. CASE AskStep(r)
      <4>1. \E call : Ask(r, call)
        BY <3>2 DEF AskStep, AskCreate, AskInvoice, AskReceive, AskApply, AskDeleteReceipt,
                    AskSettle, AskApproveSale, AskMemo, AskCredit, AskMemoEnd
      <4> QED BY <3>1, <4>1
    <3>3. CASE Drop(r)
      BY <3>3 DEF Drop
    <3> QED BY <1>3, <3>2, <3>3
  <2> QED BY <1>1, <1>2, <2>1
<1>4. ASSUME NEW r \in Requests, ServeStep(r)
      PROVE  Filed(db')
  <2>1. apart' = apart
    BY <1>4 DEF ServeStep, Create, Update, Send, Void, Delete, Receive, Apply, DeleteReceipt,
                Settle, ApproveSale, Memo, Absorb, Credit, Refund, VoidMemo, RemoveMemo,
                Commit, Then
  <2>2. ServedApart(r)
    BY <1>1, <2>1 DEF ServedApart, AllFiled
  <2>3. CASE Create(r) \/ Update(r) \/ Send(r) \/ Void(r) \/ Delete(r)
    BY <2>2, <2>3, CreateFiled, UpdateFiled, SendFiled, VoidFiled
  <2>4. CASE Receive(r) \/ Apply(r) \/ DeleteReceipt(r) \/ Settle(r) \/ ApproveSale(r)
    BY <2>2, <2>4, ReceiptFiledStep, DeleteReceiptFiled, SettleFiled, ApproveSaleFiled
  <2>5. CASE Memo(r) \/ Credit(r) \/ Refund(r) \/ VoidMemo(r) \/ RemoveMemo(r)
    BY <2>2, <2>5, MemoStepFiled
  <2>6. CASE Absorb(r)
    BY <1>1, <1>2, <2>1, <2>6 DEF Absorb
  <2> QED BY <1>4, <2>3, <2>4, <2>5, <2>6 DEF ServeStep
<1>5. CASE ReleaseAdvance
  BY <1>1, <1>5, ReleaseFiled DEF ReleaseAdvance, Typed, AllFiled
<1>6. CASE UNCHANGED vars
  BY <1>1, <1>2, <1>6 DEF vars
<1> QED BY <1>3, <1>4, <1>5, <1>6 DEF Next

LEMMA InitFiled ==
  ASSUME Init
  PROVE  AllFiled
<1>1. /\ \A i \in Invoices : db.inv[i] = NoInvoice /\ db.sale[i] = "none"
      /\ \A p \in Receipts : db.app[p] = NotApplied /\ db.rct[p] = NoReceipt
      /\ \A m \in Memos : db.memo[m] = NoMemo
      /\ \A x \in Documents : db.book[x].made = 0 /\ db.book[x].undone = 0
  BY DEF Init
<1>2. ASSUME NEW i \in Invoices
      PROVE  Sum(ShareOf(db, i), Receipts) = 0
  <2>1. \A p \in Receipts : ShareOf(db, i)[p] = 0
    BY <1>1 DEF ShareOf, Taken, NotApplied
  <2> QED BY <2>1, SumZero, ReceivablesAssumption
<1>3. \A i \in Invoices : /\ InvoiceFiled(db.inv[i], db.book[i], db.sale[i])
                          /\ SaleFiled(db.inv[i], db.sale[i], Sum(ShareOf(db, i), Receipts))
  BY <1>1, <1>2 DEF InvoiceFiled, SaleFiled, NoInvoice, OpenStatus, Documents
<1>4. \A p \in Receipts : ReceiptFiled(db.rct[p], db.book[p], db.app[p])
  BY <1>1 DEF ReceiptFiled, NoReceipt, Documents
<1>5. \A m \in Memos : MemoFiled(db.memo[m], db.book[m])
  BY <1>1 DEF MemoFiled, NoMemo, Documents
<1> QED BY <1>3, <1>4, <1>5 DEF AllFiled, Filed

-----------------------------------------------------------------------------
(* What the reports answer in such a state. *)

LEMMA SalesTrue ==
  ASSUME db \in Db, Filed(db), Books(db, Paid)
  PROVE  PaidStatusTrue
<1> SUFFICES ASSUME NEW i \in Collectable(db), PaidInMoney(db, i) = db.inv[i].paid
             PROVE  db.sale[i] \in {"none", PaidStatusOf(db.inv[i])}
  BY DEF PaidStatusTrue
<1>1. i \in Invoices /\ db.inv[i].status \in OpenStatus /\ db.inv[i].paid \in Int
  BY DbFields, InvRowFields DEF Collectable
<1>2. PaidInMoney(db, i) = Sum(ShareOf(db, i), Receipts)
  <2> DEFINE f == [p \in Receipts |-> db.app[p][i].at + db.app[p][i].later]
  <2>1. \A p \in Receipts : ShareOf(db, i)[p] \in Int /\ f[p] = ShareOf(db, i)[p]
    BY <1>1, FigureTypes DEF Taken
  <2>2. IsFiniteSet(Receipts) /\ IsFiniteSet(Kept(db)) /\ Kept(db) \in SUBSET Receipts
    BY ReceivablesAssumption, FS_Subset DEF Kept
  <2>3. \A p \in Receipts \ Kept(db) : ShareOf(db, i)[p] = 0
    BY <1>1 DEF Kept, Books, ShareOf, Taken, NotApplied
  <2>4. Sum(ShareOf(db, i), Receipts) = Sum(ShareOf(db, i), Kept(db))
    BY <2>1, <2>2, <2>3, SumWithin
  <2> HIDE DEF f
  <2>5. Sum(f, Kept(db)) = Sum(ShareOf(db, i), Kept(db))
    BY <2>1, <2>2, SumSame
  <2> QED BY <2>4, <2>5 DEF f, PaidInMoney
<1>3. SaleFiled(db.inv[i], db.sale[i], Sum(ShareOf(db, i), Receipts))
  BY <1>1 DEF Filed
<1> QED BY <1>1, <1>2, <1>3 DEF SaleFiled

(* The boundaries of a bucket, and that each figure falls into one.         *)
LEMMA SpecsUsable ==
  ASSUME NEW spec \in Specs
  PROVE  spec \in Seq(Int) /\ Usable(spec)
<1>1. PICK asked \in Boundaries \cup {<<>>}, saved \in Boundaries \cup {<<>>} :
        spec \in Resolved(asked, saved)
  BY DEF Specs
<1>2. <<>> \in Seq(Int)
  OBVIOUS
<1>3. asked \in Seq(Int) /\ saved \in Seq(Int) /\ Monthly \in Seq(Int)
  BY <1>1, <1>2, ReportsAssumption
<1> QED BY <1>1, <1>3 DEF Resolved

LEMMA Ascending ==
  ASSUME NEW spec \in Seq(Int), Usable(spec), NEW n \in 1..Len(spec), NEW m \in 1..Len(spec), n < m
  PROVE  spec[n] < spec[m]
<1> DEFINE C == {k \in Nat : k \in 1..Len(spec) /\ n < k /\ ~(spec[n] < spec[k])}
<1>1. SUFFICES ASSUME C # {} PROVE FALSE
  OBVIOUS
<1>2. PICK k \in C : \A j \in C : k <= j
  BY <1>1, Earliest
<1>3. k - 1 \in 1..Len(spec) /\ k - 1 \notin C /\ k \in 1..Len(spec) /\ n < k
  BY <1>2
<1>4. spec[k - 1] < spec[k]
  <2>1. k \in DOMAIN spec \ {1}
    BY <1>3
  <2> QED BY <2>1 DEF Usable
<1>5. n = k - 1 \/ spec[n] < spec[k - 1]
  BY <1>3
<1>6. spec[n] \in Int /\ spec[k] \in Int /\ spec[k - 1] \in Int
  BY <1>3
<1> QED BY <1>2, <1>4, <1>5, <1>6

(* Which figures a bucket holds.                                            *)
Fits(late, spec, n) ==
  /\ late >= IF n = 1 THEN 1 ELSE spec[n - 1] + 1
  /\ n <= Len(spec) => late <= spec[n]

LEMMA WithinIs ==
  ASSUME NEW spec \in Seq(Int), NEW late \in Int, NEW n \in 1..Len(spec) + 1
  PROVE  Within(late, Buckets(spec)[n]) <=> Fits(late, spec, n)
<1>1. n \in 0..Len(spec) + 1 /\ n # 0 /\ n \in Nat
  OBVIOUS
<1>2. Buckets(spec)[n] = [from |-> IF n = 1 THEN 1 ELSE spec[n - 1] + 1,
                          to |-> IF n <= Len(spec) THEN {spec[n]} ELSE {}]
  BY <1>1 DEF Buckets
<1> QED BY <1>2 DEF Within, Fits

LEMMA FitsOne ==
  ASSUME NEW spec \in Seq(Int), Usable(spec), NEW late \in Int, late > 0
  PROVE  /\ \E n \in 1..Len(spec) + 1 : Fits(late, spec, n)
         /\ \A n, m \in 1..Len(spec) + 1 : Fits(late, spec, n) /\ Fits(late, spec, m) => n = m
<1>1. Len(spec) \in Nat /\ \A n \in 1..Len(spec) : spec[n] \in Int
  OBVIOUS
<1>2. \E n \in 1..Len(spec) + 1 : Fits(late, spec, n)
  <2> DEFINE C == {n \in Nat : n \in 1..Len(spec) + 1 /\ (n <= Len(spec) => late <= spec[n])}
  <2>1. Len(spec) + 1 \in C
    BY <1>1
  <2>2. PICK n \in C : \A j \in C : n <= j
    BY <2>1, Earliest
  <2>3. n # 1 => late >= spec[n - 1] + 1
    <3> SUFFICES ASSUME n # 1 PROVE late >= spec[n - 1] + 1
      OBVIOUS
    <3>1. n - 1 \notin C /\ n - 1 \in 1..Len(spec)
      BY <1>1, <2>2
    <3>2. ~(late <= spec[n - 1]) /\ spec[n - 1] \in Int
      BY <1>1, <3>1
    <3> QED BY <3>2
  <2> QED BY <2>2, <2>3 DEF Fits
<1>3. ASSUME NEW n \in 1..Len(spec) + 1, NEW m \in 1..Len(spec) + 1, n < m,
             Fits(late, spec, n), Fits(late, spec, m)
      PROVE  FALSE
  <2>1. n \in 1..Len(spec) /\ m - 1 \in 1..Len(spec) /\ m # 1 /\ n <= m - 1
    BY <1>1, <1>3
  <2>2. late <= spec[n] /\ late >= spec[m - 1] + 1
    BY <1>3, <2>1 DEF Fits
  <2>3. n = m - 1 \/ spec[n] < spec[m - 1]
    BY <2>1, Ascending
  <2> QED BY <1>1, <2>1, <2>2, <2>3
<1>4. ASSUME NEW n \in 1..Len(spec) + 1, NEW m \in 1..Len(spec) + 1,
             Fits(late, spec, n), Fits(late, spec, m)
      PROVE  n = m
  <2>1. n < m \/ m < n \/ n = m
    BY <1>1
  <2> QED BY <1>3, <1>4, <2>1
<1> QED BY <1>2, <1>4

LEMMA BucketIs ==
  ASSUME NEW spec \in Seq(Int), Usable(spec), NEW late \in Int
  PROVE  /\ BucketOf(late, spec) \in 0..Len(spec) + 1
         /\ BucketOf(late, spec) = 0 <=> late <= 0
         /\ \A n \in 1..Len(spec) + 1 :
              BucketOf(late, spec) = n <=> Within(late, Buckets(spec)[n])
<1> DEFINE fit == {n \in 1..Len(spec) + 1 : Within(late, Buckets(spec)[n])}
<1>1. fit = {n \in 1..Len(spec) + 1 : Fits(late, spec, n)}
  BY WithinIs
<1>2. Len(spec) \in Nat /\ \A n \in 1..Len(spec) : spec[n] \in Int
  OBVIOUS
<1>3. CASE late > 0
  <2>1. PICK n \in 1..Len(spec) + 1 : Fits(late, spec, n)
    BY <1>3, FitsOne
  <2>2. \A m \in fit : m = n
    BY <1>1, <1>3, <2>1, FitsOne
  <2>3. fit = {n}
    BY <1>1, <2>1, <2>2
  <2>4. BucketOf(late, spec) = CHOOSE k \in fit : \A o \in fit : k <= o
    <3>1. ~(late <= 0)
      BY <1>3
    <3> QED BY <3>1 DEF BucketOf
  <2>5. (CHOOSE k \in fit : \A o \in fit : k <= o) = n
    BY <1>2, <2>3
  <2>6. \A k \in 1..Len(spec) + 1 : k \in fit <=> k = n
    BY <2>3
  <2> HIDE DEF fit
  <2>7. BucketOf(late, spec) = n /\ n \in 0..Len(spec) + 1 /\ n # 0
    BY <1>2, <2>4, <2>5
  <2> QED BY <1>3, <2>6, <2>7 DEF fit
<1>4. CASE ~(late > 0)
  <2>1. BucketOf(late, spec) = 0 /\ late <= 0
    BY <1>4 DEF BucketOf
  <2>2. ASSUME NEW n \in 1..Len(spec) + 1
        PROVE  ~Within(late, Buckets(spec)[n])
    <3>1. n # 1 => n - 1 \in 1..Len(spec)
      BY <1>2
    <3>2. n # 1 => spec[n - 1] >= 1
      BY <3>1 DEF Usable
    <3>3. ~Fits(late, spec, n)
      BY <1>2, <2>1, <3>1, <3>2 DEF Fits
    <3> QED BY <3>3, WithinIs
  <2> QED BY <1>2, <2>1, <2>2
<1> QED BY <1>3, <1>4

LEMMA OpenFigures ==
  ASSUME NEW d \in Db
  PROVE  /\ IsFiniteSet(OpenDocuments(d)) /\ OpenDocuments(d) \subseteq Collectable(d)
         /\ OpenDocuments(d) \subseteq Invoices /\ IsFiniteSet(Collectable(d))
         /\ \A i \in Invoices : Owing(d)[i] \in Int
         /\ \A S : Balances(d, S) = Sum(Owing(d), S)
<1>1. OpenDocuments(d) \subseteq Collectable(d) /\ Collectable(d) \subseteq Invoices
  BY DEF OpenDocuments, Collectable, OpenStatus
<1>2. IsFiniteSet(OpenDocuments(d)) /\ IsFiniteSet(Collectable(d))
  BY <1>1, ReceivablesAssumption, FS_Subset
<1>3. \A i \in Invoices : Owing(d)[i] \in Int
  BY DbFields, InvRowFields DEF Owing
<1> QED BY <1>1, <1>2, <1>3 DEF Balances, Owing

(* Every open document is in the one bucket that is as late as it is.       *)
LEMMA AgingAddsUp ==
  ASSUME NEW d \in Db, NEW late \in [OpenDocuments(d) -> Lateness], NEW spec \in Specs
  PROVE  LET aging == Aging(d, late, spec) IN
         /\ \A n \in DOMAIN aging :
              LET asLate == {i \in OpenDocuments(d) :
                               IF n = 0 THEN late[i] <= 0 ELSE Within(late[i], Buckets(spec)[n])}
              IN  Listed(d, late, spec, n) = asLate /\ aging[n] = Balances(d, asLate)
         /\ Sum(aging, DOMAIN aging) = Balances(d, OpenDocuments(d))
         /\ Sum(aging, DOMAIN aging \ {0}) = OverdueOf(d, late)
<1> DEFINE aging == Aging(d, late, spec)
           docs == OpenDocuments(d)
           owing == Owing(d)
           G == 0..Len(spec) + 1
           group == [i \in docs |-> BucketOf(late[i], spec)]
           In(n) == {i \in docs : group[i] = n}
<1>1. spec \in Seq(Int) /\ Usable(spec) /\ Len(spec) \in Nat
  BY SpecsUsable
<1>2. /\ IsFiniteSet(docs) /\ docs \subseteq Invoices /\ \A i \in docs : owing[i] \in Int
      /\ \A S : Balances(d, S) = Sum(owing, S)
  BY OpenFigures
<1>3. \A i \in docs : late[i] \in Int
  BY ReportsAssumption
<1>4. \A i \in docs : /\ group[i] \in G /\ (group[i] = 0 <=> late[i] <= 0)
                      /\ \A n \in 1..Len(spec) + 1 :
                           group[i] = n <=> Within(late[i], Buckets(spec)[n])
  BY <1>1, <1>3, BucketIs
<1>5. /\ DOMAIN aging = G /\ \A n \in G : aging[n] = Balances(d, In(n))
      /\ \A n : Listed(d, late, spec, n) = In(n)
  BY DEF Aging, Listed
<1> HIDE DEF aging, group
<1>6. ASSUME NEW n \in G
      PROVE  In(n) = {i \in docs : IF n = 0 THEN late[i] <= 0
                                            ELSE Within(late[i], Buckets(spec)[n])}
  <2>1. n = 0 \/ n \in 1..Len(spec) + 1
    BY <1>1
  <2> QED BY <1>4, <2>1
<1>7. IsFiniteSet(G)
  BY <1>1, FS_Interval
<1> HIDE DEF docs, owing
<1>8. /\ \A n \in G : aging[n] = Sum(owing, In(n)) /\ IsFiniteSet(In(n)) /\ aging[n] \in Int
      /\ 0 \in G
  <2>1. ASSUME NEW n \in G
        PROVE  aging[n] = Sum(owing, In(n)) /\ IsFiniteSet(In(n)) /\ aging[n] \in Int
    <3>1. IsFiniteSet(In(n)) /\ aging[n] = Sum(owing, In(n))
      BY <1>2, <1>5, FS_Subset
    <3> QED BY <1>2, <3>1, SumInt
  <2>2. 0 \in G
    BY <1>1
  <2> QED BY <2>1, <2>2
<1>9. Sum(aging, G) = Sum(owing, docs)
  <2> DEFINE parts == [n \in G |-> Sum(owing, In(n))]
  <2>1. Sum(owing, docs) = Sum(parts, G)
    <3>1. /\ IsFiniteSet(docs) /\ IsFiniteSet(G)
          /\ \A i \in docs : owing[i] \in Int
          /\ \A i \in docs : group[i] \in G
      BY <1>2, <1>4, <1>7
    <3> HIDE DEF G
    <3>2. Sum(owing, docs) = Sum([n \in G |-> Sum(owing, {i \in docs : group[i] = n})], G)
      BY ONLY <3>1, SumByGroup, SMTT(30)
    <3> QED BY <3>2
  <2>2. \A n \in G : aging[n] = parts[n]
    BY <1>8
  <2> HIDE DEF parts, G
  <2>3. Sum(aging, G) = Sum(parts, G)
    BY <1>7, <2>2, SumSame
  <2> QED BY <2>1, <2>3
<1>10. Sum(aging, G \ {0}) = Sum(owing, {i \in docs : late[i] > 0})
  <2> DEFINE due == {i \in docs : late[i] > 0}
  <2>1. In(0) \cup due = docs /\ In(0) \cap due = {}
    BY <1>3, <1>4
  <2>2. IsFiniteSet(In(0)) /\ IsFiniteSet(due)
    BY <1>2, FS_Subset
  <2>3. \A i \in In(0) \cup due : owing[i] \in Int
    BY <1>2
  <2> HIDE DEF due, In, G
  <2>4. Sum(owing, docs) = Sum(owing, In(0)) + Sum(owing, due)
    BY <2>1, <2>2, <2>3, SumDisjoint
  <2>5. Sum(aging, G) = aging[0] + Sum(aging, G \ {0})
    BY <1>7, <1>8, SumTakeOut
  <2>6. Sum(owing, due) \in Int /\ Sum(aging, G \ {0}) \in Int /\ aging[0] \in Int
    <3>1. IsFiniteSet(G \ {0}) /\ \A n \in G \ {0} : aging[n] \in Int
      BY <1>7, <1>8, FS_Subset
    <3> QED BY <1>8, <2>2, <2>3, <3>1, SumInt
  <2>7. Sum(aging, G \ {0}) = Sum(owing, due)
    BY <1>8, <1>9, <2>4, <2>5, <2>6
  <2> QED BY <2>7 DEF due
<1>11. OverdueOf(d, late) = Sum(owing, {i \in docs : late[i] > 0})
  BY <1>2 DEF OverdueOf, docs
<1>12. \A n \in DOMAIN aging :
         LET asLate == {i \in OpenDocuments(d) :
                          IF n = 0 THEN late[i] <= 0 ELSE Within(late[i], Buckets(spec)[n])}
         IN  Listed(d, late, spec, n) = asLate /\ aging[n] = Balances(d, asLate)
  BY <1>5, <1>6 DEF docs
<1>13. /\ Sum(aging, DOMAIN aging) = Balances(d, OpenDocuments(d))
       /\ Sum(aging, DOMAIN aging \ {0}) = OverdueOf(d, late)
  BY <1>2, <1>5, <1>9, <1>10, <1>11 DEF docs
<1> QED BY <1>12, <1>13 DEF aging

(* What the open documents leave unpaid is all that any invoice does; what  *)
(* the receipts have left is free or held.                                  *)
LEMMA NetDueTies ==
  ASSUME NEW d \in Db, NEW s \in Int, Filed(d), Books(d, s), Advanced(d)
  PROVE  NetDue(d) = d.ar - d.advances
           + Sum([p \in Receipts |-> Unapplied(d, p)], {p \in Kept(d) : d.rct[p].held})
<1> DEFINE left == [p \in Receipts |-> Unapplied(d, p)]
           held == {p \in Kept(d) : d.rct[p].held}
           free == {p \in Kept(d) : ~d.rct[p].held}
           owing == Owing(d)
           holds == Sum([m \in Memos |-> d.memo[m].balance], LiveMemos(d))
<1>1. d.ar = Sum([i \in Invoices |-> d.inv[i].balance], Collectable(d)) - holds
  BY BooksTie
<1>2. Sum(left, Kept(d)) = d.advances
  BY UnappliedIsAdvances DEF Books
<1>3. Sum(left, Kept(d)) = Sum(left, free) + Sum(left, held)
      /\ Sum(left, free) \in Int /\ Sum(left, held) \in Int
  <2>1. /\ free \cup held = Kept(d) /\ free \cap held = {} /\ IsFiniteSet(free)
        /\ IsFiniteSet(held)
    BY ReceivablesAssumption, FS_Subset DEF Kept
  <2>2. \A p \in free \cup held : left[p] \in Int
    <3>1. \A p \in Receipts : Used(d, p) \in Int /\ d.rct[p].amount \in Int
      BY UsedNat, DbFields DEF RctRow, RctFields
    <3> QED BY <3>1 DEF Unapplied, Kept
  <2> HIDE DEF left, free, held
  <2>3. Sum(left, free \cup held) = Sum(left, free) + Sum(left, held)
    BY <2>1, <2>2, SumDisjoint
  <2>4. Sum(left, free) \in Int /\ Sum(left, held) \in Int
    BY <2>1, <2>2, SumInt
  <2> QED BY <2>1, <2>3, <2>4
<1>4. holds \in Int
  <2>1. IsFiniteSet(LiveMemos(d))
    BY ReceivablesAssumption, FS_Subset DEF LiveMemos
  <2>2. \A m \in LiveMemos(d) : [j \in Memos |-> d.memo[j].balance][m] \in Int
    BY DbFields DEF LiveMemos, MemoRow, MemoFields
  <2> QED BY <2>1, <2>2, SumInt
<1>5. /\ Sum(owing, Collectable(d)) = Sum(owing, OpenDocuments(d))
      /\ Sum(owing, OpenDocuments(d)) \in Int
      /\ Balances(d, OpenDocuments(d)) = Sum(owing, OpenDocuments(d))
  <2>1. /\ OpenDocuments(d) \in SUBSET Collectable(d) /\ IsFiniteSet(Collectable(d))
        /\ IsFiniteSet(OpenDocuments(d)) /\ \A i \in Collectable(d) : owing[i] \in Int
        /\ Balances(d, OpenDocuments(d)) = Sum(owing, OpenDocuments(d))
    BY OpenFigures DEF Collectable
  <2>2. ASSUME NEW i \in Collectable(d) \ OpenDocuments(d)
        PROVE  owing[i] = 0
    <3>1. /\ i \in Invoices /\ d.inv[i].status \in OpenStatus /\ d.inv[i] \in InvRow
          /\ InvoiceFiled(d.inv[i], d.book[i], d.sale[i]) /\ owing[i] = d.inv[i].balance
      BY DbFields DEF Collectable, Filed, Owing
    <3>2. d.inv[i].total \in Nat /\ d.inv[i].paid \in Nat
          /\ d.inv[i].balance = d.inv[i].total - d.inv[i].paid
      BY <3>1, InvRowFields
    <3>3. d.inv[i].status = "paid" \/ ~(d.inv[i].balance > 0)
      BY <3>1 DEF OpenDocuments, OpenStatus
    <3> QED BY <3>1, <3>2, <3>3 DEF InvoiceFiled
  <2> HIDE DEF owing
  <2>3. Sum(owing, OpenDocuments(d)) \in Int
    BY <2>1, SumInt
  <2> QED BY <2>1, <2>2, <2>3, SumWithin
<1>6. NetDue(d) = Sum(owing, OpenDocuments(d)) - (Sum(left, free) + holds)
  BY <1>5 DEF NetDue, CreditsOf
<1>7. d.ar = Sum(owing, Collectable(d)) - holds /\ d.ar \in Int /\ d.advances \in Int
  BY <1>1, DbFields DEF Owing
<1> HIDE DEF left, free, held, owing, holds
<1>8. NetDue(d) = d.ar - d.advances + Sum(left, held)
  BY <1>2, <1>3, <1>4, <1>5, <1>6, <1>7
<1> QED BY <1>8 DEF left, held

-----------------------------------------------------------------------------
(* Entries with whole amounts, finitely many, can be taken apart.           *)
IsLog(E) == IsFiniteSet(E) /\ \A e \in E : e.amount \in Int

LEMMA WorthSplit ==
  ASSUME NEW E, IsLog(E), NEW T, NEW U, E = T \cup U, T \cap U = {}
  PROVE  /\ Worth(E) = Worth(T) + Worth(U) /\ Worth(T) \in Int /\ Worth(U) \in Int
         /\ IsLog(T) /\ IsLog(U)
<1> DEFINE a == [e \in E |-> e.amount]
<1>1. IsFiniteSet(T) /\ IsFiniteSet(U)
  BY FS_Subset DEF IsLog
<1>2. \A e \in T \cup U : a[e] \in Int
  BY DEF IsLog
<1>3. \A S : IsFiniteSet(S) /\ S \subseteq E => Worth(S) = Sum(a, S)
  <2> SUFFICES ASSUME NEW S, IsFiniteSet(S), S \subseteq E
               PROVE  Worth(S) = Sum(a, S)
    OBVIOUS
  <2> DEFINE b == [e \in S |-> e.amount]
  <2>1. \A e \in S : b[e] = a[e]
    OBVIOUS
  <2>2. Worth(S) = Sum(b, S)
    BY DEF Worth
  <2> HIDE DEF a, b
  <2> QED BY <2>1, <2>2, SumSame
<1>4. IsLog(T) /\ IsLog(U)
  BY <1>1 DEF IsLog
<1> HIDE DEF a
<1>5. Sum(a, E) = Sum(a, T) + Sum(a, U)
  BY <1>1, <1>2, SumDisjoint
<1>6. Sum(a, T) \in Int /\ Sum(a, U) \in Int
  BY <1>1, <1>2, SumInt
<1>7. Worth(E) = Sum(a, E) /\ Worth(T) = Sum(a, T) /\ Worth(U) = Sum(a, U)
  BY <1>1, <1>3 DEF IsLog
<1> QED BY <1>4, <1>5, <1>6, <1>7

(* What is recorded of each member of a set, where it is not zero.          *)
Recorded(S, f, k) == {[of |-> x, kind |-> k, amount |-> f[x]] : x \in {x \in S : f[x] # 0}}

LEMMA WorthRecorded ==
  ASSUME NEW S, IsFiniteSet(S), NEW f, \A x \in S : f[x] \in Int, NEW k
  PROVE  /\ IsLog(Recorded(S, f, k)) /\ Worth(Recorded(S, f, k)) = Sum(f, S)
         /\ \A e \in Recorded(S, f, k) : e.kind = k /\ e.of \in S /\ f[e.of] # 0
<1> DEFINE E == Recorded(S, f, k)
           T == {x \in S : f[x] # 0}
           F == [x \in T |-> [of |-> x, kind |-> k, amount |-> f[x]]]
           a == [e \in E |-> e.amount]
<1>1. T \in SUBSET S /\ IsFiniteSet(T) /\ \A x \in S \ T : f[x] = 0
  BY FS_Subset
<1>2. E = {F[x] : x \in T}
  BY DEF Recorded
<1>3. \A x, y \in T : F[x] = F[y] => x = y
  <2> TAKE x, y \in T
  <2>1. F[x].of = x /\ F[y].of = y
    OBVIOUS
  <2> QED BY <2>1
<1>4. \A x \in T : f[x] \in Int /\ a[F[x]] = f[x]
  <2> TAKE x \in T
  <2>1. F[x] \in E /\ F[x].amount = f[x]
    BY DEF Recorded
  <2> QED BY <2>1
<1>5. \A e \in E : e.kind = k /\ e.of \in S /\ f[e.of] # 0 /\ e.amount \in Int
  BY DEF Recorded
<1>6. Worth(E) = Sum(a, E)
  BY DEF Worth
<1> HIDE DEF T, F, a, E
<1>7. IsFiniteSet(E)
  BY <1>1, <1>2, ImageFinite
<1>8. Sum(a, E) = Sum(f, T)
  BY <1>1, <1>2, <1>3, <1>4, SumRenamed
<1>9. Sum(f, S) = Sum(f, T)
  BY <1>1, SumWithin
<1> QED BY <1>5, <1>6, <1>7, <1>8, <1>9 DEF IsLog, E

(* The entries of documents and refunds, each of its own kind.              *)
MadeOf(d) == [x \in Documents |-> d.book[x].made]
UndoneOf(d) == [x \in Documents |-> d.book[x].undone]
NetOf(d) == [x \in Documents |-> d.book[x].made + d.book[x].undone]
Backs(d) == \A m \in Memos : d.memo[m].status \in {"none", "void", "gone"} => d.refund[m] = 0

LEMMA BookFigures ==
  ASSUME NEW d \in Db
  PROVE  /\ IsFiniteSet(Documents)
         /\ \A x \in Documents : /\ MadeOf(d)[x] \in Int /\ UndoneOf(d)[x] \in Int
                                 /\ NetOf(d)[x] \in Int
                                 /\ NetOf(d)[x] = MadeOf(d)[x] + UndoneOf(d)[x]
         /\ \A m \in Memos : d.refund[m] \in Int
<1>1. IsFiniteSet(Documents)
  <2>1. IsFiniteSet(Invoices \cup Receipts)
    BY ReceivablesAssumption, FS_Union
  <2> QED BY <2>1, ReceivablesAssumption, FS_Union DEF Documents
<1>2. \A x \in Documents : d.book[x].made \in Int /\ d.book[x].undone \in Int
  BY DbFields DEF BookRow
<1> QED BY <1>1, <1>2, DbFields DEF MadeOf, UndoneOf, NetOf

LEMMA EntriesAre ==
  ASSUME NEW d \in Db
  PROVE  LET E == Entries(d) IN
         /\ IsLog(E)
         /\ \A e \in E : \/ e.kind = "made" /\ e.of \in Documents
                         \/ e.kind = "undone" /\ e.of \in Documents /\ d.book[e.of].undone # 0
                         \/ e.kind = "refund" /\ e.of \in Memos
         /\ Worth(E) = Sum(NetOf(d), Documents) + Sum(d.refund, Memos)
<1> DEFINE A == Recorded(Documents, MadeOf(d), "made")
           B == Recorded(Documents, UndoneOf(d), "undone")
           C == Recorded(Memos, d.refund, "refund")
           E == Entries(d)
<1>1. /\ IsFiniteSet(Documents) /\ IsFiniteSet(Memos)
      /\ \A x \in Documents : MadeOf(d)[x] \in Int /\ UndoneOf(d)[x] \in Int
      /\ \A x \in Documents : NetOf(d)[x] = MadeOf(d)[x] + UndoneOf(d)[x]
      /\ \A m \in Memos : d.refund[m] \in Int
  BY BookFigures, ReceivablesAssumption
<1>2. A = {[of |-> x, kind |-> "made", amount |-> d.book[x].made] :
              x \in {x \in Documents : d.book[x].made # 0}}
  BY DEF Recorded, MadeOf
<1>3. B = {[of |-> x, kind |-> "undone", amount |-> d.book[x].undone] :
              x \in {x \in Documents : d.book[x].undone # 0}}
  BY DEF Recorded, UndoneOf
<1>4. E = (A \cup B) \cup C
  <2>1. C = {[of |-> m, kind |-> "refund", amount |-> d.refund[m]] :
              m \in {m \in Memos : d.refund[m] # 0}}
    BY DEF Recorded
  <2> HIDE DEF A, B, C
  <2> QED BY <1>2, <1>3, <2>1 DEF Entries
<1>5. /\ IsLog(A) /\ Worth(A) = Sum(MadeOf(d), Documents)
      /\ \A e \in A : e.kind = "made" /\ e.of \in Documents
  BY <1>1, WorthRecorded
<1>6. /\ IsLog(B) /\ Worth(B) = Sum(UndoneOf(d), Documents)
      /\ \A e \in B : e.kind = "undone" /\ e.of \in Documents /\ UndoneOf(d)[e.of] # 0
  BY <1>1, WorthRecorded
<1>7. /\ IsLog(C) /\ Worth(C) = Sum(d.refund, Memos)
      /\ \A e \in C : e.kind = "refund" /\ e.of \in Memos
  BY <1>1, WorthRecorded
<1> HIDE DEF A, B, C, E
<1>8. /\ IsLog(A \cup B) /\ IsLog(E)
      /\ A \cap B = {} /\ (A \cup B) \cap C = {}
  <2>1. IsFiniteSet(A \cup B)
    BY <1>5, <1>6, FS_Union DEF IsLog
  <2>2. IsFiniteSet(E)
    BY <1>4, <1>7, <2>1, FS_Union DEF IsLog
  <2>3. A \cap B = {} /\ (A \cup B) \cap C = {}
    BY <1>5, <1>6, <1>7
  <2> QED BY <1>4, <1>5, <1>6, <1>7, <2>1, <2>2, <2>3 DEF IsLog
<1>9. Worth(E) = Worth(A \cup B) + Worth(C) /\ Worth(A \cup B) = Worth(A) + Worth(B)
  <2>1. Worth(E) = Worth(A \cup B) + Worth(C)
    BY <1>4, <1>8, WorthSplit
  <2>2. Worth(A \cup B) = Worth(A) + Worth(B)
    <3> DEFINE both == A \cup B
    <3>1. both = A \cup B /\ IsLog(both) /\ A \cap B = {}
      BY <1>8
    <3> HIDE DEF both
    <3>2. Worth(both) = Worth(A) + Worth(B)
      BY <3>1, WorthSplit
    <3> QED BY <3>1, <3>2
  <2> QED BY <2>1, <2>2
<1>10. Sum(NetOf(d), Documents) = Sum(MadeOf(d), Documents) + Sum(UndoneOf(d), Documents)
  BY <1>1, SumPlus
<1>11. \A x \in Documents : UndoneOf(d)[x] = d.book[x].undone
  BY DEF UndoneOf
<1> QED BY <1>4, <1>5, <1>6, <1>7, <1>8, <1>9, <1>10, <1>11 DEF E

(* A sum taken the other way round.                                         *)
LEMMA SumNegated ==
  ASSUME NEW S, IsFiniteSet(S), NEW f, NEW g, \A x \in S : f[x] \in Int /\ g[x] = -f[x]
  PROVE  Sum(g, S) = -Sum(f, S)
<1> DEFINE z == [x \in S |-> 0]
<1>1. \A x \in S : f[x] \in Int /\ g[x] \in Int /\ z[x] = f[x] + g[x]
  OBVIOUS
<1>2. \A x \in S : z[x] = 0
  OBVIOUS
<1> HIDE DEF z
<1>3. Sum(z, S) = Sum(f, S) + Sum(g, S) /\ Sum(z, S) = 0
  BY <1>1, <1>2, SumPlus, SumZero
<1>4. Sum(f, S) \in Int /\ Sum(g, S) \in Int
  BY <1>1, SumInt
<1> QED BY <1>3, <1>4

(* Entries of documents that no longer count cancel out; the others stand   *)
(* for the whole document.                                                  *)
LEMMA EntriesClose ==
  ASSUME NEW d \in Db, Filed(d), Backs(d)
  PROVE  Worth(Entries(d)) = StatementClosing(d)
<1> DEFINE net == NetOf(d)
           total == [i \in Invoices |-> d.inv[i].total]
           amount == [p \in Receipts |-> d.rct[p].amount]
           credit == [m \in Memos |-> d.memo[m].total]
           back == d.refund
<1>1. Worth(Entries(d)) = Sum(net, Documents) + Sum(back, Memos)
  BY EntriesAre
<1>2. /\ IsFiniteSet(Invoices) /\ IsFiniteSet(Receipts) /\ IsFiniteSet(Memos)
      /\ IsFiniteSet(Invoices \cup Receipts)
      /\ Invoices \cap Receipts = {} /\ (Invoices \cup Receipts) \cap Memos = {}
      /\ Documents = (Invoices \cup Receipts) \cup Memos
  BY ReceivablesAssumption, FS_Union DEF Documents
<1>3. \A x \in Documents : net[x] \in Int /\ net[x] = d.book[x].made + d.book[x].undone
  BY BookFigures DEF NetOf
<1>4. \A m \in Memos : back[m] \in Int
  BY BookFigures
<1>5. /\ Collectable(d) \in SUBSET Invoices /\ Kept(d) \in SUBSET Receipts
      /\ LiveMemos(d) \in SUBSET Memos
      /\ IsFiniteSet(Collectable(d)) /\ IsFiniteSet(Kept(d)) /\ IsFiniteSet(LiveMemos(d))
  BY <1>2, FS_Subset DEF Collectable, Kept, LiveMemos
<1>6. ASSUME NEW i \in Invoices
      PROVE  /\ i \in Collectable(d) => net[i] = total[i]
             /\ i \notin Collectable(d) => net[i] = 0
  <2>1. d.inv[i].status \in InvoiceStatus /\ d.inv[i].total \in Nat
    BY DbFields, InvRowFields
  <2>2. InvoiceFiled(d.inv[i], d.book[i], d.sale[i]) /\ i \in Documents
    BY DEF Filed, Documents
  <2>3. i \in Collectable(d) <=> d.inv[i].status \in OpenStatus
    BY DEF Collectable
  <2> QED BY <1>3, <2>1, <2>2, <2>3 DEF InvoiceFiled, InvoiceStatus, OpenStatus
<1>7. ASSUME NEW p \in Receipts
      PROVE  /\ p \in Kept(d) => net[p] = -amount[p]
             /\ p \notin Kept(d) => net[p] = 0
             /\ amount[p] \in Int
  <2>1. d.rct[p].status \in {"none", "kept", "gone"} /\ d.rct[p].amount \in Int
    BY DbFields DEF RctRow, RctFields
  <2>2. ReceiptFiled(d.rct[p], d.book[p], d.app[p]) /\ p \in Documents
    BY DEF Filed, Documents
  <2>3. p \in Kept(d) <=> d.rct[p].status = "kept"
    BY DEF Kept
  <2> QED BY <1>3, <2>1, <2>2, <2>3 DEF ReceiptFiled
<1>8. ASSUME NEW m \in Memos
      PROVE  /\ m \in LiveMemos(d) => net[m] = -credit[m]
             /\ m \notin LiveMemos(d) => net[m] = 0 /\ back[m] = 0
             /\ credit[m] \in Int
  <2>1. d.memo[m].total \in Int
    BY DbFields DEF MemoRow, MemoFields
  <2>2. MemoFiled(d.memo[m], d.book[m]) /\ m \in Documents
    BY DEF Filed, Documents
  <2>3. m \in LiveMemos(d) <=> d.memo[m].status \notin {"none", "void", "gone"}
    BY DEF LiveMemos
  <2> QED BY <1>3, <2>1, <2>2, <2>3 DEF MemoFiled, Backs
<1>9. /\ \A i \in Collectable(d) : net[i] = total[i]
      /\ \A i \in Invoices \ Collectable(d) : net[i] = 0
      /\ \A p \in Kept(d) : amount[p] \in Int /\ net[p] = -amount[p]
      /\ \A p \in Receipts \ Kept(d) : net[p] = 0
      /\ \A m \in LiveMemos(d) : credit[m] \in Int /\ net[m] = -credit[m]
      /\ \A m \in Memos \ LiveMemos(d) : net[m] = 0 /\ back[m] = 0
  BY <1>5, <1>6, <1>7, <1>8
<1> HIDE DEF net, total, amount, credit, back
<1>10. Sum(net, Documents) = Sum(net, Invoices) + Sum(net, Receipts) + Sum(net, Memos)
  <2>1. Sum(net, Documents) = Sum(net, Invoices \cup Receipts) + Sum(net, Memos)
    BY <1>2, <1>3, SumDisjoint
  <2>2. Sum(net, Invoices \cup Receipts) = Sum(net, Invoices) + Sum(net, Receipts)
    BY <1>2, <1>3, SumDisjoint
  <2> QED BY <2>1, <2>2
<1>11. Sum(net, Invoices) = Sum(total, Collectable(d))
  <2>1. Sum(net, Invoices) = Sum(net, Collectable(d))
    BY <1>2, <1>3, <1>5, <1>9, SumWithin
  <2> QED BY <1>5, <1>9, <2>1, SumSame
<1>12. Sum(net, Receipts) = -Sum(amount, Kept(d))
  <2>1. Sum(net, Receipts) = Sum(net, Kept(d))
    BY <1>2, <1>3, <1>5, <1>9, SumWithin
  <2> QED BY <1>5, <1>9, <2>1, SumNegated
<1>13. Sum(net, Memos) = -Sum(credit, LiveMemos(d))
  <2>1. Sum(net, Memos) = Sum(net, LiveMemos(d))
    BY <1>2, <1>3, <1>5, <1>9, SumWithin
  <2> QED BY <1>5, <1>9, <2>1, SumNegated
<1>14. Sum(back, Memos) = Sum(back, LiveMemos(d))
  BY <1>2, <1>4, <1>5, <1>9, SumWithin
<1>15. /\ Sum(total, Collectable(d)) \in Int /\ Sum(amount, Kept(d)) \in Int
       /\ Sum(credit, LiveMemos(d)) \in Int /\ Sum(back, LiveMemos(d)) \in Int
  <2>1. Sum(total, Collectable(d)) \in Int
    <3>1. \A i \in Collectable(d) : total[i] \in Int
      BY <1>2, <1>3, <1>5, <1>9
    <3> QED BY <1>5, <3>1, SumInt
  <2>2. Sum(amount, Kept(d)) \in Int /\ Sum(credit, LiveMemos(d)) \in Int
    BY <1>5, <1>9, SumInt
  <2>3. Sum(back, LiveMemos(d)) \in Int
    BY <1>4, <1>5, SumInt
  <2> QED BY <2>1, <2>2, <2>3
<1>16. StatementClosing(d) = Sum(total, Collectable(d)) - Sum(amount, Kept(d))
                               - Sum(credit, LiveMemos(d)) + Sum(back, LiveMemos(d))
  BY DEF StatementClosing, total, amount, credit, back
<1> QED BY <1>1, <1>10, <1>11, <1>12, <1>13, <1>14, <1>15, <1>16

(* What cancels out may be left out.                                        *)
LEMMA HiddenIsWorthless ==
  ASSUME NEW entries, IsLog(entries), NEW before \in SUBSET entries
  PROVE  /\ IsLog(entries \ before) /\ IsLog(Shown(entries, before))
         /\ Worth(before) \in Int
         /\ Worth(entries) = Worth(before) + Worth(entries \ before)
         /\ Worth(Shown(entries, before)) = Worth(entries \ before)
<1> DEFINE period == entries \ before
           hidden == {x \in {e.of : e \in period} : Cancelled(x, period)}
           shown == {e \in period : e.of \notin hidden}
           H == {e \in period : e.of \in hidden}
           On(x) == {e \in period : e.of = x}
           a == [e \in H |-> e.amount]
           group == [e \in H |-> e.of]
           sums == [x \in hidden |-> Sum(a, {e \in H : group[e] = x})]
<1>1. IsLog(period) /\ Worth(before) \in Int /\ Worth(entries) = Worth(before) + Worth(period)
  <2>1. entries = before \cup period /\ before \cap period = {}
    OBVIOUS
  <2> HIDE DEF period
  <2> QED BY <2>1, WorthSplit
<1>2. Shown(entries, before) = shown
  BY DEF Shown
<1>3. period = shown \cup H /\ shown \cap H = {}
  OBVIOUS
<1>4. IsFiniteSet(hidden)
  <2> DEFINE F == [e \in period |-> e.of]
  <2>1. {e.of : e \in period} = {F[e] : e \in period}
    OBVIOUS
  <2>2. IsFiniteSet({F[e] : e \in period})
    <3> HIDE DEF F, period
    <3> QED BY <1>1, ImageFinite DEF IsLog
  <2>3. hidden \subseteq {F[e] : e \in period}
    BY <2>1
  <2> QED BY <2>2, <2>3, FS_Subset
<1>5. \A x \in hidden : Worth(On(x)) = 0 /\ {e \in H : group[e] = x} = On(x)
  <2> TAKE x \in hidden
  <2>1. Cancelled(x, period)
    OBVIOUS
  <2>2. Worth(On(x)) = 0
    BY <2>1 DEF Cancelled
  <2>3. {e \in H : group[e] = x} = On(x)
    OBVIOUS
  <2> QED BY <2>2, <2>3
<1>6. \A e \in H : group[e] \in hidden /\ a[e] = e.amount
  OBVIOUS
<1>7. Worth(H) = Sum(a, H)
  BY DEF Worth
<1>8. \A x \in hidden : On(x) \in SUBSET H
  OBVIOUS
<1>9. \A x \in hidden : sums[x] = Sum(a, {e \in H : group[e] = x})
  OBVIOUS
<1>10. sums = [x \in hidden |-> Sum(a, {e \in H : group[e] = x})]
  OBVIOUS
<1> HIDE DEF period, hidden, shown, H, On, a, group, sums
<1>11. /\ IsLog(shown) /\ IsLog(H) /\ Worth(period) = Worth(shown) + Worth(H)
       /\ Worth(shown) \in Int
  BY <1>1, <1>3, WorthSplit
<1>12. \A x \in hidden : sums[x] = 0
  <2> SUFFICES ASSUME NEW x \in hidden PROVE sums[x] = 0
    OBVIOUS
  <2> DEFINE b == [e \in On(x) |-> e.amount]
  <2>1. sums[x] = Sum(a, On(x)) /\ Worth(On(x)) = 0 /\ On(x) \in SUBSET H
    BY <1>5, <1>8, <1>9
  <2>2. \A e \in On(x) : a[e] = b[e]
    BY <1>6, <2>1
  <2>3. Sum(b, On(x)) = 0
    BY <2>1 DEF Worth
  <2>4. IsFiniteSet(On(x))
    BY <1>11, <2>1, FS_Subset DEF IsLog
  <2> HIDE DEF b
  <2>5. Sum(a, On(x)) = Sum(b, On(x))
    BY <2>2, <2>4, SumSame
  <2> QED BY <2>1, <2>3, <2>5
<1>13. Sum(a, H) = Sum(sums, hidden)
  <2>1. IsFiniteSet(H) /\ \A e \in H : a[e] \in Int
    BY <1>6, <1>11 DEF IsLog
  <2> QED BY <1>4, <1>6, <1>10, <2>1, SumByGroup
<1>14. Sum(sums, hidden) = 0
  BY <1>4, <1>12, SumZero
<1> QED BY <1>1, <1>2, <1>7, <1>11, <1>13, <1>14 DEF period

(* The figures under a statement, and those of the year's history, add up   *)
(* to its entries.                                                          *)
WellKept(E) ==
  /\ IsLog(E)
  /\ \A e \in E : \/ e.kind \in {"made", "undone"} /\ e.of \in Documents
                  \/ e.kind = "refund" /\ e.of \in Memos

LEMMA FiguresAddUp ==
  ASSUME NEW E, WellKept(E)
  PROVE  /\ Worth(E) = Invoiced(E) - ReceivedIn(E) - CreditedIn(E) + RefundedIn(E)
         /\ Worth(E) = Charged(E) - Settled(E)
         /\ Invoiced(E) \in Int /\ ReceivedIn(E) \in Int /\ CreditedIn(E) \in Int
         /\ RefundedIn(E) \in Int /\ Charged(E) \in Int /\ Settled(E) \in Int
<1> DEFINE own == {"made", "undone"}
           I == {e \in E : e.of \in Invoices /\ e.kind \in own}
           R == {e \in E : e.of \in Receipts /\ e.kind \in own}
           M == {e \in E : e.of \in Memos /\ e.kind \in own}
           B == {e \in E : e.of \in Memos /\ e.kind \in {"refund"}}
           C == {e \in E : e.of \in Invoices \cup Memos /\ e.kind \in own}
           S == {e \in E : e.of \in Receipts \/ e.kind = "refund"}
           RMB == (R \cup M) \cup B
           RM == R \cup M
<1>1. /\ Invoiced(E) = Worth(I) /\ ReceivedIn(E) = -Worth(R) /\ CreditedIn(E) = -Worth(M)
      /\ RefundedIn(E) = Worth(B) /\ Charged(E) = Worth(C) /\ Settled(E) = -Worth(S)
  BY DEF Invoiced, ReceivedIn, CreditedIn, RefundedIn, Charged, Settled, OfKind
<1>2. \A e \in E : /\ \/ e.kind \in own /\ e.of \in Documents
                      \/ e.kind = "refund" /\ e.of \in Memos
  BY DEF WellKept
<1>3. "refund" \notin own
  OBVIOUS
<1> HIDE DEF own
<1>4. E = I \cup RMB /\ I \cap RMB = {}
  BY <1>2, <1>3, ReceivablesAssumption DEF Documents
<1>5. RMB = RM \cup B /\ RM \cap B = {}
  BY <1>3
<1>6. RM = R \cup M /\ R \cap M = {}
  BY ReceivablesAssumption
<1>7. E = C \cup S /\ C \cap S = {}
  BY <1>2, <1>3, ReceivablesAssumption DEF Documents
<1>8. IsLog(E)
  BY DEF WellKept
<1> HIDE DEF I, R, M, B, C, S, RMB, RM
<1>9. Worth(E) = Worth(I) + Worth(RMB) /\ IsLog(RMB)
  BY <1>4, <1>8, WorthSplit
<1>10. Worth(RMB) = Worth(RM) + Worth(B) /\ IsLog(RM)
  BY <1>5, <1>9, WorthSplit
<1>11. Worth(RM) = Worth(R) + Worth(M)
  BY <1>6, <1>10, WorthSplit
<1>12. Worth(E) = Worth(C) + Worth(S)
  BY <1>7, <1>8, WorthSplit
<1>13. Worth(I) \in Int /\ Worth(C) \in Int /\ Worth(S) \in Int
  BY <1>4, <1>7, <1>8, WorthSplit
<1>14. Worth(R) \in Int /\ Worth(M) \in Int
  BY <1>6, <1>10, WorthSplit
<1>15. Worth(B) \in Int
  BY <1>5, <1>9, WorthSplit
<1> QED BY <1>1, <1>9, <1>10, <1>11, <1>12, <1>13, <1>14, <1>15

(* A statement closes on the books wherever its period begins.              *)
LEMMA StatementCloses ==
  ASSUME NEW d \in Db, Filed(d), Backs(d), NEW owed \in Int, StatementClosing(d) = owed,
         NEW before \in SUBSET Entries(d)
  PROVE  LET entries == Entries(d)
             shown == Shown(entries, before)
             opening == Worth(before)
         IN /\ LedgerClosing(entries, before) = owed
            /\ opening + Worth(shown) = owed
            /\ \A e \in entries \ before :
                 e.of \in Kept(d) \cup Collectable(d) \cup LiveMemos(d) => e \in shown
            /\ opening + Invoiced(shown) - ReceivedIn(shown) - CreditedIn(shown) + RefundedIn(shown) = owed
            /\ opening + Charged(entries \ before) - Settled(entries \ before) = owed
<1> DEFINE entries == Entries(d)
           period == entries \ before
           shown == Shown(entries, before)
           opening == Worth(before)
<1>1. /\ IsLog(entries) /\ Worth(entries) = owed
      /\ \A e \in entries : \/ e.kind = "made" /\ e.of \in Documents
                            \/ e.kind = "undone" /\ e.of \in Documents /\ d.book[e.of].undone # 0
                            \/ e.kind = "refund" /\ e.of \in Memos
  BY EntriesAre, EntriesClose
<1>2. /\ shown \subseteq period /\ period \subseteq entries
      /\ \A e \in period : e \in shown \/ Cancelled(e.of, period)
  BY DEF Shown
<1>3. \A x : Cancelled(x, period) => \E e \in period : e.of = x /\ e.kind = "undone"
  BY DEF Cancelled
<1>4. before \in SUBSET entries /\ LedgerClosing(entries, before) = opening + Worth(period)
  BY DEF LedgerClosing
<1>5. /\ IsLog(period) /\ IsLog(shown) /\ opening \in Int
      /\ Worth(entries) = opening + Worth(period) /\ Worth(shown) = Worth(period)
  <2> HIDE DEF entries
  <2> QED BY <1>1, <1>4, HiddenIsWorthless
<1> HIDE DEF entries, period, shown, opening
<1>6. WellKept(period) /\ WellKept(shown)
  BY <1>1, <1>2, <1>5 DEF WellKept
<1>7. /\ opening + Invoiced(shown) - ReceivedIn(shown) - CreditedIn(shown) + RefundedIn(shown) = owed
      /\ opening + Charged(period) - Settled(period) = owed
  <2>1. /\ Worth(shown) = Invoiced(shown) - ReceivedIn(shown) - CreditedIn(shown) + RefundedIn(shown)
        /\ Worth(period) = Charged(period) - Settled(period)
    BY <1>6, FiguresAddUp
  <2>2. /\ Invoiced(shown) \in Int /\ ReceivedIn(shown) \in Int /\ CreditedIn(shown) \in Int
        /\ RefundedIn(shown) \in Int /\ Charged(period) \in Int /\ Settled(period) \in Int
    BY <1>6, FiguresAddUp
  <2>3. opening + Worth(period) = owed /\ Worth(shown) = Worth(period)
    BY <1>1, <1>5
  <2>4. opening + (Invoiced(shown) - ReceivedIn(shown) - CreditedIn(shown) + RefundedIn(shown)) = owed
    BY <2>1, <2>3
  <2>5. opening + (Charged(period) - Settled(period)) = owed
    BY <2>1, <2>3
  <2> QED BY <1>5, <2>2, <2>4, <2>5
<1>8. ASSUME NEW e \in period, e.of \in Kept(d) \cup Collectable(d) \cup LiveMemos(d)
      PROVE  e \in shown
  <2>1. e.of \in Documents /\ d.book[e.of].undone = 0
    <3>1. CASE e.of \in Kept(d)
      BY <3>1 DEF Kept, Filed, ReceiptFiled, Documents
    <3>2. CASE e.of \in Collectable(d)
      BY <3>2 DEF Collectable, Filed, InvoiceFiled, Documents
    <3>3. CASE e.of \in LiveMemos(d)
      BY <3>3 DEF LiveMemos, Filed, MemoFiled, Documents
    <3> QED BY <1>8, <3>1, <3>2, <3>3
  <2>2. ~Cancelled(e.of, period)
    BY <1>1, <1>2, <1>3, <2>1
  <2> QED BY <1>2, <2>2
<1> QED BY <1>1, <1>4, <1>5, <1>7, <1>8 DEF entries, period, shown, opening

(* While requests never overlap, and no invoice that is void is voided      *)
(* again, the reports agree with the books: the aging, its buckets and      *)
(* their documents, the party's summary; the ledger, the statement and the  *)
(* year's history wherever the period begins, with no live document left    *)
(* out; and the sale of a delivery says what its invoice does.              *)
THEOREM AnswersAlwaysAgree ==
  ASSUME VoidAgain = FALSE
  PROVE  Spec => []AnswersAgree
<1>1. Init => OneAtATime /\ Tied /\ AdvancesTied /\ MemosTied /\ AllFiled
  BY InitTied, InitCloses, InitFiled
<1>2. Typed /\ Typed' /\ ReceiptsSound /\ MemosSound /\ OneAtATime /\ Tied /\ [Next]_vars
        => OneAtATime' /\ Tied'
  BY StepTied
<1>3. Typed /\ Typed' /\ ReceiptsSound /\ OneAtATime /\ Tied /\ AdvancesTied /\ [Next]_vars
        => AdvancesTied'
  BY StepAdvanced
<1>4. Typed /\ Typed' /\ MemosSound /\ OneAtATime /\ Tied /\ MemosTied /\ [Next]_vars
        => MemosTied'
  BY StepWhole
<1>5. Typed /\ Typed' /\ ReceiptsSound /\ OneAtATime /\ Tied /\ AllFiled /\ [Next]_vars
        => AllFiled'
  BY StepFiled
<1>6. Typed /\ MemosSound /\ Tied /\ AdvancesTied /\ MemosTied /\ AllFiled => AnswersAgree
  <2> SUFFICES ASSUME Typed, MemosSound, Tied, AdvancesTied, MemosTied, AllFiled, apart
               PROVE  AnswersAgree
    BY DEF AnswersAgree, AgingTies, StatementTrue, PaidStatusTrue
  <2>1. /\ db \in Db /\ spent \in [Memos -> Nat] /\ Books(db, Paid) /\ Filed(db)
        /\ Advanced(db) /\ Paid = Sum(spent, Memos)
    BY DEF Typed, Tied, Paid, AdvancesTied, AllFiled
  <2>2. \A m \in Memos : /\ Counted(db.memo[m], spent[m])
                         /\ MemoWhole(db.memo[m], spent[m], db.refund[m])
    BY DEF MemosSound, MemosTied, MemosWhole
  <2>3. /\ StatementClosing(db) = db.ar - db.advances /\ db.ar \in Int /\ db.advances \in Int
        /\ Backs(db)
    BY <2>1, <2>2, BooksClose, DbFields DEF Backs, MemoWhole
  <2>4. Paid \in Int
    BY <2>1, SumInt, ReceivablesAssumption
  <2>5. AgingTies
    BY <2>1, <2>4, AgingAddsUp, NetDueTies DEF AgingTies
  <2>6. StatementTrue
    <3> DEFINE owed == db.ar - db.advances
    <3>1. owed \in Int /\ StatementClosing(db) = owed
      BY <2>3
    <3> HIDE DEF owed
    <3>2. \A before \in SUBSET Entries(db) :
            LET entries == Entries(db)
                shown == Shown(entries, before)
                opening == Worth(before)
            IN /\ LedgerClosing(entries, before) = owed
               /\ opening + Worth(shown) = owed
               /\ \A e \in entries \ before :
                    e.of \in Kept(db) \cup Collectable(db) \cup LiveMemos(db) => e \in shown
               /\ opening + Invoiced(shown) - ReceivedIn(shown) - CreditedIn(shown) + RefundedIn(shown) = owed
               /\ opening + Charged(entries \ before) - Settled(entries \ before) = owed
      BY <2>1, <2>3, <3>1, StatementCloses
    <3> QED BY <3>2 DEF StatementTrue, owed
  <2>7. PaidStatusTrue
    BY <2>1, SalesTrue
  <2> QED BY <2>5, <2>6, <2>7 DEF AnswersAgree
<1> QED BY <1>1, <1>2, <1>3, <1>4, <1>5, <1>6, ReceiptsAlwaysSound, MemosAlwaysSound, RowsAddUp,
           PTL DEF Spec
=============================================================================
