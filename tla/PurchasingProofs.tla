-------------------------- MODULE PurchasingProofs --------------------------
(***************************************************************************)
(* Theorems about Purchasing, for any number of lines, bills, credits,     *)
(* payments and requests, and any costs and amounts.                       *)
(***************************************************************************)
EXTENDS Purchasing, FiniteSumTheorems

-----------------------------------------------------------------------------
(* Types *)

OwingStatus == {"open", "partial", "paid"}
LiveStatus == {"open", "applied", "closed"}
OrderStatus == {"none", "draft", "sent", "partial", "received", "closed", "gone"}
LineRow == [ordered : Nat, received : Nat, billed : Nat, accrued : Int, cleared : Int]
Links == [Lines -> [qty : Nat, grni : Int]]
BillRow == [status : OwingStatus \cup {"none", "draft", "gone"}, total : Nat, paid : Nat,
            balance : Int, posted : BOOLEAN, order : BOOLEAN, link : Links, hand : ByHand]
CreditRow == [status : LiveStatus \cup {"none", "void", "gone"}, total : Nat, applied : Nat,
              balance : Int]
PayRow == [proof : Proofs \cup {"none"}, on : [Bills -> Nat]]
Db == [po : OrderStatus, line : [Lines -> LineRow], registered : BOOLEAN,
       bill : [Bills -> BillRow], credit : [Credits -> CreditRow], pay : [Payments -> PayRow],
       used : SUBSET (Proofs), owed : Int, grni : Int, ap : Int, bank : Int]

BillOrderCall == [op : {"billOrder"}, b : Bills, owed : Int]
CreateBillCall == [op : {"createBill"}, b : Bills, t : Amounts, hand : ByHand,
                   draft : BOOLEAN, order : BOOLEAN, owed : Int]
UpdateBillCall == [op : {"updateBill"}, b : Bills, t : Amounts, hand : ByHand, seen : BillRow]
PostCall == [op : {"post"}, b : Bills, owed : Int]
DeleteBillCall == [op : {"deleteBill"}, b : Bills, seen : BillRow]
PayCall == [op : {"pay"}, on : Shares, proof : Proofs, owed : Int]
CreateCreditCall == [op : {"createCredit"}, c : Credits, t : Amounts, owed : Int]
VoidCreditCall == [op : {"voidCredit"}, c : Credits, seen : CreditRow, remove : BOOLEAN]
RemoveCreditCall == [op : {"removeCredit"}, c : Credits]
Calls ==
  UNION {{Done}, BillOrderCall, CreateBillCall, UpdateBillCall, PostCall, DeleteBillCall,
         PayCall, CreateCreditCall, VoidCreditCall, RemoveCreditCall}

Spent == [Credits -> [Bills -> Nat]]
TypeOK ==
  /\ db \in Db
  /\ req \in [Requests -> Calls]
  /\ spent \in Spent
  /\ writes \in Nat
  /\ apart \in BOOLEAN

-----------------------------------------------------------------------------
(* The inductive invariant of the order and account 2050: what a line has   *)
(* accrued is the cost of what was received, what it has cleared is the     *)
(* cost of what was billed, and what was billed is what the bills of the    *)
(* order say.                                                               *)

Landed(d, l, q) == IF l \in StockLines THEN LandedCost(d, q) ELSE 0
LineKept(d, l) ==
  LET row == d.line[l]
  IN /\ row.billed <= row.received /\ row.received <= row.ordered
     /\ row.accrued = Landed(d, l, row.received)
     /\ row.cleared = Landed(d, l, row.billed)
     /\ row.billed = Sum([b \in Bills |-> d.bill[b].link[l].qty], Bills)
LinkKept(d, b) ==
  LET row == d.bill[b]
  IN /\ \A l \in Lines : row.link[l].grni = Landed(d, l, row.link[l].qty)
     /\ row.link = NoLink \/ (row.posted /\ row.order)
     /\ row.status \in {"none", "draft"} => row.link = NoLink
GrniKept(d) == d.grni = Sum([l \in Lines |-> Accrued(d.line[l])], Lines)
OrderKept(d) ==
  /\ d.po = "closed" => \A l \in Lines : d.line[l].received = d.line[l].billed
  /\ d.po \in {"none", "gone"} => \A l \in Lines : d.line[l].received = 0

(* A bill about to be posted or edited was entered by hand; one about to be *)
(* deleted is as it was read.                                               *)
HandMade(d, c) ==
  /\ c.op \in {"post", "updateBill"} =>
       d.bill[c.b].status # "none" /\ d.bill[c.b].link = NoLink
  /\ c.op = "updateBill" => c.seen.link = NoLink /\ c.seen.status = "draft"
  /\ c.op = "deleteBill" => c.seen = d.bill[c.b]

OrderSound ==
  /\ \A l \in Lines : LineKept(db, l)
  /\ \A b \in Bills : LinkKept(db, b)
  /\ GrniKept(db)
  /\ OrderKept(db)
  /\ \A r \in Requests : HandMade(db, req[r])

(* Nothing else is served while a bill is deleted.                          *)
Sole(ops) ==
  \A r, q \in Requests : req[r].op \in ops /\ ~Idle(q) => q = r

-----------------------------------------------------------------------------
(* The inductive invariant of what is owed: a bill's balance is what        *)
(* payments and credits have left of it, a credit's what bills have left.   *)

Due(row) == IF row.status \in OwingStatus THEN row.balance ELSE 0
Held(row) == IF row.status \in LiveStatus THEN row.balance ELSE 0
PaidOn(d, b) == Sum([p \in Payments |-> d.pay[p].on[b]], Payments)
SpentOn(s, b) == Sum([c \in Credits |-> s[c][b]], Credits)
BillKept(d, s, b) ==
  LET row == d.bill[b]
  IN /\ row.balance = row.total - row.paid /\ row.balance >= 0
     /\ row.posted <=> row.status \in OwingStatus
     /\ row.paid > 0 => row.status \in OwingStatus
     /\ row.paid = PaidOn(d, b) + SpentOn(s, b)
CreditKept(d, s, c) ==
  LET row == d.credit[c]
  IN /\ row.applied = Sum(s[c], Bills)
     /\ row.applied > 0 => row.status \in LiveStatus
     /\ row.status \in LiveStatus => row.balance = row.total - row.applied /\ row.balance >= 0
Dues(d) == Sum([b \in Bills |-> Due(d.bill[b])], Bills)
Holdings(d) == Sum([c \in Credits |-> Held(d.credit[c])], Credits)
ApKept(d) == d.ap = Dues(d) - Holdings(d)

(* What a request will change is as it read it.                             *)
Current(d, c) ==
  /\ c.op = "post" => d.bill[c.b].status = "draft"
  /\ c.op = "updateBill" => c.seen = d.bill[c.b] /\ c.seen.status = "draft"
  /\ c.op = "deleteBill" => c.seen = d.bill[c.b] /\ MayDelete(c.seen)
  /\ c.op = "voidCredit" => c.seen = d.credit[c.c] /\ MayVoid(c.seen)
  /\ c.op = "removeCredit" => d.credit[c.c].status \in {"void", "gone"}
PayablesSound ==
  /\ \A b \in Bills : BillKept(db, spent, b)
  /\ \A c \in Credits : CreditKept(db, spent, c)
  /\ ApKept(db)
  /\ \A r \in Requests : Current(db, req[r])
  /\ \A r, q \in Requests :
       req[r].op = "post" /\ req[q].op = "post" /\ req[r].b = req[q].b => r = q

(* While requests never overlap, one at most is served, the vendor is as it *)
(* was read, and its balance is account 2000.                               *)
ReadsOwed == {"billOrder", "createBill", "post", "pay", "createCredit"}
OwedKept ==
  apart =>
    /\ \A r, q \in Requests : ~Idle(r) /\ ~Idle(q) => r = q
    /\ \A r \in Requests : req[r].op \in ReadsOwed => req[r].owed = db.owed
    /\ db.owed = db.ap

-----------------------------------------------------------------------------
(* Rows and costs *)

LEMMA SetsFinite ==
  /\ IsFiniteSet(Lines) /\ IsFiniteSet(Bills) /\ IsFiniteSet(Credits) /\ IsFiniteSet(Payments)
  /\ Cost \in Nat /\ Tax \in Nat /\ Amounts \subseteq Nat \ {0} /\ MostOrdered \in Nat
  BY PurchasingAssumption DEF Lines

LEMMA AmountsPositive ==
  ASSUME NEW a \in Amounts
  PROVE  a \in Nat /\ a \in Int /\ a > 0
  BY SetsFinite

LEMMA DbFields ==
  ASSUME NEW d \in Db
  PROVE  /\ d.po \in OrderStatus /\ d.line \in [Lines -> LineRow] /\ d.registered \in BOOLEAN
         /\ d.bill \in [Bills -> BillRow] /\ d.credit \in [Credits -> CreditRow]
         /\ d.pay \in [Payments -> PayRow] /\ d.used \in SUBSET (Proofs)
         /\ d.owed \in Int /\ d.grni \in Int /\ d.ap \in Int /\ d.bank \in Int
  BY DEF Db

LEMMA LineFields ==
  ASSUME NEW row \in LineRow
  PROVE  /\ row.ordered \in Nat /\ row.received \in Nat /\ row.billed \in Nat
         /\ row.accrued \in Int /\ row.cleared \in Int
         /\ Accrued(row) \in Int /\ Unbilled(row) \in Int
  BY DEF LineRow, Accrued, Unbilled

LEMMA BillFields ==
  ASSUME NEW row \in BillRow
  PROVE  /\ row.status \in OwingStatus \cup {"none", "draft", "gone"}
         /\ row.total \in Nat /\ row.paid \in Nat /\ row.balance \in Int
         /\ row.posted \in BOOLEAN /\ row.order \in BOOLEAN /\ row.link \in Links
         /\ row.hand \in ByHand
  BY DEF BillRow

(* What lines entered by hand debit 2050 with, where they may: nothing      *)
(* where they may not.                                                      *)
LEMMA ByHandIs ==
  /\ 0 \in ByHand
  /\ \A h \in ByHand : h \in Nat /\ (~HandGrni => h = 0)
  BY SetsFinite DEF ByHand

LEMMA CreditFields ==
  ASSUME NEW row \in CreditRow
  PROVE  /\ row.status \in LiveStatus \cup {"none", "void", "gone"}
         /\ row.total \in Nat /\ row.applied \in Nat /\ row.balance \in Int
  BY DEF CreditRow

LEMMA LinkFields ==
  ASSUME NEW link \in Links, NEW l \in Lines
  PROVE  link[l].qty \in Nat /\ link[l].grni \in Int
  BY DEF Links

LEMMA NewLine ==
  ASSUME NEW q \in Nat
  PROVE  /\ Line(q) \in LineRow /\ Line(q).ordered = q /\ Line(q).received = 0
         /\ Line(q).billed = 0 /\ Line(q).accrued = 0 /\ Line(q).cleared = 0
  BY DEF Line, LineRow

LEMMA NoLinkTyped ==
  NoLink \in Links /\ \A l \in Lines : NoLink[l].qty = 0 /\ NoLink[l].grni = 0
  BY DEF NoLink, Links

LEMMA NoBillTyped ==
  NoBill \in BillRow /\ NoBill.link = NoLink /\ NoBill.paid = 0 /\ NoBill.total = 0
    /\ NoBill.balance = 0 /\ ~NoBill.posted
  BY NoLinkTyped, ByHandIs DEF NoBill, BillRow

LEMMA NoCreditTyped == NoCredit \in CreditRow /\ NoCredit.applied = 0
  BY DEF NoCredit, CreditRow

LEMMA NoPaymentTyped == NoPayment \in PayRow /\ \A b \in Bills : NoPayment.on[b] = 0
  BY DEF NoPayment, PayRow

(* What goods cost is in proportion to how many they are. *)
LEMMA Proportional ==
  ASSUME NEW k \in Nat, NEW p \in Nat, NEW q \in Nat
  PROVE  /\ p * k \in Nat /\ (p + q) * k = p * k + q * k
         /\ p <= q => p * k <= q * k /\ (q - p) * k = q * k - p * k
<1>1. p * k \in Nat /\ q * k \in Nat /\ (p + q) * k = p * k + q * k
  OBVIOUS
<1>2. ASSUME p <= q
      PROVE  p * k <= q * k /\ (q - p) * k = q * k - p * k
  <2>1. PICK n \in Nat : q = p + n
    BY <1>2
  <2>2. q * k = p * k + n * k /\ n * k \in Nat /\ q - p = n
    BY <2>1
  <2> QED BY <1>1, <2>2
<1> QED BY <1>1, <1>2

LEMMA LandedIs ==
  ASSUME NEW d \in Db, NEW l, NEW p \in Nat, NEW q \in Nat
  PROVE  /\ Landed(d, l, p) \in Nat /\ Landed(d, l, 0) = 0
         /\ Landed(d, l, p + q) = Landed(d, l, p) + Landed(d, l, q)
         /\ p <= q => /\ Landed(d, l, p) <= Landed(d, l, q)
                      /\ Landed(d, l, q - p) = Landed(d, l, q) - Landed(d, l, p)
<1> DEFINE k == IF l \in StockLines THEN IF d.registered THEN Cost ELSE Cost + Tax ELSE 0
<1>1. k \in Nat
  BY SetsFinite
<1>2. \A n \in Nat : Landed(d, l, n) = n * k
  BY SetsFinite DEF Landed, LandedCost
<1> HIDE DEF k
<1>3. 0 * k = 0 /\ p + q \in Nat /\ (p <= q => q - p \in Nat)
  BY <1>1
<1> QED BY <1>1, <1>2, <1>3, Proportional

(* The shape of a call by what it asks for. *)
LEMMA CallShapes ==
  ASSUME NEW c \in Calls
  PROVE  /\ c.op = "idle" <=> c = Done
         /\ c.op = "billOrder" => c \in BillOrderCall
         /\ c.op = "createBill" => c \in CreateBillCall
         /\ c.op = "updateBill" => c \in UpdateBillCall
         /\ c.op = "post" => c \in PostCall
         /\ c.op = "deleteBill" => c \in DeleteBillCall
         /\ c.op = "pay" => c \in PayCall
         /\ c.op = "createCredit" => c \in CreateCreditCall
         /\ c.op = "voidCredit" => c \in VoidCreditCall
         /\ c.op = "removeCredit" => c \in RemoveCreditCall
<1>1. CASE c \in {Done} \cup RemoveCreditCall
  BY <1>1 DEF Done, RemoveCreditCall
<1>2. CASE c \in BillOrderCall
  BY <1>2 DEF Done, BillOrderCall
<1>3. CASE c \in CreateBillCall
  BY <1>3 DEF Done, CreateBillCall
<1>4. CASE c \in UpdateBillCall
  BY <1>4 DEF Done, UpdateBillCall
<1>5. CASE c \in PostCall
  BY <1>5 DEF Done, PostCall
<1>6. CASE c \in DeleteBillCall
  BY <1>6 DEF Done, DeleteBillCall
<1>7. CASE c \in PayCall
  BY <1>7 DEF Done, PayCall
<1>8. CASE c \in CreateCreditCall
  BY <1>8 DEF Done, CreateCreditCall
<1>9. CASE c \in VoidCreditCall
  BY <1>9 DEF Done, VoidCreditCall
<1> QED BY <1>1, <1>2, <1>3, <1>4, <1>5, <1>6, <1>7, <1>8, <1>9 DEF Calls

-----------------------------------------------------------------------------
(* What each step does to the rows. *)

(* What the order's own operations leave alone, and what the others do.     *)
SameBooks(d, e) ==
  /\ e.registered = d.registered /\ e.bill = d.bill /\ e.credit = d.credit /\ e.pay = d.pay
  /\ e.owed = d.owed /\ e.ap = d.ap
SameOrder(d, e) ==
  /\ e.registered = d.registered /\ e.po = d.po /\ e.line = d.line /\ e.grni = d.grni

LEMMA StatusTyped ==
  ASSUME NEW line, NEW b \in BOOLEAN
  PROVE  /\ DeriveStatus(line, b) \in OrderStatus
         /\ DeriveStatus(line, b) \notin {"none", "gone"}
         /\ DeriveStatus(line, b) = "closed" => AllReceived(line) /\ AllBilled(line)
  BY DEF DeriveStatus, OrderStatus

(* The lines of an order written anew: nothing received, nothing billed.    *)
Written(f) == \E n \in [Lines -> Nat] : f = [l \in Lines |-> Line(n[l])]

LEMMA WrittenLines ==
  ASSUME NEW f, Written(f)
  PROVE  f \in [Lines -> LineRow] /\ \A l \in Lines : \E q \in Nat : f[l] = Line(q)
  BY NewLine DEF Written

LEMMA OrderCreated ==
  ASSUME TypeOK, CreateOrder
  PROVE  /\ db' \in Db /\ SameBooks(db, db') /\ db'.grni = db.grni /\ db'.po = "draft"
         /\ db.po \in {"none", "gone"} /\ Written(db'.line)
<1>1. PICK n \in [Lines -> 1..MostOrdered] :
        /\ db.po \in {"none", "gone"}
        /\ AtOnce([db EXCEPT !.po = "draft", !.line = [l \in Lines |-> Line(n[l])]])
  BY DEF CreateOrder
<1> DEFINE f == [l \in Lines |-> Line(n[l])]
<1>2. n \in [Lines -> Nat]
  BY SetsFinite
<1>3. Written(f) /\ f \in [Lines -> LineRow]
  BY <1>2, WrittenLines DEF Written
<1>4. db' = [db EXCEPT !.po = "draft", !.line = f]
  BY <1>1 DEF AtOnce
<1> HIDE DEF f
<1> QED BY <1>1, <1>3, <1>4 DEF TypeOK, Db, OrderStatus, SameBooks

LEMMA OrderUpdated ==
  ASSUME TypeOK, UpdateOrder
  PROVE  /\ db' \in Db /\ SameBooks(db, db') /\ db'.grni = db.grni /\ db'.po = db.po
         /\ db.po \notin {"none", "gone", "closed"} /\ ~AnyReceived(db.line)
         /\ Written(db'.line)
<1>1. PICK n \in [Lines -> 1..MostOrdered] :
        /\ db.po = "draft" \/ Issued(db)
        /\ ~AnyReceived(db.line)
        /\ AtOnce([db EXCEPT !.line = [l \in Lines |-> Line(n[l])]])
  BY DEF UpdateOrder
<1> DEFINE f == [l \in Lines |-> Line(n[l])]
<1>2. n \in [Lines -> Nat]
  BY SetsFinite
<1>3. Written(f) /\ f \in [Lines -> LineRow]
  BY <1>2, WrittenLines DEF Written
<1>4. db' = [db EXCEPT !.line = f]
  BY <1>1 DEF AtOnce
<1> HIDE DEF f
<1> QED BY <1>1, <1>3, <1>4 DEF TypeOK, Db, SameBooks, Issued

LEMMA OrderDeleted ==
  ASSUME TypeOK, DeleteOrder
  PROVE  /\ db' \in Db /\ SameBooks(db, db') /\ db'.grni = db.grni /\ db'.po = "gone"
         /\ ~AnyReceived(db.line) /\ Written(db'.line)
<1> DEFINE f == [l \in Lines |-> Line(0)]
           n == [l \in Lines |-> 0]
<1>1. f = [l \in Lines |-> Line(n[l])] /\ n \in [Lines -> Nat]
  OBVIOUS
<1>2. Written(f) /\ f \in [Lines -> LineRow]
  BY <1>1, WrittenLines DEF Written
<1>3. db' = [db EXCEPT !.po = "gone", !.line = f] /\ ~AnyReceived(db.line)
  BY DEF AtOnce, DeleteOrder
<1> HIDE DEF f
<1> QED BY <1>2, <1>3 DEF TypeOK, Db, OrderStatus, SameBooks

LEMMA StatusUpdated ==
  ASSUME TypeOK, UpdateStatus
  PROVE  /\ db' \in Db /\ SameBooks(db, db') /\ db'.grni = db.grni /\ db'.line = db.line
         /\ db'.po \notin {"none", "gone"}
         /\ db'.po = "closed" => \A l \in Lines : Unbilled(db.line[l]) <= 0
<1>1. PICK status \in {"sent", "draft", "closed"} :
        /\ CASE status = "sent" -> db.po \in {"draft", "closed"}
             [] status = "draft" -> db.po = "sent" /\ ~AnyReceived(db.line)
             [] OTHER -> MayClose(db)
        /\ AtOnce([db EXCEPT !.po = IF db.po = "closed" THEN DeriveStatus(db.line, TRUE) ELSE status])
  BY DEF UpdateStatus
<1> DEFINE s == IF db.po = "closed" THEN DeriveStatus(db.line, TRUE) ELSE status
<1>2. s \in OrderStatus /\ s \notin {"none", "gone"}
  BY StatusTyped DEF OrderStatus
<1>3. DeriveStatus(db.line, TRUE) # "closed"
  BY DEF DeriveStatus
<1>4. s = "closed" => \A l \in Lines : Unbilled(db.line[l]) <= 0
  BY <1>1, <1>3 DEF MayClose
<1>5. db' = [db EXCEPT !.po = s]
  BY <1>1 DEF AtOnce
<1> HIDE DEF s
<1> QED BY <1>2, <1>4, <1>5 DEF TypeOK, Db, SameBooks

(* What a receipt to q, or its correction, accrues on a line. *)
Accrual(d, l, q) ==
  LET by == q - d.line[l].received
  IN IF l \in ExpenseLines THEN 0
     ELSE IF by > 0 THEN LandedCost(d, by) ELSE -ToReverse(d, d.line[l], -by)
ReceivedTo(row, q, a) == [row EXCEPT !.received = q, !.accrued = row.accrued + a]

LEMMA AccrualInt ==
  ASSUME NEW d \in Db, NEW l \in Lines, NEW q \in Nat
  PROVE  Accrual(d, l, q) \in Int
<1> DEFINE by == q - d.line[l].received
           a == Accrued(d.line[l])
<1>1. d.line[l].received \in Nat /\ a \in Int /\ by \in Int
  BY DbFields, LineFields
<1>2. LandedCost(d, by) \in Int /\ LandedCost(d, -by) \in Int
  BY <1>1, SetsFinite DEF LandedCost
<1>3. -ToReverse(d, d.line[l], -by) \in Int
  BY <1>1, <1>2 DEF ToReverse, SmallerOf, Above0
<1> HIDE DEF by
<1>4. Accrual(d, l, q) \in {0, LandedCost(d, by), -ToReverse(d, d.line[l], -by)}
  BY DEF Accrual, by
<1> QED BY <1>2, <1>3, <1>4

LEMMA LineReceived ==
  ASSUME TypeOK, Receive
  PROVE  \E l \in Lines, q \in Nat :
           LET row == db.line[l]
               a == Accrual(db, l, q)
               line == [db.line EXCEPT ![l] = ReceivedTo(row, q, a)]
           IN /\ Issued(db) /\ q # row.received /\ q <= row.ordered /\ q >= row.billed
              /\ db' \in Db /\ SameBooks(db, db')
              /\ db'.line = line /\ db'.grni = db.grni + a
              /\ db'.po = DeriveStatus(line, FALSE)
<1>1. PICK l \in Lines, q \in 0..MostOrdered :
        LET row == db.line[l]
            by == q - row.received
            accrual == IF l \in ExpenseLines THEN 0
                       ELSE IF by > 0 THEN LandedCost(db, by) ELSE -ToReverse(db, row, -by)
            d == [db EXCEPT !.line[l].received = q, !.line[l].accrued = @ + accrual,
                            !.grni = @ + accrual]
        IN /\ Issued(db)
           /\ by # 0 /\ q <= row.ordered /\ q >= row.billed
           /\ AtOnce([d EXCEPT !.po = DeriveStatus(d.line, FALSE)])
  BY ZenonT(60) DEF Receive
<1> DEFINE row == db.line[l]
           a == Accrual(db, l, q)
           d == [db EXCEPT !.line[l].received = q, !.line[l].accrued = @ + a, !.grni = @ + a]
           line == [db.line EXCEPT ![l] = ReceivedTo(row, q, a)]
           g == db.grni + a
           s == DeriveStatus(line, FALSE)
<1>2. q \in Nat /\ row \in LineRow /\ a \in Int /\ db \in Db
  BY SetsFinite, DbFields, AccrualInt DEF TypeOK
<1>3. /\ Issued(db) /\ q - row.received # 0 /\ q <= row.ordered /\ q >= row.billed
      /\ AtOnce([d EXCEPT !.po = DeriveStatus(d.line, FALSE)])
  BY <1>1 DEF Accrual
<1> HIDE DEF a
<1> DEFINE x == row.accrued + a
<1>4. ReceivedTo(row, q, a) \in LineRow /\ row.received \in Nat
  <2>1. x \in Int /\ row.received \in Nat /\ ReceivedTo(row, q, a) = [row EXCEPT !.received = q, !.accrued = x]
    BY <1>2, LineFields DEF ReceivedTo
  <2> HIDE DEF x
  <2> QED BY <1>2, <2>1 DEF LineRow
<1>5. line \in [Lines -> LineRow] /\ g \in Int /\ s \in OrderStatus
  <2>1. db.line \in [Lines -> LineRow] /\ db.grni \in Int
    BY <1>2, DbFields
  <2>2. s \in OrderStatus
    BY StatusTyped
  <2>3. line \in [Lines -> LineRow]
    BY <1>4, <2>1
  <2>4. g \in Int
    BY <1>2, <2>1
  <2> QED BY <2>2, <2>3, <2>4
<1>6. d = [db EXCEPT !.line = line, !.grni = g]
  BY <1>2, <1>4, DbFields DEF Db, LineRow, ReceivedTo
<1> HIDE DEF line, g, d
<1>7. d.line = line
  BY <1>2, <1>6 DEF Db
<1>8. db' = [db EXCEPT !.line = line, !.grni = g, !.po = s]
  BY <1>2, <1>3, <1>6, <1>7 DEF AtOnce, Db
<1> HIDE DEF s
<1>9. /\ db' \in Db /\ SameBooks(db, db')
      /\ db'.line = line /\ db'.grni = g /\ db'.po = s
  BY <1>2, <1>5, <1>8 DEF Db, SameBooks
<1>10. q # row.received
  BY <1>2, <1>3, <1>4
<1> QED BY <1>2, <1>3, <1>9, <1>10 DEF line, g, s, a

-----------------------------------------------------------------------------
(* Bills *)

LEMMA ClearedInt ==
  ASSUME NEW link \in Links
  PROVE  Cleared(link) \in Int /\ (link = NoLink => Cleared(link) = 0)
<1> DEFINE f == [l \in Lines |-> link[l].grni]
<1>1. \A l \in Lines : f[l] \in Int /\ (link = NoLink => f[l] = 0)
  BY LinkFields, NoLinkTyped
<1>2. Cleared(link) = Sum(f, Lines)
  BY DEF Cleared
<1> HIDE DEF f
<1>3. Sum(f, Lines) \in Int
  BY <1>1, SetsFinite, SumInt
<1>4. link = NoLink => Sum(f, Lines) = 0
  BY <1>1, SetsFinite, SumZero
<1> QED BY <1>2, <1>3, <1>4

LEMMA DebitedIs ==
  ASSUME NEW row \in BillRow
  PROVE  Debited(row) \in Int /\ (~HandGrni => Debited(row) = Cleared(row.link))
<1>1. /\ Cleared(row.link) \in Int /\ row.hand \in Nat
      /\ ~HandGrni => row.hand = 0
  BY BillFields, ClearedInt, ByHandIs
<1> QED BY <1>1 DEF Debited

(* Only bill b changes, to a row; what else the bills leave alone.          *)
BillSet(d, e, b, row) ==
  e.bill = [d.bill EXCEPT ![b] = row] /\ e.registered = d.registered
NoReceipt(d, e) == e.po = d.po /\ e.line = d.line

LEMMA PostedDb ==
  ASSUME NEW d \in Db, NEW b \in Bills, NEW owed \in Int
  PROVE  LET e == Posted(d, b, owed)
             row == d.bill[b]
         IN /\ e \in Db /\ NoReceipt(d, e) /\ e.credit = d.credit /\ e.pay = d.pay
            /\ BillSet(d, e, b, [row EXCEPT !.posted = TRUE])
            /\ e.grni = d.grni - Debited(row) /\ e.ap = d.ap + row.total
            /\ e.owed = owed + row.total
<1> DEFINE row == d.bill[b]
           new == [row EXCEPT !.posted = TRUE]
           f == [d.bill EXCEPT ![b] = new]
           g == d.grni - Debited(row)
           a == d.ap + row.total
           o == owed + row.total
<1>1. row \in BillRow /\ row.total \in Nat /\ row.link \in Links
  BY DbFields, BillFields
<1>2. new \in BillRow
  BY <1>1 DEF BillRow
<1>3. f \in [Bills -> BillRow]
  BY <1>2, DbFields
<1>4. g \in Int /\ a \in Int /\ o \in Int
  BY <1>1, DebitedIs, DbFields
<1>5. Posted(d, b, owed) = [d EXCEPT !.bill = f, !.grni = g, !.ap = a, !.owed = o]
  BY DEF Posted, Db
<1> HIDE DEF f, g, a, o, new
<1>6. LET e == Posted(d, b, owed)
      IN /\ e \in Db /\ NoReceipt(d, e) /\ e.credit = d.credit /\ e.pay = d.pay
         /\ e.bill = f /\ e.registered = d.registered
         /\ e.grni = g /\ e.ap = a /\ e.owed = o
  BY <1>3, <1>4, <1>5 DEF Db, NoReceipt
<1> QED BY <1>6 DEF BillSet, f, g, a, o, new

(* The bill raised from the order. *)
OrderLink(d) ==
  [l \in Lines |->
     [qty |-> IF l \in ToBill(d) THEN Unbilled(d.line[l]) ELSE 0,
      grni |-> IF l \in ToBill(d) \cap StockLines THEN Accrued(d.line[l]) ELSE 0]]
Priced(link) == Sum([l \in Lines |-> link[l].qty * (Cost + Tax)], Lines)
LineBilled(row, x) == [row EXCEPT !.billed = row.billed + x.qty, !.cleared = row.cleared + x.grni]
LinesBilled(d, link) == [l \in Lines |-> LineBilled(d.line[l], link[l])]
OrderBill(link) ==
  [[status |-> "open", total |-> Priced(link), paid |-> 0, balance |-> Priced(link),
    posted |-> FALSE, order |-> TRUE, link |-> link, hand |-> 0] EXCEPT !.posted = TRUE]

LEMMA OrderLinkTyped ==
  ASSUME NEW d \in Db
  PROVE  OrderLink(d) \in Links /\ Priced(OrderLink(d)) \in Nat
<1>1. \A l \in Lines : Unbilled(d.line[l]) \in Int /\ Accrued(d.line[l]) \in Int
  BY DbFields, LineFields
<1>2. \A l \in Lines : l \in ToBill(d) => Unbilled(d.line[l]) \in Nat
  BY <1>1 DEF ToBill
<1>3. OrderLink(d) \in Links
  BY <1>1, <1>2 DEF OrderLink, Links
<1> DEFINE f == [l \in Lines |-> OrderLink(d)[l].qty * (Cost + Tax)]
<1>4. \A l \in Lines : f[l] \in Nat
  <2>1. SUFFICES ASSUME NEW l \in Lines PROVE f[l] \in Nat
    OBVIOUS
  <2>2. OrderLink(d)[l].qty \in Nat /\ Cost + Tax \in Nat
    BY <1>3, LinkFields, SetsFinite
  <2> QED BY <2>2, Proportional
<1>5. Priced(OrderLink(d)) = Sum(f, Lines)
  BY DEF Priced
<1> HIDE DEF f
<1> QED BY <1>3, <1>4, <1>5, SetsFinite, SumNat

LEMMA LineBilledRow ==
  ASSUME NEW row \in LineRow, NEW q \in Nat, NEW g \in Int, NEW x, x.qty = q, x.grni = g
  PROVE  LET e == LineBilled(row, x)
         IN /\ e \in LineRow /\ e.ordered = row.ordered /\ e.received = row.received
            /\ e.billed = row.billed + q /\ e.accrued = row.accrued
            /\ e.cleared = row.cleared + g
<1> DEFINE m == row.billed + q
           c == row.cleared + g
<1>1. m \in Nat /\ c \in Int
  BY LineFields
<1>2. LineBilled(row, x) = [row EXCEPT !.billed = m, !.cleared = c]
  BY DEF LineBilled
<1> HIDE DEF m, c
<1>3. LET e == LineBilled(row, x)
      IN /\ e \in LineRow /\ e.ordered = row.ordered /\ e.received = row.received
         /\ e.billed = m /\ e.accrued = row.accrued /\ e.cleared = c
  BY <1>1, <1>2 DEF LineRow
<1> QED BY <1>3 DEF m, c

LEMMA OrderBilled ==
  ASSUME TypeOK, NEW r \in Requests, BillOrder(r)
  PROVE  LET b == req[r].b
             link == OrderLink(db)
         IN /\ req[r].op = "billOrder" /\ b \in Bills /\ db.bill[b].status = "none"
            /\ db' \in Db /\ BillSet(db, db', b, OrderBill(link))
            /\ db'.line = LinesBilled(db, link)
            /\ db'.po = DeriveStatus(LinesBilled(db, link), FALSE)
            /\ db'.credit = db.credit /\ db'.pay = db.pay
            /\ db'.grni = db.grni - Cleared(link) /\ db'.ap = db.ap + Priced(link)
            /\ db'.owed = req[r].owed + Priced(link) /\ spent' = spent
<1> DEFINE b == req[r].b
           link == OrderLink(db)
           total == Priced(link)
           line == LinesBilled(db, link)
           row == [status |-> "open", total |-> total, paid |-> 0, balance |-> total,
                   posted |-> FALSE, order |-> TRUE, link |-> link, hand |-> 0]
           s == DeriveStatus(line, FALSE)
           f == [db.bill EXCEPT ![b] = row]
           d == [db EXCEPT !.bill = f, !.line = line, !.po = s]
<1>1. req[r].op = "billOrder" /\ req[r] \in BillOrderCall /\ db \in Db
  BY CallShapes DEF TypeOK, BillOrder, Serving
<1>2. b \in Bills /\ req[r].owed \in Int
  BY <1>1 DEF BillOrderCall
<1>3. link \in Links /\ total \in Nat
  BY <1>1, OrderLinkTyped
<1>4. line \in [Lines -> LineRow]
  <2>1. \A l \in Lines : db.line[l] \in LineRow /\ link[l].qty \in Nat /\ link[l].grni \in Int
    BY <1>1, <1>3, DbFields, LinkFields
  <2> HIDE DEF link
  <2>2. \A l \in Lines : LineBilled(db.line[l], link[l]) \in LineRow
    BY <2>1, LineBilledRow
  <2> QED BY <2>2 DEF LinesBilled
<1>5. db' = Posted(d, b, req[r].owed) /\ db.bill[b].status = "none" /\ spent' = spent
  BY DEF BillOrder, Commit, Then, OrderLink, Priced, LinesBilled, LineBilled
<1> HIDE DEF link, total, line, s
<1>6. row \in BillRow /\ s \in OrderStatus
  <2>1. s \in OrderStatus
    BY StatusTyped DEF s
  <2> QED BY <1>3, <2>1, ByHandIs DEF BillRow, OwingStatus
<1>7. f \in [Bills -> BillRow]
  BY <1>1, <1>6, DbFields
<1> HIDE DEF row
<1>8. /\ d \in Db /\ d.bill = f /\ d.line = line /\ d.po = s /\ d.credit = db.credit
      /\ d.pay = db.pay /\ d.grni = db.grni /\ d.ap = db.ap /\ d.registered = db.registered
  BY <1>1, <1>4, <1>6, <1>7 DEF Db
<1> HIDE DEF d
<1>9. /\ db' \in Db /\ db'.line = line /\ db'.po = s /\ db'.credit = db.credit
      /\ db'.pay = db.pay /\ db'.registered = db.registered
      /\ db'.bill = [f EXCEPT ![b] = [f[b] EXCEPT !.posted = TRUE]]
      /\ db'.grni = db.grni - Debited(f[b]) /\ db'.ap = db.ap + f[b].total
      /\ db'.owed = req[r].owed + f[b].total
  <2> DEFINE o == req[r].owed
  <2>1. LET e == Posted(d, b, o)
            x == d.bill[b]
        IN /\ e \in Db /\ NoReceipt(d, e) /\ e.credit = d.credit /\ e.pay = d.pay
           /\ BillSet(d, e, b, [x EXCEPT !.posted = TRUE])
           /\ e.grni = d.grni - Debited(x) /\ e.ap = d.ap + x.total
           /\ e.owed = o + x.total
    BY <1>2, <1>8, PostedDb
  <2> QED BY <1>5, <1>8, <2>1 DEF BillSet, NoReceipt
<1>10. f[b] = row /\ f[b].link = link /\ f[b].total = total /\ Debited(f[b]) = Cleared(link)
  <2>1. f[b] = row /\ row.link = link /\ row.total = total /\ row.hand = 0
    BY <1>1, <1>2, DbFields DEF row
  <2>2. Cleared(link) \in Int
    BY <1>3, ClearedInt
  <2> QED BY <2>1, <2>2 DEF Debited
<1>11. [f[b] EXCEPT !.posted = TRUE] = OrderBill(link)
  <2>1. [row EXCEPT !.posted = TRUE] = OrderBill(link)
    BY DEF OrderBill, row, total
  <2> QED BY <1>10, <2>1
<1>12. db'.bill = [db.bill EXCEPT ![b] = OrderBill(link)]
  BY <1>1, <1>2, <1>9, <1>11, DbFields
<1> QED BY <1>1, <1>2, <1>5, <1>9, <1>10, <1>12 DEF BillSet, link, total, line, s

LEMMA BillCreated ==
  ASSUME TypeOK, NEW r \in Requests, CreateBill(r)
  PROVE  LET b == req[r].b
             t == req[r].t
             draft == req[r].draft
         IN /\ req[r].op = "createBill" /\ b \in Bills /\ t \in Amounts /\ draft \in BOOLEAN
            /\ db.bill[b].status = "none" /\ db' \in Db /\ NoReceipt(db, db')
            /\ \E row \in BillRow :
                 /\ BillSet(db, db', b, row) /\ row.link = NoLink /\ row.paid = 0
                 /\ row.total = t /\ row.balance = t /\ row.posted = ~draft
                 /\ row.status = IF draft THEN "draft" ELSE "open"
            /\ db'.credit = db.credit /\ db'.pay = db.pay /\ (~HandGrni => db'.grni = db.grni)
            /\ draft => db'.ap = db.ap /\ db'.owed = db.owed
            /\ ~draft => db'.ap = db.ap + t /\ db'.owed = req[r].owed + t
            /\ spent' = spent
<1> DEFINE c == req[r]
           b == c.b
           s == IF c.draft THEN "draft" ELSE "open"
           row == [NoBill EXCEPT !.status = s, !.total = c.t, !.balance = c.t,
                                 !.hand = c.hand, !.order = c.order]
           d == [db EXCEPT !.bill[b] = row]
<1>1. c.op = "createBill" /\ c \in CreateBillCall /\ db \in Db
  BY CallShapes DEF TypeOK, CreateBill, Serving
<1>2. /\ b \in Bills /\ c.t \in Amounts /\ c.t \in Nat /\ c.t \in Int /\ c.draft \in BOOLEAN
      /\ c.order \in BOOLEAN /\ c.owed \in Int /\ c.hand \in ByHand
  <2>1. /\ b \in Bills /\ c.t \in Amounts /\ c.draft \in BOOLEAN
        /\ c.order \in BOOLEAN /\ c.owed \in Int /\ c.hand \in ByHand
    BY <1>1 DEF CreateBillCall
  <2> QED BY <2>1, AmountsPositive
<1>3. /\ db.bill[b].status = "none" /\ spent' = spent
      /\ db' = IF c.draft THEN d ELSE Posted(d, b, c.owed)
  BY DEF CreateBill, Commit, Then
<1> HIDE DEF c
<1>4. s \in {"draft", "open"}
  OBVIOUS
<1>5. /\ row \in BillRow /\ row.link = NoLink /\ row.paid = 0 /\ row.total = c.t
      /\ row.balance = c.t /\ ~row.posted /\ row.status = s
  <2> HIDE DEF s
  <2> QED BY <1>2, <1>4, NoBillTyped DEF BillRow, OwingStatus
<1> HIDE DEF row, s
<1>6. /\ d \in Db /\ BillSet(db, d, b, row) /\ NoReceipt(db, d) /\ d.credit = db.credit
      /\ d.pay = db.pay /\ d.grni = db.grni /\ d.ap = db.ap /\ d.owed = db.owed
      /\ d.bill[b] = row
  <2>1. [db.bill EXCEPT ![b] = row] \in [Bills -> BillRow]
    BY <1>1, <1>5, DbFields
  <2> QED BY <1>1, <1>2, <2>1, DbFields DEF Db, BillSet, NoReceipt
<1> HIDE DEF d
<1>7. CASE c.draft
  <2>1. db' = d /\ s = "draft"
    BY <1>3, <1>7 DEF s
  <2>2. \E x \in BillRow :
          /\ BillSet(db, db', b, x) /\ x.link = NoLink /\ x.paid = 0
          /\ x.total = c.t /\ x.balance = c.t /\ x.posted = FALSE /\ x.status = "draft"
    BY <1>5, <1>6, <2>1, BillFields
  <2> QED BY <1>1, <1>2, <1>3, <1>6, <1>7, <2>1, <2>2 DEF c
<1>8. CASE ~c.draft
  <2> DEFINE new == [row EXCEPT !.posted = TRUE]
             o == c.owed
  <2>1. db' = Posted(d, b, o) /\ s = "open"
    BY <1>3, <1>8 DEF s
  <2>2. LET e == Posted(d, b, o)
            x == d.bill[b]
        IN /\ e \in Db /\ NoReceipt(d, e) /\ e.credit = d.credit /\ e.pay = d.pay
           /\ BillSet(d, e, b, [x EXCEPT !.posted = TRUE])
           /\ e.grni = d.grni - Debited(x) /\ e.ap = d.ap + x.total
           /\ e.owed = o + x.total
    BY <1>2, <1>6, PostedDb
  <2>3. (~HandGrni => Debited(row) = 0) /\ db.grni \in Int
    BY <1>1, <1>5, NoLinkTyped, ClearedInt, DebitedIs, DbFields
  <2>4. /\ db' \in Db /\ NoReceipt(db, db') /\ db'.credit = db.credit /\ db'.pay = db.pay
        /\ BillSet(d, db', b, new) /\ (~HandGrni => db'.grni = db.grni) /\ db'.ap = db.ap + c.t
        /\ db'.owed = c.owed + c.t
    BY <1>5, <1>6, <2>1, <2>2, <2>3 DEF NoReceipt
  <2>5. BillSet(db, db', b, new)
    BY <1>1, <1>2, <1>6, <2>4, DbFields DEF BillSet
  <2>6. /\ new \in BillRow /\ new.link = NoLink /\ new.paid = 0 /\ new.total = c.t
        /\ new.balance = c.t /\ new.posted = TRUE /\ new.status = "open"
    BY <1>5, <2>1 DEF BillRow
  <2> HIDE DEF new
  <2> QED BY <1>1, <1>2, <1>3, <1>8, <2>4, <2>5, <2>6 DEF c
<1> QED BY <1>2, <1>7, <1>8

LEMMA BillUpdated ==
  ASSUME TypeOK, NEW r \in Requests, UpdateBill(r)
  PROVE  LET b == req[r].b
             t == req[r].t
             seen == req[r].seen
         IN /\ req[r].op = "updateBill" /\ b \in Bills /\ t \in Amounts /\ seen \in BillRow
            /\ db' \in Db /\ NoReceipt(db, db')
            /\ \E row \in BillRow :
                 /\ BillSet(db, db', b, row) /\ row.link = seen.link /\ row.paid = seen.paid
                 /\ row.total = t /\ row.balance = t /\ row.posted = seen.posted
                 /\ row.status = seen.status /\ row.order = seen.order
            /\ db'.credit = db.credit /\ db'.pay = db.pay /\ db'.grni = db.grni
            /\ db'.ap = db.ap /\ db'.owed = db.owed /\ spent' = spent
<1> DEFINE c == req[r]
           b == c.b
           row == [c.seen EXCEPT !.total = c.t, !.balance = c.t, !.hand = c.hand]
<1>1. c.op = "updateBill" /\ c \in UpdateBillCall /\ db \in Db
  BY CallShapes DEF TypeOK, UpdateBill, Serving
<1>2. /\ b \in Bills /\ c.t \in Amounts /\ c.t \in Nat /\ c.t \in Int /\ c.seen \in BillRow
      /\ c.hand \in ByHand
  <2>1. b \in Bills /\ c.t \in Amounts /\ c.hand \in ByHand /\ c.seen \in BillRow
    BY <1>1 DEF UpdateBillCall
  <2> QED BY <2>1, AmountsPositive
<1>3. spent' = spent /\ db' = [db EXCEPT !.bill[b] = row]
  BY DEF UpdateBill, Commit, Then
<1> HIDE DEF c
<1>4. /\ row \in BillRow /\ row.link = c.seen.link /\ row.paid = c.seen.paid /\ row.total = c.t
      /\ row.balance = c.t /\ row.posted = c.seen.posted /\ row.status = c.seen.status
      /\ row.order = c.seen.order
  BY <1>2 DEF BillRow
<1> HIDE DEF row
<1>5. /\ db' \in Db /\ BillSet(db, db', b, row) /\ NoReceipt(db, db') /\ db'.credit = db.credit
      /\ db'.pay = db.pay /\ db'.grni = db.grni /\ db'.ap = db.ap /\ db'.owed = db.owed
  <2>1. [db.bill EXCEPT ![b] = row] \in [Bills -> BillRow]
    BY <1>1, <1>4, DbFields
  <2> QED BY <1>1, <1>2, <1>3, <2>1, DbFields DEF Db, BillSet, NoReceipt
<1> QED BY <1>1, <1>2, <1>3, <1>4, <1>5 DEF c

LEMMA BillPosted ==
  ASSUME TypeOK, NEW r \in Requests, Post(r)
  PROVE  LET b == req[r].b
             old == db.bill[b]
         IN /\ req[r].op = "post" /\ b \in Bills /\ old \in BillRow
            /\ db' \in Db /\ NoReceipt(db, db')
            /\ \E row \in BillRow :
                 /\ BillSet(db, db', b, row) /\ row.link = old.link /\ row.paid = old.paid
                 /\ row.total = old.total /\ row.balance = old.balance /\ row.posted = TRUE
                 /\ row.status = "open" /\ row.order = old.order
            /\ db'.credit = db.credit /\ db'.pay = db.pay
            /\ db'.grni = db.grni - Debited(old)
            /\ db'.ap = db.ap + old.total /\ db'.owed = req[r].owed + old.total
            /\ spent' = spent
<1> DEFINE c == req[r]
           b == c.b
           o == c.owed
           old == db.bill[b]
           row == [old EXCEPT !.status = "open"]
           new == [row EXCEPT !.posted = TRUE]
           d == [db EXCEPT !.bill[b].status = "open"]
<1>1. c.op = "post" /\ c \in PostCall /\ db \in Db
  BY CallShapes DEF TypeOK, Post, Serving
<1>2. b \in Bills /\ o \in Int
  BY <1>1 DEF PostCall
<1>3. spent' = spent /\ db' = Posted(d, b, o)
  BY DEF Post, Commit, Then
<1> HIDE DEF c
<1>4. /\ old \in BillRow /\ row \in BillRow /\ row.link = old.link /\ row.total = old.total
      /\ Debited(row) = Debited(old)
  BY <1>1, <1>2, DbFields DEF BillRow, OwingStatus, Debited
<1>5. /\ new \in BillRow /\ new.link = old.link /\ new.paid = old.paid /\ new.total = old.total
      /\ new.balance = old.balance /\ new.posted = TRUE /\ new.status = "open"
      /\ new.order = old.order
  BY <1>4 DEF BillRow
<1>6. /\ d \in Db /\ d.bill = [db.bill EXCEPT ![b] = row] /\ NoReceipt(db, d)
      /\ d.credit = db.credit /\ d.registered = db.registered
      /\ d.pay = db.pay /\ d.grni = db.grni /\ d.ap = db.ap /\ d.owed = db.owed
  <2>1. [db.bill EXCEPT ![b] = row] \in [Bills -> BillRow]
    BY <1>1, <1>4, DbFields
  <2> DEFINE f == [db.bill EXCEPT ![b] = row]
  <2>2. d = [db EXCEPT !.bill = f]
    BY <1>1 DEF Db
  <2> HIDE DEF f, d
  <2> QED BY <1>1, <1>2, <2>1, <2>2, DbFields DEF Db, NoReceipt, f
<1> HIDE DEF d
<1>7. LET e == Posted(d, b, o)
          x == d.bill[b]
      IN /\ e \in Db /\ NoReceipt(d, e) /\ e.credit = d.credit /\ e.pay = d.pay
         /\ BillSet(d, e, b, [x EXCEPT !.posted = TRUE])
         /\ e.grni = d.grni - Debited(x) /\ e.ap = d.ap + x.total
         /\ e.owed = o + x.total
  BY <1>2, <1>6, PostedDb
<1>8. d.bill[b] = row
  BY <1>1, <1>2, <1>6, DbFields
<1> HIDE DEF row, old
<1>9. /\ db' \in Db /\ NoReceipt(db, db') /\ db'.credit = db.credit /\ db'.pay = db.pay
      /\ BillSet(d, db', b, new)
      /\ db'.grni = db.grni - Debited(old) /\ db'.ap = db.ap + old.total
      /\ db'.owed = o + old.total
  BY <1>3, <1>4, <1>6, <1>7, <1>8 DEF NoReceipt
<1> HIDE DEF new
<1>10. BillSet(db, db', b, new)
  BY <1>1, <1>2, <1>6, <1>9, DbFields DEF BillSet
<1> QED BY <1>1, <1>2, <1>3, <1>4, <1>5, <1>9, <1>10 DEF c, old

(* The lines a deleted bill gives back. *)
LineReleased(row, x) == [row EXCEPT !.billed = Above0(row.billed - x.qty),
                                    !.cleared = row.cleared - x.grni]
LinesReleased(d, link) == [l \in Lines |-> LineReleased(d.line[l], link[l])]

LEMMA LineReleasedRow ==
  ASSUME NEW row \in LineRow, NEW q \in Nat, NEW g \in Int, NEW x, x.qty = q, x.grni = g
  PROVE  LET e == LineReleased(row, x)
         IN /\ e \in LineRow /\ e.ordered = row.ordered /\ e.received = row.received
            /\ e.billed = Above0(row.billed - q) /\ e.accrued = row.accrued
            /\ e.cleared = row.cleared - g
<1> DEFINE m == Above0(row.billed - q)
           c == row.cleared - g
<1>1. m \in Nat /\ c \in Int
  BY LineFields DEF Above0
<1>2. LineReleased(row, x) = [row EXCEPT !.billed = m, !.cleared = c]
  BY DEF LineReleased
<1> HIDE DEF m, c
<1>3. LET e == LineReleased(row, x)
      IN /\ e \in LineRow /\ e.ordered = row.ordered /\ e.received = row.received
         /\ e.billed = m /\ e.accrued = row.accrued /\ e.cleared = c
  BY <1>1, <1>2 DEF LineRow
<1> QED BY <1>3 DEF m, c

LEMMA ReleasedDb ==
  ASSUME NEW d \in Db, NEW row \in BillRow
  PROVE  LET e == Released(d, row)
         IN /\ e \in Db /\ e.registered = d.registered /\ e.bill = d.bill
            /\ e.credit = d.credit /\ e.pay = d.pay /\ e.grni = d.grni /\ e.ap = d.ap
            /\ e.owed = d.owed
            /\ e.line = IF row.order THEN LinesReleased(d, row.link) ELSE d.line
            /\ e.po = d.po \/ (d.po = "closed" /\ e.po \notin {"none", "gone", "closed"})
            /\ e.po = "closed" => ~row.order
<1> DEFINE line == LinesReleased(d, row.link)
           s == IF d.po = "closed" THEN DeriveStatus(line, TRUE) ELSE d.po
<1>1. line \in [Lines -> LineRow]
  <2>1. \A l \in Lines : /\ d.line[l] \in LineRow
                         /\ row.link[l].qty \in Nat /\ row.link[l].grni \in Int
    BY DbFields, BillFields, LinkFields
  <2>2. \A l \in Lines : LineReleased(d.line[l], row.link[l]) \in LineRow
    BY <2>1, LineReleasedRow
  <2> QED BY <2>2 DEF LinesReleased
<1>2. /\ s \in OrderStatus
      /\ s = d.po \/ (d.po = "closed" /\ s \notin {"none", "gone", "closed"})
      /\ s # "closed"
  BY StatusTyped, DbFields DEF DeriveStatus
<1>3. Released(d, row) = IF row.order THEN [d EXCEPT !.line = line, !.po = s] ELSE d
  BY DEF Released, LinesReleased, LineReleased, Db
<1> HIDE DEF line, s
<1>4. CASE row.order
  BY <1>1, <1>2, <1>3, <1>4, ZenonT(60) DEF Db, line
<1>5. CASE ~row.order
  BY <1>3, <1>5
<1> QED BY <1>4, <1>5

LEMMA BillDeleted ==
  ASSUME TypeOK, NEW r \in Requests, DeleteBill(r)
  PROVE  LET b == req[r].b
             seen == req[r].seen
         IN /\ req[r].op = "deleteBill" /\ b \in Bills /\ seen \in BillRow
            /\ db' \in Db
            /\ BillSet(db, db', b, [NoBill EXCEPT !.status = "gone"])
            /\ db'.line = IF seen.order THEN LinesReleased(db, seen.link) ELSE db.line
            /\ db'.po = db.po \/ (db.po = "closed" /\ db'.po \notin {"none", "gone", "closed"})
            /\ db'.po = "closed" => ~seen.order
            /\ db'.credit = db.credit /\ db'.pay = db.pay
            /\ db'.grni = IF seen.posted THEN db.grni + Debited(seen) ELSE db.grni
            /\ db'.ap = IF seen.posted THEN db.ap - seen.total ELSE db.ap
            /\ db'.owed = IF seen.posted THEN db.owed - seen.total ELSE db.owed
            /\ spent' = spent
<1> DEFINE c == req[r]
           b == c.b
           seen == c.seen
           gone == [NoBill EXCEPT !.status = "gone"]
           g == db.grni + Debited(seen)
           a == db.ap - seen.total
           o == db.owed - seen.total
           d == IF ~seen.posted THEN db ELSE [db EXCEPT !.grni = g, !.ap = a, !.owed = o]
           e == Released(d, seen)
<1>1. c.op = "deleteBill" /\ c \in DeleteBillCall /\ db \in Db
  BY CallShapes DEF TypeOK, DeleteBill, Serving
<1>2. b \in Bills /\ seen \in BillRow
  BY <1>1 DEF DeleteBillCall
<1>3. spent' = spent /\ db' = [e EXCEPT !.bill[b] = gone]
  BY <1>1 DEF DeleteBill, Commit, Then, Db
<1> HIDE DEF c, e, d, seen, gone
<1>4. g \in Int /\ a \in Int /\ o \in Int
  BY <1>1, <1>2, DebitedIs, BillFields, DbFields
<1>5. gone \in BillRow
  BY NoBillTyped DEF gone, BillRow
<1> HIDE DEF g, a, o
<1>6. /\ d \in Db /\ d.registered = db.registered /\ d.bill = db.bill /\ d.line = db.line
      /\ d.po = db.po /\ d.credit = db.credit /\ d.pay = db.pay
      /\ d.grni = IF seen.posted THEN g ELSE db.grni
      /\ d.ap = IF seen.posted THEN a ELSE db.ap
      /\ d.owed = IF seen.posted THEN o ELSE db.owed
  BY <1>1, <1>4 DEF d, Db
<1>7. /\ e \in Db /\ e.registered = d.registered /\ e.bill = d.bill
      /\ e.credit = d.credit /\ e.pay = d.pay /\ e.grni = d.grni /\ e.ap = d.ap
      /\ e.owed = d.owed
      /\ e.line = IF seen.order THEN LinesReleased(d, seen.link) ELSE d.line
      /\ e.po = d.po \/ (d.po = "closed" /\ e.po \notin {"none", "gone", "closed"})
      /\ e.po = "closed" => ~seen.order
  BY <1>2, <1>6, ReleasedDb DEF e
<1>8. LinesReleased(d, seen.link) = LinesReleased(db, seen.link)
  BY <1>6 DEF LinesReleased
<1> DEFINE f == [e.bill EXCEPT ![b] = gone]
<1>9. f \in [Bills -> BillRow] /\ f = [db.bill EXCEPT ![b] = gone]
  BY <1>1, <1>5, <1>6, <1>7, DbFields
<1>10. db' = [e EXCEPT !.bill = f]
  BY <1>3, <1>7 DEF Db
<1> HIDE DEF f
<1>11. /\ db' \in Db /\ db'.registered = e.registered /\ db'.bill = f
       /\ db'.credit = e.credit /\ db'.pay = e.pay /\ db'.grni = e.grni /\ db'.ap = e.ap
       /\ db'.owed = e.owed /\ db'.line = e.line /\ db'.po = e.po
  BY <1>7, <1>9, <1>10 DEF Db
<1> QED BY <1>1, <1>2, <1>3, <1>6, <1>7, <1>8, <1>9, <1>11 DEF BillSet, c, seen, g, a, o, gone

-----------------------------------------------------------------------------
(* Payments and credits *)

LEMMA PaidByRow ==
  ASSUME NEW row \in BillRow, NEW a \in Nat
  PROVE  LET e == PaidBy(row, a)
         IN /\ e \in BillRow /\ e.total = row.total /\ e.posted = row.posted
            /\ e.order = row.order /\ e.link = row.link /\ e.paid = row.paid + a
            /\ e.balance = row.total - (row.paid + a) /\ e.status \in OwingStatus
<1> DEFINE paid == row.paid + a
           left == row.total - paid
           s == IF paid = row.total THEN "paid" ELSE "partial"
<1>1. paid \in Nat /\ left \in Int /\ s \in OwingStatus
  BY BillFields DEF OwingStatus
<1>2. PaidBy(row, a) = [row EXCEPT !.paid = paid, !.balance = left, !.status = s]
  BY DEF PaidBy
<1> HIDE DEF paid, left, s
<1>3. LET e == PaidBy(row, a)
      IN /\ e \in BillRow /\ e.total = row.total /\ e.posted = row.posted
         /\ e.order = row.order /\ e.link = row.link /\ e.paid = paid
         /\ e.balance = left /\ e.status \in OwingStatus
  BY <1>1, <1>2 DEF BillRow
<1> QED BY <1>3 DEF paid, left

(* A payment, and the bills it pays. *)
PaymentOn(on, proof) == [proof |-> proof, on |-> on]
PaidRow(row, a) == IF a > 0 THEN PaidBy(row, a) ELSE row
PaidRows(d, on) == [b \in Bills |-> PaidRow(d.bill[b], on[b])]

LEMMA SharesTyped ==
  ASSUME NEW on \in Shares
  PROVE  on \in [Bills -> Nat]
<1>1. on \in [Bills -> Amounts \cup {0}]
  BY DEF Shares
<1>2. \A x \in Amounts \cup {0} : x \in Nat
  BY SetsFinite
<1> QED BY <1>1, <1>2

LEMMA SharesAddUp ==
  ASSUME NEW on \in [Bills -> Nat]
  PROVE  Sum(on, Bills) \in Nat
  BY SetsFinite, SumNat

LEMMA PaidRowIs ==
  ASSUME NEW row \in BillRow, NEW a \in Nat
  PROVE  LET e == PaidRow(row, a)
         IN /\ e \in BillRow /\ e.total = row.total /\ e.posted = row.posted
            /\ e.order = row.order /\ e.link = row.link /\ e.paid = row.paid + a
            /\ a = 0 => e = row
            /\ a > 0 => e.balance = row.total - (row.paid + a) /\ e.status \in OwingStatus
<1>1. CASE a > 0
  BY <1>1, PaidByRow DEF PaidRow
<1>2. CASE a = 0
  BY <1>2, BillFields DEF PaidRow
<1> QED BY <1>1, <1>2

LEMMA PaidRowsTyped ==
  ASSUME NEW d \in Db, NEW on \in [Bills -> Nat]
  PROVE  PaidRows(d, on) \in [Bills -> BillRow]
<1>1. \A b \in Bills : d.bill[b] \in BillRow /\ on[b] \in Nat
  BY DbFields
<1>2. \A b \in Bills : PaidRow(d.bill[b], on[b]) \in BillRow
  BY <1>1, PaidRowIs
<1> QED BY <1>2 DEF PaidRows

LEMMA PaidInCashDb ==
  ASSUME NEW d \in Db, NEW p \in Payments, NEW on \in [Bills -> Nat],
         NEW proof \in Proofs, NEW owed \in Int
  PROVE  LET e == PaidInCash(d, p, on, proof, owed)
             total == Sum(on, Bills)
         IN /\ e \in Db /\ NoReceipt(d, e) /\ e.bill = PaidRows(d, on)
            /\ e.registered = d.registered /\ e.credit = d.credit
            /\ e.pay = [d.pay EXCEPT ![p] = PaymentOn(on, proof)]
            /\ e.grni = d.grni /\ e.ap = d.ap - total /\ e.owed = owed - total
<1> DEFINE total == Sum(on, Bills)
           f == PaidRows(d, on)
           g == [d.pay EXCEPT ![p] = PaymentOn(on, proof)]
           u == d.used \cup {proof}
           o == owed - total
           x == d.ap - total
           y == d.bank - total
<1>1. PaymentOn(on, proof) \in PayRow
  BY DEF PaymentOn, PayRow
<1>2. f \in [Bills -> BillRow] /\ g \in [Payments -> PayRow] /\ u \in SUBSET (Proofs)
  BY <1>1, PaidRowsTyped, DbFields
<1>3. o \in Int /\ x \in Int /\ y \in Int
  BY SharesAddUp, DbFields
<1>4. PaidInCash(d, p, on, proof, owed)
        = [d EXCEPT !.bill = f, !.pay = g, !.used = u, !.owed = o, !.ap = x, !.bank = y]
  BY DEF PaidInCash, PaymentOn, PaidRows, PaidRow, Db
<1> HIDE DEF f, g, u, o, x, y
<1>5. LET e == PaidInCash(d, p, on, proof, owed)
      IN /\ e \in Db /\ NoReceipt(d, e) /\ e.bill = f /\ e.registered = d.registered
         /\ e.credit = d.credit /\ e.pay = g /\ e.grni = d.grni /\ e.ap = x /\ e.owed = o
  BY <1>2, <1>3, <1>4, ZenonT(60) DEF Db, NoReceipt
<1> QED BY <1>5 DEF f, g, o, x

(* A credit that pays a. *)
CreditUsed(row, a) ==
  LET left == row.total - (row.applied + a)
  IN [row EXCEPT !.applied = @ + a, !.balance = left,
                 !.status = IF left <= 0 THEN "closed" ELSE "applied"]

LEMMA CreditUsedRow ==
  ASSUME NEW row \in CreditRow, NEW a \in Nat
  PROVE  LET e == CreditUsed(row, a)
         IN /\ e \in CreditRow /\ e.total = row.total /\ e.applied = row.applied + a
            /\ e.balance = row.total - (row.applied + a) /\ e.status \in LiveStatus
<1> DEFINE applied == row.applied + a
           left == row.total - applied
           s == IF left <= 0 THEN "closed" ELSE "applied"
<1>1. applied \in Nat /\ left \in Int /\ s \in LiveStatus
  BY CreditFields DEF LiveStatus
<1>2. CreditUsed(row, a) = [row EXCEPT !.applied = applied, !.balance = left, !.status = s]
  BY DEF CreditUsed
<1> HIDE DEF applied, left, s
<1>3. LET e == CreditUsed(row, a)
      IN /\ e \in CreditRow /\ e.total = row.total /\ e.applied = applied
         /\ e.balance = left /\ e.status \in LiveStatus
  BY <1>1, <1>2 DEF CreditRow
<1> QED BY <1>3 DEF applied, left

LEMMA CreditedDb ==
  ASSUME NEW d \in Db, NEW c \in Credits, NEW b \in Bills, NEW a \in Nat
  PROVE  LET e == Credited(d, c, b, a)
         IN /\ e \in Db /\ NoReceipt(d, e) /\ BillSet(d, e, b, PaidBy(d.bill[b], a))
            /\ e.credit = [d.credit EXCEPT ![c] = CreditUsed(d.credit[c], a)]
            /\ e.pay = d.pay /\ e.grni = d.grni /\ e.ap = d.ap /\ e.owed = d.owed
<1> DEFINE f == [d.bill EXCEPT ![b] = PaidBy(d.bill[b], a)]
           g == [d.credit EXCEPT ![c] = CreditUsed(d.credit[c], a)]
<1>1. PaidBy(d.bill[b], a) \in BillRow /\ CreditUsed(d.credit[c], a) \in CreditRow
  BY DbFields, PaidByRow, CreditUsedRow
<1>2. f \in [Bills -> BillRow] /\ g \in [Credits -> CreditRow]
  BY <1>1, DbFields
<1>3. Credited(d, c, b, a) = [d EXCEPT !.bill = f, !.credit = g]
  <2>1. Credited(d, c, b, a) = [d EXCEPT !.bill[b] = PaidBy(@, a),
                                         !.credit[c] = CreditUsed(@, a)]
    BY DEF Credited, CreditUsed
  <2> QED BY <2>1 DEF Db
<1> HIDE DEF f, g
<1>4. LET e == Credited(d, c, b, a)
      IN /\ e \in Db /\ NoReceipt(d, e) /\ e.bill = f /\ e.registered = d.registered
         /\ e.credit = g /\ e.pay = d.pay /\ e.grni = d.grni /\ e.ap = d.ap /\ e.owed = d.owed
  BY <1>2, <1>3 DEF Db, NoReceipt
<1> QED BY <1>4 DEF BillSet, f, g

LEMMA BillPaid ==
  ASSUME TypeOK, NEW r \in Requests, Pay(r)
  PROVE  \E p \in Payments :
           LET on == req[r].on
               proof == req[r].proof
           IN /\ req[r].op = "pay" /\ on \in [Bills -> Nat] /\ MayPayAll(db, on)
              /\ BillsFree(on) /\ db.pay[p] = NoPayment /\ db' \in Db /\ NoReceipt(db, db')
              /\ db'.bill = PaidRows(db, on) /\ db'.registered = db.registered
              /\ db'.credit = db.credit
              /\ db'.pay = [db.pay EXCEPT ![p] = PaymentOn(on, proof)]
              /\ db'.grni = db.grni /\ db'.ap = db.ap - Sum(on, Bills)
              /\ db'.owed = req[r].owed - Sum(on, Bills) /\ spent' = spent
<1>1. req[r].op = "pay" /\ req[r] \in PayCall /\ db \in Db
  BY CallShapes DEF TypeOK, Pay, Serving
<1>2. req[r].on \in Shares /\ req[r].proof \in Proofs /\ req[r].owed \in Int
  BY <1>1 DEF PayCall
<1>3. req[r].on \in [Bills -> Nat]
  BY <1>2, SharesTyped
<1>4. PICK p \in Payments :
        /\ db.pay[p] = NoPayment /\ spent' = spent
        /\ db' = PaidInCash(db, p, req[r].on, req[r].proof, req[r].owed)
  BY DEF Pay, Commit, Then
<1>5. MayPayAll(db, req[r].on) /\ BillsFree(req[r].on)
  BY DEF Pay
<1> DEFINE on == req[r].on
           proof == req[r].proof
           owed == req[r].owed
           e == db'
<1>6. on \in [Bills -> Nat] /\ proof \in Proofs /\ owed \in Int /\ db \in Db
  BY <1>1, <1>2, <1>3
<1>7. e = PaidInCash(db, p, on, proof, owed)
  BY <1>4
<1> HIDE DEF on, proof, owed, e
<1>8. /\ e \in Db /\ NoReceipt(db, e) /\ e.bill = PaidRows(db, on)
      /\ e.registered = db.registered /\ e.credit = db.credit
      /\ e.pay = [db.pay EXCEPT ![p] = PaymentOn(on, proof)]
      /\ e.grni = db.grni /\ e.ap = db.ap - Sum(on, Bills) /\ e.owed = owed - Sum(on, Bills)
  BY <1>6, <1>7, PaidInCashDb
<1> QED BY <1>1, <1>4, <1>5, <1>6, <1>8 DEF on, proof, owed, e

LEMMA CreditApplied ==
  ASSUME TypeOK, ApplyCredit
  PROVE  \E c \in Credits, b \in Bills, a \in Amounts :
           /\ MayCredit(db, c, b, a) /\ BillFree(b)
           /\ db' \in Db /\ NoReceipt(db, db') /\ BillSet(db, db', b, PaidBy(db.bill[b], a))
           /\ db'.credit = [db.credit EXCEPT ![c] = CreditUsed(db.credit[c], a)]
           /\ db'.pay = db.pay /\ db'.grni = db.grni /\ db'.ap = db.ap
           /\ db'.owed = db.owed /\ spent' = [spent EXCEPT ![c][b] = @ + a]
<1>1. PICK c \in LiveCredits(db), b \in Owing(db), a \in Amounts :
        /\ BillFree(b) /\ MayCredit(db, c, b, a)
        /\ AtOnce(Credited(db, c, b, a))
        /\ spent' = [spent EXCEPT ![c][b] = @ + a]
  BY DEF ApplyCredit
<1>2. c \in Credits /\ b \in Bills /\ a \in Nat /\ db \in Db
  BY AmountsPositive DEF LiveCredits, Owing, TypeOK
<1>3. db' = Credited(db, c, b, a)
  BY <1>1 DEF AtOnce
<1>4. LET e == Credited(db, c, b, a)
      IN /\ e \in Db /\ NoReceipt(db, e) /\ BillSet(db, e, b, PaidBy(db.bill[b], a))
         /\ e.credit = [db.credit EXCEPT ![c] = CreditUsed(db.credit[c], a)]
         /\ e.pay = db.pay /\ e.grni = db.grni /\ e.ap = db.ap /\ e.owed = db.owed
  BY <1>2, CreditedDb
<1> QED BY <1>1, <1>2, <1>3, <1>4

(* Bills settled by a of a credit on one of them, and cash on some. *)
SettledWith(c, b, a, on, p, proof) ==
  LET m == Credited(db, c, b, a)
  IN /\ MayCredit(db, c, b, a) /\ BillFree(b) /\ MayPayAll(m, on)
     /\ db.pay[p] = NoPayment /\ on \in [Bills -> Nat]
     /\ db' \in Db /\ NoReceipt(db, db') /\ db'.bill = PaidRows(m, on)
     /\ db'.registered = db.registered
     /\ db'.credit = [db.credit EXCEPT ![c] = CreditUsed(db.credit[c], a)]
     /\ db'.pay = [db.pay EXCEPT ![p] = PaymentOn(on, proof)]
     /\ db'.grni = db.grni /\ db'.ap = db.ap - Sum(on, Bills)
     /\ db'.owed = db.owed - Sum(on, Bills) /\ spent' = [spent EXCEPT ![c][b] = @ + a]

LEMMA BillSettled ==
  ASSUME TypeOK, Settle
  PROVE  \E c \in Credits, b \in Bills, a \in Amounts, on \in Shares, p \in Payments,
            proof \in Proofs : SettledWith(c, b, a, on, p, proof)
<1>1. PICK c \in LiveCredits(db), b \in Owing(db), a \in Amounts, on \in Shares,
           proof \in Proofs \ db.used, p \in Payments :
        /\ BillFree(b) /\ MayCredit(db, c, b, a)
        /\ MayPayAll(Credited(db, c, b, a), on)
        /\ db.pay[p] = NoPayment
        /\ AtOnce(PaidInCash(Credited(db, c, b, a), p, on, proof, db.owed))
        /\ spent' = [spent EXCEPT ![c][b] = @ + a]
  BY ZenonT(60) DEF Settle
<1> DEFINE d == Credited(db, c, b, a)
           o == db.owed
<1>2. /\ c \in Credits /\ b \in Bills /\ a \in Nat /\ on \in [Bills -> Nat]
      /\ proof \in Proofs /\ db \in Db /\ o \in Int
  BY AmountsPositive, SharesTyped, DbFields DEF LiveCredits, Owing, TypeOK
<1>3. db' = PaidInCash(d, p, on, proof, o) /\ MayPayAll(d, on)
  BY <1>1 DEF AtOnce
<1>4. /\ d \in Db /\ NoReceipt(db, d) /\ d.registered = db.registered
      /\ d.credit = [db.credit EXCEPT ![c] = CreditUsed(db.credit[c], a)]
      /\ d.pay = db.pay /\ d.grni = db.grni /\ d.ap = db.ap /\ d.owed = db.owed
  <2>1. LET e == Credited(db, c, b, a)
        IN /\ e \in Db /\ NoReceipt(db, e) /\ BillSet(db, e, b, PaidBy(db.bill[b], a))
           /\ e.credit = [db.credit EXCEPT ![c] = CreditUsed(db.credit[c], a)]
           /\ e.pay = db.pay /\ e.grni = db.grni /\ e.ap = db.ap /\ e.owed = db.owed
    BY <1>2, CreditedDb
  <2> QED BY <2>1 DEF BillSet
<1> HIDE DEF d
<1>5. LET e == PaidInCash(d, p, on, proof, o)
      IN /\ e \in Db /\ NoReceipt(d, e) /\ e.bill = PaidRows(d, on)
         /\ e.registered = d.registered
         /\ e.credit = d.credit /\ e.pay = [d.pay EXCEPT ![p] = PaymentOn(on, proof)]
         /\ e.grni = d.grni /\ e.ap = d.ap - Sum(on, Bills) /\ e.owed = o - Sum(on, Bills)
  BY <1>2, <1>4, PaidInCashDb
<1>6. /\ db' \in Db /\ NoReceipt(db, db') /\ db'.bill = PaidRows(d, on)
      /\ db'.registered = db.registered
      /\ db'.credit = [db.credit EXCEPT ![c] = CreditUsed(db.credit[c], a)]
      /\ db'.pay = [db.pay EXCEPT ![p] = PaymentOn(on, proof)]
      /\ db'.grni = db.grni /\ db'.ap = db.ap - Sum(on, Bills)
      /\ db'.owed = db.owed - Sum(on, Bills)
  BY <1>3, <1>4, <1>5 DEF NoReceipt
<1>7. SettledWith(c, b, a, on, p, proof)
  BY <1>1, <1>2, <1>3, <1>6 DEF d, SettledWith
<1> QED BY <1>2, <1>7

LEMMA CreditCreated ==
  ASSUME TypeOK, NEW r \in Requests, CreateCredit(r)
  PROVE  LET c == req[r].c
             t == req[r].t
         IN /\ req[r].op = "createCredit" /\ c \in Credits /\ t \in Amounts
            /\ db.credit[c].status = "none" /\ db' \in Db /\ SameOrder(db, db')
            /\ db'.bill = db.bill /\ db'.pay = db.pay
            /\ \E row \in CreditRow :
                 /\ db'.credit = [db.credit EXCEPT ![c] = row]
                 /\ row.status = "open" /\ row.applied = 0 /\ row.total = t /\ row.balance = t
            /\ db'.ap = db.ap - t /\ db'.owed = req[r].owed - t /\ spent' = spent
<1> DEFINE c == req[r].c
           t == req[r].t
           row == [status |-> "open", total |-> t, applied |-> 0, balance |-> t]
           f == [db.credit EXCEPT ![c] = row]
           a == db.ap - t
           o == req[r].owed - t
<1>1. req[r].op = "createCredit" /\ req[r] \in CreateCreditCall /\ db \in Db
  BY CallShapes DEF TypeOK, CreateCredit, Serving
<1>2. c \in Credits /\ t \in Amounts /\ req[r].owed \in Int
  BY <1>1 DEF CreateCreditCall
<1>3. t \in Nat /\ t \in Int
  BY <1>2, AmountsPositive
<1>4. /\ row \in CreditRow /\ row.status = "open" /\ row.applied = 0 /\ row.total = t
      /\ row.balance = t
  BY <1>3 DEF CreditRow, LiveStatus
<1>5. f \in [Credits -> CreditRow] /\ a \in Int /\ o \in Int
  BY <1>1, <1>2, <1>3, <1>4, DbFields
<1>6. /\ db.credit[c].status = "none" /\ spent' = spent
      /\ db' = [db EXCEPT !.credit = f, !.ap = a, !.owed = o]
  BY <1>1 DEF CreateCredit, Commit, Then, Db
<1> HIDE DEF row, a, o, f
<1>7. /\ db' \in Db /\ SameOrder(db, db') /\ db'.bill = db.bill /\ db'.pay = db.pay
      /\ db'.credit = f /\ db'.ap = a /\ db'.owed = o
  BY <1>1, <1>5, <1>6 DEF Db, SameOrder
<1> QED BY <1>1, <1>2, <1>4, <1>6, <1>7 DEF f, a, o

LEMMA CreditVoided ==
  ASSUME TypeOK, NEW r \in Requests, VoidCredit(r)
  PROVE  LET c == req[r].c
             seen == req[r].seen
         IN /\ req[r].op = "voidCredit" /\ c \in Credits /\ seen \in CreditRow
            /\ db' \in Db /\ SameOrder(db, db')
            /\ db'.bill = db.bill /\ db'.pay = db.pay
            /\ \E row \in CreditRow :
                 /\ db'.credit = [db.credit EXCEPT ![c] = row]
                 /\ row.status = "void" /\ row.applied = seen.applied
            /\ db'.ap = db.ap + seen.total /\ db'.owed = db.owed + seen.total
            /\ spent' = spent
<1> DEFINE c == req[r].c
           seen == req[r].seen
           row == [seen EXCEPT !.status = "void", !.balance = 0]
           f == [db.credit EXCEPT ![c] = row]
           a == db.ap + seen.total
           o == db.owed + seen.total
<1>1. req[r].op = "voidCredit" /\ req[r] \in VoidCreditCall /\ db \in Db
  BY CallShapes DEF TypeOK, VoidCredit, Serving
<1>2. c \in Credits /\ seen \in CreditRow
  BY <1>1 DEF VoidCreditCall
<1>3. spent' = spent /\ db' = [db EXCEPT !.credit = f, !.ap = a, !.owed = o]
  BY <1>1 DEF VoidCredit, Then, Db
<1> HIDE DEF seen
<1>4. row \in CreditRow /\ row.status = "void" /\ row.applied = seen.applied
  <2>1. "void" \in LiveStatus \cup {"none", "void", "gone"} /\ 0 \in Int
    OBVIOUS
  <2> HIDE DEF c, f, a, o
  <2> QED BY <1>2, <2>1 DEF CreditRow
<1>5. f \in [Credits -> CreditRow] /\ a \in Int /\ o \in Int
  BY <1>1, <1>2, <1>4, DbFields, CreditFields
<1> HIDE DEF row, a, o, f
<1>6. /\ db' \in Db /\ SameOrder(db, db') /\ db'.bill = db.bill /\ db'.pay = db.pay
      /\ db'.credit = f /\ db'.ap = a /\ db'.owed = o
  BY <1>1, <1>3, <1>5 DEF Db, SameOrder
<1> QED BY <1>1, <1>2, <1>3, <1>4, <1>6 DEF f, a, o, seen

LEMMA CreditRemoved ==
  ASSUME TypeOK, NEW r \in Requests, RemoveCredit(r)
  PROVE  LET c == req[r].c
         IN /\ req[r].op = "removeCredit" /\ c \in Credits
            /\ db' \in Db /\ SameOrder(db, db')
            /\ db'.bill = db.bill /\ db'.pay = db.pay
            /\ db'.credit = [db.credit EXCEPT ![c] = [NoCredit EXCEPT !.status = "gone"]]
            /\ db'.ap = db.ap /\ db'.owed = db.owed /\ spent' = spent
<1> DEFINE c == req[r].c
           row == [NoCredit EXCEPT !.status = "gone"]
           f == [db.credit EXCEPT ![c] = row]
<1>1. req[r].op = "removeCredit" /\ req[r] \in RemoveCreditCall /\ db \in Db
  BY CallShapes DEF TypeOK, RemoveCredit, Serving
<1>2. c \in Credits
  BY <1>1 DEF RemoveCreditCall
<1>3. spent' = spent /\ db' = [db EXCEPT !.credit = f]
  BY <1>1 DEF RemoveCredit, Commit, Then, Db
<1>4. row \in CreditRow
  BY NoCreditTyped DEF CreditRow
<1> HIDE DEF row
<1>5. f \in [Credits -> CreditRow]
  BY <1>1, <1>4, DbFields
<1> HIDE DEF f
<1>6. /\ db' \in Db /\ SameOrder(db, db') /\ db'.bill = db.bill /\ db'.pay = db.pay
      /\ db'.credit = f /\ db'.ap = db.ap /\ db'.owed = db.owed
  BY <1>1, <1>3, <1>5, DbFields DEF Db, SameOrder
<1> QED BY <1>1, <1>2, <1>3, <1>6 DEF f, row

-----------------------------------------------------------------------------
(* Requests *)

(* What is asked is as the database says when it is asked.                  *)
AskedNow(c) ==
  /\ c.op \in ReadsOwed => c.owed = db.owed
  /\ c.op = "post" => BillFree(c.b)
  /\ c.op \notin {"idle", "removeCredit"}
  /\ Current(db, c)

LEMMA Asked ==
  ASSUME TypeOK, NEW r \in Requests, AskStep(r)
  PROVE  \E c \in Calls : Ask(r, c) /\ AskedNow(c)
<1>1. db \in Db /\ db.owed \in Int
  BY DbFields DEF TypeOK
<1>2. CASE AskBillOrder(r)
  <2>1. PICK b \in Bills : Ask(r, [op |-> "billOrder", b |-> b, owed |-> db.owed])
    BY <1>2 DEF AskBillOrder
  <2> DEFINE c == [op |-> "billOrder", b |-> b, owed |-> db.owed]
  <2>2. c \in BillOrderCall /\ AskedNow(c)
    BY <1>1 DEF BillOrderCall, AskedNow, Current, ReadsOwed
  <2> QED BY <2>1, <2>2 DEF Calls
<1>3. CASE AskCreateBill(r)
  <2>1. PICK b \in Bills, t \in Amounts, hand \in ByHand, draft \in BOOLEAN, order \in BOOLEAN :
          Ask(r, [op |-> "createBill", b |-> b, t |-> t, hand |-> hand, draft |-> draft,
                  order |-> order, owed |-> db.owed])
    BY <1>3 DEF AskCreateBill
  <2> DEFINE c == [op |-> "createBill", b |-> b, t |-> t, hand |-> hand, draft |-> draft,
                   order |-> order, owed |-> db.owed]
  <2>2. c \in CreateBillCall /\ AskedNow(c)
    BY <1>1 DEF CreateBillCall, AskedNow, Current, ReadsOwed
  <2> QED BY <2>1, <2>2 DEF Calls
<1>4. CASE AskUpdateBill(r)
  <2>1. PICK b \in Bills, t \in Amounts, hand \in ByHand :
          /\ db.bill[b].status = "draft"
          /\ Ask(r, [op |-> "updateBill", b |-> b, t |-> t, hand |-> hand, seen |-> db.bill[b]])
    BY <1>4 DEF AskUpdateBill
  <2> DEFINE c == [op |-> "updateBill", b |-> b, t |-> t, hand |-> hand, seen |-> db.bill[b]]
  <2>2. db.bill[b] \in BillRow
    BY <1>1, DbFields
  <2>3. c \in UpdateBillCall /\ AskedNow(c)
    BY <2>1, <2>2 DEF UpdateBillCall, AskedNow, Current, ReadsOwed
  <2> QED BY <2>1, <2>3 DEF Calls
<1>5. CASE AskPost(r)
  <2>1. PICK b \in Bills :
          /\ BillFree(b) /\ db.bill[b].status = "draft"
          /\ Ask(r, [op |-> "post", b |-> b, owed |-> db.owed])
    BY <1>5 DEF AskPost
  <2> DEFINE c == [op |-> "post", b |-> b, owed |-> db.owed]
  <2>2. c \in PostCall /\ AskedNow(c)
    BY <1>1, <2>1 DEF PostCall, AskedNow, Current, ReadsOwed
  <2> QED BY <2>1, <2>2 DEF Calls
<1>6. CASE AskDeleteBill(r)
  <2>1. PICK b \in Bills :
          MayDelete(db.bill[b]) /\ Ask(r, [op |-> "deleteBill", b |-> b, seen |-> db.bill[b]])
    BY <1>6 DEF AskDeleteBill
  <2> DEFINE c == [op |-> "deleteBill", b |-> b, seen |-> db.bill[b]]
  <2>2. db.bill[b] \in BillRow
    BY <1>1, DbFields
  <2>3. c \in DeleteBillCall /\ AskedNow(c)
    BY <2>1, <2>2 DEF DeleteBillCall, AskedNow, Current, ReadsOwed
  <2> QED BY <2>1, <2>3 DEF Calls
<1>7. CASE AskPay(r)
  <2>1. PICK on \in Shares, proof \in Proofs \ db.used :
          Ask(r, [op |-> "pay", on |-> on, proof |-> proof, owed |-> db.owed])
    BY <1>7 DEF AskPay
  <2> DEFINE c == [op |-> "pay", on |-> on, proof |-> proof, owed |-> db.owed]
  <2>2. proof \in Proofs
    OBVIOUS
  <2>3. c \in PayCall /\ AskedNow(c)
    BY <1>1, <2>2 DEF PayCall, AskedNow, Current, ReadsOwed
  <2> QED BY <2>1, <2>3 DEF Calls
<1>8. CASE AskCreateCredit(r)
  <2>1. PICK c \in Credits, t \in Amounts :
          Ask(r, [op |-> "createCredit", c |-> c, t |-> t, owed |-> db.owed])
    BY <1>8 DEF AskCreateCredit
  <2> DEFINE k == [op |-> "createCredit", c |-> c, t |-> t, owed |-> db.owed]
  <2>2. k \in CreateCreditCall /\ AskedNow(k)
    BY <1>1 DEF CreateCreditCall, AskedNow, Current, ReadsOwed
  <2> QED BY <2>1, <2>2 DEF Calls
<1>9. CASE AskVoidCredit(r)
  <2>1. PICK c \in Credits, remove \in BOOLEAN :
          /\ MayVoid(db.credit[c])
          /\ Ask(r, [op |-> "voidCredit", c |-> c, seen |-> db.credit[c], remove |-> remove])
    BY <1>9 DEF AskVoidCredit
  <2> DEFINE k == [op |-> "voidCredit", c |-> c, seen |-> db.credit[c], remove |-> remove]
  <2>2. db.credit[c] \in CreditRow
    BY <1>1, DbFields
  <2>3. k \in VoidCreditCall /\ AskedNow(k)
    BY <2>1, <2>2 DEF VoidCreditCall, AskedNow, Current, ReadsOwed
  <2> QED BY <2>1, <2>3 DEF Calls
<1> QED BY <1>2, <1>3, <1>4, <1>5, <1>6, <1>7, <1>8, <1>9 DEF AskStep

(* Afterwards a request is done, or has a credit to remove.                 *)
After(c) ==
  IF c.op = "voidCredit" /\ c.remove THEN [op |-> "removeCredit", c |-> c.c] ELSE Done

LEMMA Served ==
  ASSUME TypeOK, NEW r \in Requests, ServeStep(r)
  PROVE  /\ ~Idle(r) /\ req' = [req EXCEPT ![r] = After(req[r])] /\ After(req[r]) \in Calls
         /\ writes' \in Nat /\ apart' = apart
<1> DEFINE c == req[r]
<1>1. c \in Calls /\ writes \in Nat
  BY DEF TypeOK
<1>2. CASE VoidCredit(r)
  <2>1. c \in VoidCreditCall /\ c.op = "voidCredit"
    BY <1>1, <1>2, CallShapes DEF VoidCredit, Serving
  <2>2. After(c) \in Calls
    <3>1. CASE c.remove
      <4>1. [op |-> "removeCredit", c |-> c.c] \in RemoveCreditCall
        BY <2>1 DEF VoidCreditCall, RemoveCreditCall
      <4> QED BY <2>1, <3>1, <4>1 DEF After, Calls
    <3>2. CASE ~c.remove
      BY <3>2 DEF After, Calls
    <3> QED BY <3>1, <3>2
  <2> QED BY <1>1, <1>2, <2>1, <2>2 DEF VoidCredit, Then, After, Idle
<1>3. CASE ~VoidCredit(r)
  <2>1. \E d : Commit(r, d) /\ c.op \notin {"idle", "voidCredit"}
    BY <1>3 DEF ServeStep, BillOrder, CreateBill, UpdateBill, Post, DeleteBill, Pay,
                CreateCredit, RemoveCredit, Serving
  <2>2. After(c) = Done /\ Done \in Calls
    BY <2>1 DEF After, Calls
  <2>3. req' = [req EXCEPT ![r] = Done] /\ writes' = writes + 1 /\ apart' = apart
    BY <2>1 DEF Commit, Then
  <2>4. ~Idle(r)
    BY <2>1 DEF Idle
  <2> QED BY <1>1, <2>2, <2>3, <2>4
<1> QED BY <1>2, <1>3

LEMMA Locked ==
  ASSUME TypeOK, LockedStep
  PROVE  /\ req' = req /\ writes' \in Nat /\ apart' = (apart /\ Alone)
         /\ \A q \in Requests : Idle(q) \/ req[q].op \in Overlapping
<1>1. CASE CreateOrder
  BY <1>1 DEF CreateOrder, AtOnce, TypeOK
<1>2. CASE UpdateOrder
  BY <1>2 DEF UpdateOrder, AtOnce, TypeOK
<1>3. CASE DeleteOrder
  BY <1>3 DEF DeleteOrder, AtOnce, TypeOK
<1>4. CASE UpdateStatus
  BY <1>4 DEF UpdateStatus, AtOnce, TypeOK
<1>5. CASE Receive
  BY <1>5 DEF Receive, AtOnce, TypeOK
<1>6. CASE ApplyCredit
  BY <1>6 DEF ApplyCredit, AtOnce, TypeOK
<1>7. CASE Settle
  <2>1. \E d : AtOnce(d)
    BY <1>7 DEF Settle
  <2> QED BY <2>1 DEF AtOnce, TypeOK
<1> QED BY <1>1, <1>2, <1>3, <1>4, <1>5, <1>6, <1>7 DEF LockedStep

LEMMA SpentTyped ==
  ASSUME spent \in Spent, NEW c \in Credits, NEW b \in Bills, NEW a \in Nat
  PROVE  [spent EXCEPT ![c][b] = @ + a] \in Spent
<1> DEFINE x == spent[c][b] + a
           f == [spent[c] EXCEPT ![b] = x]
<1>1. f \in [Bills -> Nat] /\ [spent EXCEPT ![c][b] = @ + a] = [spent EXCEPT ![c] = f]
  BY DEF Spent
<1> HIDE DEF f
<1> QED BY <1>1 DEF Spent

LEMMA TypeStep ==
  ASSUME TypeOK, [Next]_vars
  PROVE  TypeOK'
<1>1. CASE UNCHANGED vars
  BY <1>1 DEF TypeOK, vars
<1>2. ASSUME NEW r \in Requests, AskStep(r)
      PROVE  TypeOK'
  <2>1. PICK c \in Calls : Ask(r, c)
    BY <1>2, Asked
  <2> QED BY <2>1 DEF Ask, TypeOK, Alone
<1>3. ASSUME NEW r \in Requests, ServeStep(r)
      PROVE  TypeOK'
  <2>1. req' \in [Requests -> Calls] /\ writes' \in Nat /\ apart' \in BOOLEAN
    BY <1>3, Served DEF TypeOK
  <2>2. db' \in Db /\ spent' = spent
    BY <1>3, OrderBilled, BillCreated, BillUpdated, BillPosted, BillDeleted, BillPaid,
       CreditCreated, CreditVoided, CreditRemoved DEF ServeStep
  <2> QED BY <2>1, <2>2 DEF TypeOK
<1>4. ASSUME NEW r \in Requests, Drop(r)
      PROVE  TypeOK'
  BY <1>4 DEF Drop, TypeOK, Calls
<1>5. CASE LockedStep
  <2>1. req' \in [Requests -> Calls] /\ writes' \in Nat /\ apart' \in BOOLEAN
    BY <1>5, Locked DEF TypeOK, Alone
  <2>2. CASE CreateOrder \/ UpdateOrder \/ DeleteOrder \/ UpdateStatus \/ Receive
    <3>1. spent' = spent
      BY <2>2 DEF CreateOrder, UpdateOrder, DeleteOrder, UpdateStatus, Receive
    <3>2. db' \in Db
      BY <2>2, OrderCreated, OrderUpdated, OrderDeleted, StatusUpdated, LineReceived
    <3> QED BY <2>1, <3>1, <3>2 DEF TypeOK
  <2>3. CASE ApplyCredit
    <3>1. PICK c \in Credits, b \in Bills, a \in Amounts :
            db' \in Db /\ spent' = [spent EXCEPT ![c][b] = @ + a]
      BY <2>3, CreditApplied, ZenonT(60)
    <3>2. spent' \in Spent
      BY <3>1, SpentTyped, AmountsPositive DEF TypeOK
    <3> QED BY <2>1, <3>1, <3>2 DEF TypeOK
  <2>4. CASE Settle
    <3>1. PICK c \in Credits, b \in Bills, a \in Amounts, on \in Shares, p \in Payments,
               proof \in Proofs : SettledWith(c, b, a, on, p, proof)
      BY <2>4, BillSettled
    <3>2. db' \in Db /\ spent' = [spent EXCEPT ![c][b] = @ + a]
      BY <3>1 DEF SettledWith
    <3>3. spent' \in Spent
      BY <3>2, SpentTyped, AmountsPositive DEF TypeOK
    <3> QED BY <2>1, <3>2, <3>3 DEF TypeOK
  <2> QED BY <1>5, <2>2, <2>3, <2>4 DEF LockedStep
<1> QED BY <1>1, <1>2, <1>3, <1>4, <1>5 DEF Next

-----------------------------------------------------------------------------
(* What may not overlap is served alone. *)

LEMMA SoleStep ==
  ASSUME TypeOK, [Next]_vars, NEW ops, ops \cap Overlapping = {},
         "idle" \notin ops, "removeCredit" \notin ops, Sole(ops)
  PROVE  Sole(ops)'
<1>1. ASSUME NEW p \in Requests, NEW c, Ask(p, c)
      PROVE  Sole(ops)'
  <2>1. req' = [req EXCEPT ![p] = c] /\ req \in [Requests -> Calls] /\ Idle(p)
    BY <1>1 DEF Ask, TypeOK
  <2>2. \A q \in Requests : Idle(q) \/ {c.op, req[q].op} \subseteq Overlapping
    BY <1>1 DEF Ask
  <2>3. SUFFICES ASSUME NEW r \in Requests, NEW q \in Requests, req'[r].op \in ops, req'[q].op # "idle"
                 PROVE  q = r
    BY DEF Sole, Idle
  <2>4. CASE r = p
    <3>1. \A x \in Requests : Idle(x)
      BY <2>1, <2>2, <2>3, <2>4
    <3> QED BY <2>1, <2>3, <2>4, <3>1 DEF Idle
  <2>5. CASE r # p
    <3>1. req[r].op \in ops /\ ~Idle(r)
      BY <2>1, <2>3, <2>5 DEF Idle
    <3> QED BY <2>2, <3>1
  <2> QED BY <2>4, <2>5
<1>2. ASSUME NEW p \in Requests, NEW c, req' = [req EXCEPT ![p] = c], c.op \notin ops, ~Idle(p)
      PROVE  Sole(ops)'
  <2>1. req \in [Requests -> Calls]
    BY DEF TypeOK
  <2>2. SUFFICES ASSUME NEW r \in Requests, NEW q \in Requests, req'[r].op \in ops, req'[q].op # "idle"
                 PROVE  q = r
    BY DEF Sole, Idle
  <2>3. r # p /\ req[r].op \in ops
    BY <1>2, <2>1, <2>2
  <2>4. p = r
    BY <1>2, <2>3 DEF Sole
  <2> QED BY <2>3, <2>4
<1>3. ASSUME NEW r \in Requests, AskStep(r)
      PROVE  Sole(ops)'
  <2>1. PICK c \in Calls : Ask(r, c)
    BY <1>3, Asked
  <2> QED BY <1>1, <2>1
<1>4. ASSUME NEW r \in Requests, ServeStep(r)
      PROVE  Sole(ops)'
  <2>1. ~Idle(r) /\ req' = [req EXCEPT ![r] = After(req[r])]
    BY <1>4, Served
  <2>2. After(req[r]).op \notin ops
    BY DEF After, Done
  <2> QED BY <1>2, <2>1, <2>2
<1>5. ASSUME NEW r \in Requests, Drop(r)
      PROVE  Sole(ops)'
  <2>1. ~Idle(r) /\ req' = [req EXCEPT ![r] = Done] /\ Done.op \notin ops
    BY <1>5 DEF Drop, Done
  <2> QED BY <1>2, <2>1
<1>6. CASE LockedStep \/ UNCHANGED vars
  <2>1. req' = req
    BY <1>6, Locked DEF vars
  <2> QED BY <2>1 DEF Sole, Idle
<1> QED BY <1>3, <1>4, <1>5, <1>6 DEF Next

-----------------------------------------------------------------------------
(* The order and account 2050 *)

OrderRows(d) ==
  /\ \A l \in Lines : LineKept(d, l)
  /\ \A b \in Bills : LinkKept(d, b)
  /\ GrniKept(d)
  /\ OrderKept(d)

(* A bill that is entered stays so, and bills the order only from the start.*)
BillsStay(d, e) ==
  \A b \in Bills :
    d.bill[b].status # "none" =>
      e.bill[b].status # "none" /\ (d.bill[b].link = NoLink => e.bill[b].link = NoLink)

LEMMA RowsTyped ==
  ASSUME NEW d \in Db, NEW l \in Lines
  PROVE  /\ d.line[l] \in LineRow
         /\ d.line[l].ordered \in Nat /\ d.line[l].received \in Nat /\ d.line[l].billed \in Nat
         /\ d.line[l].accrued \in Int /\ d.line[l].cleared \in Int
         /\ Accrued(d.line[l]) \in Int
         /\ \A b \in Bills : /\ d.bill[b] \in BillRow /\ d.bill[b].link \in Links
                             /\ d.bill[b].link[l].qty \in Nat /\ d.bill[b].link[l].qty \in Int
                             /\ d.bill[b].link[l].grni \in Int
<1>1. d.line[l] \in LineRow
  BY DbFields
<1>2. \A b \in Bills : d.bill[b] \in BillRow /\ d.bill[b].link \in Links
  BY DbFields, BillFields
<1> QED BY <1>1, <1>2, LineFields, LinkFields

LEMMA LandedSame ==
  ASSUME NEW d, NEW e, e.registered = d.registered, NEW l, NEW q
  PROVE  Landed(e, l, q) = Landed(d, l, q)
  BY DEF Landed, LandedCost

(* The order as it was, and no bill linked anew.                            *)
LEMMA OrderAsItWas ==
  ASSUME NEW d, NEW e, OrderRows(d), NoReceipt(d, e),
         e.grni = d.grni, e.registered = d.registered,
         \A b \in Bills : e.bill[b].link = d.bill[b].link,
         \A b \in Bills : LinkKept(e, b)
  PROVE  OrderRows(e)
<1>1. ASSUME NEW l \in Lines
      PROVE  LineKept(e, l)
  <2>1. LineKept(d, l) /\ e.line[l] = d.line[l]
    BY DEF OrderRows, NoReceipt
  <2>2. [b \in Bills |-> e.bill[b].link[l].qty] = [b \in Bills |-> d.bill[b].link[l].qty]
    OBVIOUS
  <2> QED BY <2>1, <2>2, LandedSame DEF LineKept
<1>2. GrniKept(e) /\ OrderKept(e)
  BY DEF OrderRows, GrniKept, OrderKept, NoReceipt
<1> QED BY <1>1, <1>2 DEF OrderRows

LEMMA OneBillChanged ==
  ASSUME NEW d \in Db, NEW e, OrderRows(d), NoReceipt(d, e), e.grni = d.grni,
         NEW b \in Bills, NEW row \in BillRow, BillSet(d, e, b, row),
         row.link = d.bill[b].link, row.status # "none",
         \/ row.link = NoLink
         \/ /\ row.posted = d.bill[b].posted /\ row.order = d.bill[b].order
            /\ row.status # "draft"
  PROVE  OrderRows(e) /\ BillsStay(d, e)
<1>1. e.bill[b] = row /\ \A x \in Bills \ {b} : e.bill[x] = d.bill[x]
  BY DbFields DEF BillSet
<1>2. e.registered = d.registered
  BY DEF BillSet
<1>3. ASSUME NEW x \in Bills
      PROVE  LinkKept(e, x)
  <2>1. LinkKept(d, x)
    BY DEF OrderRows
  <2>2. CASE x # b
    BY <1>1, <1>2, <2>1, <2>2, LandedSame DEF LinkKept
  <2>3. CASE x = b
    <3>1. \A l \in Lines : row.link[l].grni = Landed(e, l, row.link[l].qty)
      BY <1>2, <2>1, <2>3, LandedSame DEF LinkKept
    <3>2. row.link = NoLink \/ (row.posted /\ row.order)
      BY <2>1, <2>3 DEF LinkKept
    <3> QED BY <1>1, <2>3, <3>1, <3>2 DEF LinkKept
  <2> QED BY <2>2, <2>3
<1>4. \A x \in Bills : e.bill[x].link = d.bill[x].link
  BY <1>1
<1> QED BY <1>1, <1>2, <1>3, <1>4, OrderAsItWas DEF BillsStay

LEMMA BillsPaidKept ==
  ASSUME NEW d \in Db, NEW e, OrderRows(d), NoReceipt(d, e), e.grni = d.grni,
         e.registered = d.registered, NEW on \in [Bills -> Nat], e.bill = PaidRows(d, on)
  PROVE  OrderRows(e) /\ BillsStay(d, e)
<1>1. ASSUME NEW b \in Bills
      PROVE  /\ e.bill[b].link = d.bill[b].link /\ e.bill[b].posted = d.bill[b].posted
             /\ e.bill[b].order = d.bill[b].order
             /\ e.bill[b].status = d.bill[b].status \/ e.bill[b].status \in OwingStatus
  <2> DEFINE row == PaidRow(d.bill[b], on[b])
  <2>1. d.bill[b] \in BillRow /\ on[b] \in Nat /\ e.bill[b] = row
    BY DbFields DEF PaidRows
  <2>2. /\ row.link = d.bill[b].link /\ row.posted = d.bill[b].posted
        /\ row.order = d.bill[b].order
        /\ row.status = d.bill[b].status \/ row.status \in OwingStatus
    BY <2>1, PaidRowIs
  <2> HIDE DEF row
  <2> QED BY <2>1, <2>2
<1>2. ASSUME NEW b \in Bills
      PROVE  LinkKept(e, b)
  <2>1. LinkKept(d, b)
    BY DEF OrderRows
  <2> QED BY <1>1, <2>1, LandedSame DEF LinkKept, OwingStatus
<1>3. OrderRows(e)
  BY <1>1, <1>2, OrderAsItWas
<1>4. BillsStay(d, e)
  BY <1>1 DEF BillsStay, OwingStatus
<1> QED BY <1>3, <1>4

(* A line nothing was received on has billed, accrued and cleared nothing.  *)
LEMMA NothingReceived ==
  ASSUME NEW d \in Db, OrderRows(d), \A l \in Lines : d.line[l].received = 0
  PROVE  /\ d.grni = 0
         /\ \A l \in Lines : d.line[l].billed = 0
         /\ \A l \in Lines : Sum([b \in Bills |-> d.bill[b].link[l].qty], Bills) = 0
<1>1. ASSUME NEW l \in Lines
      PROVE  d.line[l].billed = 0 /\ Accrued(d.line[l]) = 0
  <2>1. LineKept(d, l)
    BY DEF OrderRows
  <2>2. d.line[l].billed = 0
    BY <2>1, RowsTyped DEF LineKept
  <2>3. d.line[l].accrued = 0 /\ d.line[l].cleared = 0
    BY <2>1, <2>2, LandedIs DEF LineKept
  <2> QED BY <2>2, <2>3 DEF Accrued
<1>2. \A l \in Lines : Sum([b \in Bills |-> d.bill[b].link[l].qty], Bills) = 0
  BY <1>1 DEF OrderRows, LineKept
<1> DEFINE f == [l \in Lines |-> Accrued(d.line[l])]
<1>3. \A l \in Lines : f[l] = 0
  BY <1>1
<1>4. d.grni = Sum(f, Lines)
  BY DEF OrderRows, GrniKept
<1> HIDE DEF f
<1> QED BY <1>1, <1>2, <1>3, <1>4, SetsFinite, SumZero

LEMMA OrderWritten ==
  ASSUME NEW d \in Db, NEW e \in Db, OrderRows(d), \A l \in Lines : d.line[l].received = 0,
         SameBooks(d, e), e.grni = d.grni, Written(e.line), e.po # "closed"
  PROVE  OrderRows(e)
<1>1. /\ d.grni = 0
      /\ \A l \in Lines : Sum([b \in Bills |-> d.bill[b].link[l].qty], Bills) = 0
  BY NothingReceived
<1>2. ASSUME NEW l \in Lines
      PROVE  /\ e.line[l].ordered \in Nat /\ e.line[l].received = 0 /\ e.line[l].billed = 0
             /\ e.line[l].accrued = 0 /\ e.line[l].cleared = 0
  BY WrittenLines, NewLine
<1>3. ASSUME NEW l \in Lines
      PROVE  LineKept(e, l)
  <2>1. e.bill = d.bill
    BY DEF SameBooks
  <2> QED BY <1>1, <1>2, <2>1, LandedIs, SMTT(40) DEF LineKept
<1>4. \A b \in Bills : LinkKept(e, b)
  BY LandedSame DEF OrderRows, SameBooks, LinkKept
<1>5. GrniKept(e)
  <2> DEFINE f == [l \in Lines |-> Accrued(e.line[l])]
  <2>1. \A l \in Lines : f[l] = 0
    BY <1>2 DEF Accrued
  <2> HIDE DEF f
  <2>2. Sum(f, Lines) = 0
    BY <2>1, SetsFinite, SumZero
  <2> QED BY <1>1, <2>2 DEF GrniKept, f
<1>6. OrderKept(e)
  BY <1>2 DEF OrderKept
<1> QED BY <1>3, <1>4, <1>5, <1>6 DEF OrderRows

(* A receipt to q, or its correction, accrues what the goods cost.          *)
LEMMA AccrualIs ==
  ASSUME NEW d \in Db, NEW l \in Lines, LineKept(d, l), NEW q \in Nat,
         q # d.line[l].received, q >= d.line[l].billed
  PROVE  Accrual(d, l, q) = Landed(d, l, q) - Landed(d, l, d.line[l].received)
<1> DEFINE old == d.line[l].received
           billed == d.line[l].billed
<1>1. old \in Nat /\ billed \in Nat /\ billed <= old /\ billed <= q
  BY RowsTyped DEF LineKept
<1>2. Accrued(d.line[l]) = Landed(d, l, old) - Landed(d, l, billed)
  BY DEF LineKept, Accrued
<1>3. Landed(d, l, q) \in Nat /\ Landed(d, l, old) \in Nat /\ Landed(d, l, billed) \in Nat
  BY <1>1, LandedIs
<1>4. CASE l \in ExpenseLines
  <2>1. l \notin StockLines
    BY <1>4, PurchasingAssumption
  <2> QED BY <1>4, <2>1 DEF Accrual, Landed
<1>5. CASE l \notin ExpenseLines /\ q > old
  <2>1. l \in StockLines /\ q - old > 0
    BY <1>1, <1>5 DEF Lines
  <2>2. Accrual(d, l, q) = Landed(d, l, q - old)
    BY <1>5, <2>1 DEF Accrual, Landed
  <2>3. old <= q
    BY <1>1, <1>5
  <2> HIDE DEF old
  <2>4. Accrual(d, l, q) = Landed(d, l, q) - Landed(d, l, old)
    BY <1>1, <2>2, <2>3, LandedIs
  <2> QED BY <2>4 DEF old
<1>6. CASE l \notin ExpenseLines /\ ~(q > old)
  <2>1. l \in StockLines /\ ~(q - old > 0) /\ q <= old /\ -(q - old) = old - q
    BY <1>1, <1>6 DEF Lines
  <2>2. Accrual(d, l, q) = -ToReverse(d, d.line[l], old - q)
    BY <1>6, <2>1 DEF Accrual
  <2>3. LandedCost(d, old - q) = Landed(d, l, old - q)
    BY <2>1 DEF Landed
  <2> HIDE DEF old, billed
  <2>4. Landed(d, l, old - q) = Landed(d, l, old) - Landed(d, l, q)
    BY <1>1, <2>1, LandedIs
  <2>5. Landed(d, l, billed) <= Landed(d, l, q) /\ Landed(d, l, billed) <= Landed(d, l, old)
    BY <1>1, LandedIs
  <2>6. ToReverse(d, d.line[l], old - q) = Landed(d, l, old) - Landed(d, l, q)
    <3> DEFINE A == Landed(d, l, old)
               B == Landed(d, l, billed)
               C == Landed(d, l, q)
    <3>1. /\ LandedCost(d, old - q) = A - C /\ Accrued(d.line[l]) = A - B
          /\ A \in Nat /\ B \in Nat /\ C \in Nat /\ B <= C /\ B <= A
      BY <1>2, <1>3, <2>3, <2>4, <2>5
    <3> HIDE DEF A, B, C
    <3>2. Above0(A - B) = A - B
      BY <3>1 DEF Above0
    <3>3. SmallerOf(A - C, A - B) = A - C
      BY <3>1 DEF SmallerOf
    <3> QED BY <3>1, <3>2, <3>3 DEF ToReverse, A, C
  <2> DEFINE x == Landed(d, l, old)
             y == Landed(d, l, q)
  <2>7. x \in Nat /\ y \in Nat /\ Accrual(d, l, q) = -(x - y)
    BY <1>3, <2>2, <2>6
  <2> HIDE DEF x, y
  <2>8. Accrual(d, l, q) = y - x
    BY <2>7
  <2> QED BY <2>8 DEF x, y, old
<1> QED BY <1>4, <1>5, <1>6

LEMMA ReceiptKept ==
  ASSUME NEW d \in Db, NEW e \in Db, OrderRows(d), SameBooks(d, e),
         NEW l \in Lines, NEW q \in Nat, q # d.line[l].received, q <= d.line[l].ordered,
         q >= d.line[l].billed,
         e.line = [d.line EXCEPT ![l] = ReceivedTo(d.line[l], q, Accrual(d, l, q))],
         e.grni = d.grni + Accrual(d, l, q), e.po = DeriveStatus(e.line, FALSE)
  PROVE  OrderRows(e)
<1> DEFINE a == Accrual(d, l, q)
           row == d.line[l]
<1>1. LineKept(d, l) /\ row \in LineRow /\ a \in Int
  BY RowsTyped, AccrualInt DEF OrderRows
<1>2. a = Landed(d, l, q) - Landed(d, l, row.received)
  BY <1>1, AccrualIs
<1>3. /\ e.line[l].ordered = row.ordered /\ e.line[l].received = q /\ e.line[l].billed = row.billed
      /\ e.line[l].accrued = row.accrued + a /\ e.line[l].cleared = row.cleared
  <2>1. e.line[l] = ReceivedTo(row, q, a)
    BY DbFields
  <2> DEFINE x == row.accrued + a
  <2>2. e.line[l] = [row EXCEPT !.received = q, !.accrued = x]
    BY <2>1 DEF ReceivedTo
  <2> HIDE DEF x, row
  <2>3. /\ e.line[l].ordered = row.ordered /\ e.line[l].received = q
        /\ e.line[l].billed = row.billed
        /\ e.line[l].accrued = x /\ e.line[l].cleared = row.cleared
    BY <1>1, <2>2 DEF LineRow
  <2> QED BY <2>3 DEF x
<1>4. \A x \in Lines \ {l} : e.line[x] = d.line[x]
  BY DbFields
<1>5. e.registered = d.registered /\ e.bill = d.bill
  BY DEF SameBooks
<1>6. ASSUME NEW x \in Lines
      PROVE  LineKept(e, x)
  <2>1. LineKept(d, x)
    BY DEF OrderRows
  <2>2. CASE x # l
    BY <1>4, <1>5, <2>1, <2>2, LandedSame DEF LineKept
  <2>3. CASE x = l
    <3> DEFINE A == Landed(d, l, row.received)
               C == Landed(d, l, q)
    <3>1. A \in Nat /\ C \in Nat /\ row.accrued = A /\ a = C - A
      BY <1>1, <1>2, LandedIs, LineFields DEF LineKept
    <3> HIDE DEF A, C, a
    <3>2. row.accrued + a = C
      BY <3>1
    <3>3. e.line[l].accrued = Landed(e, l, q)
      BY <1>3, <1>5, <3>2, LandedSame DEF C
    <3> QED BY <1>3, <1>5, <2>1, <2>3, <3>3, LandedSame DEF LineKept
  <2> QED BY <2>2, <2>3
<1>7. \A b \in Bills : LinkKept(e, b)
  BY <1>5, LandedSame DEF OrderRows, LinkKept
<1>8. GrniKept(e)
  <2> DEFINE f == [x \in Lines |-> Accrued(d.line[x])]
             g == [x \in Lines |-> Accrued(e.line[x])]
  <2>1. \A x \in Lines : f[x] \in Int /\ g[x] \in Int
    BY RowsTyped
  <2>2. \A x \in Lines \ {l} : g[x] = f[x]
    BY <1>4
  <2>3. g[l] = f[l] + a
    <3>1. row.accrued \in Int /\ row.cleared \in Int
      BY <1>1, LineFields
    <3> HIDE DEF a
    <3> QED BY <1>1, <1>3, <3>1 DEF Accrued
  <2>4. d.grni = Sum(f, Lines) /\ e.grni = d.grni + a /\ d.grni \in Int
    BY DbFields DEF OrderRows, GrniKept
  <2>5. f[l] \in Int
    BY <2>1
  <2> HIDE DEF f, g, a
  <2>6. Sum(g, Lines) = Sum(f, Lines) + g[l] - f[l]
    BY <2>1, <2>2, SetsFinite, SumChange
  <2>7. Sum(g, Lines) = e.grni
    BY <1>1, <2>3, <2>4, <2>5, <2>6
  <2> QED BY <2>7 DEF GrniKept, g
<1>9. OrderKept(e)
  <2>1. e.po \notin {"none", "gone"} /\ (e.po = "closed" => AllReceived(e.line) /\ AllBilled(e.line))
    BY StatusTyped
  <2>2. ASSUME e.po = "closed", NEW x \in Lines
        PROVE  e.line[x].received = e.line[x].billed
    <3>1. e.line[x].billed >= e.line[x].ordered
      BY <2>1, <2>2 DEF AllBilled
    <3>2. /\ e.line[x].billed <= e.line[x].received
          /\ e.line[x].received <= e.line[x].ordered
      BY <1>6 DEF LineKept
    <3> QED BY <3>1, <3>2, RowsTyped
  <2> QED BY <2>1, <2>2 DEF OrderKept
<1> QED BY <1>6, <1>7, <1>8, <1>9 DEF OrderRows

(* The bill raised from the order bills what is unbilled, and clears what   *)
(* its goods accrued.                                                       *)
LEMMA OrderLinkIs ==
  ASSUME NEW d \in Db, NEW l \in Lines, LineKept(d, l)
  PROVE  LET x == OrderLink(d)[l]
         IN /\ x.qty = Unbilled(d.line[l]) /\ x.qty \in Nat
            /\ x.grni = Accrued(d.line[l]) /\ x.grni = Landed(d, l, x.qty)
<1> DEFINE x == OrderLink(d)[l]
           u == Unbilled(d.line[l])
           row == d.line[l]
<1>1. row.billed \in Nat /\ row.received \in Nat /\ row.billed <= row.received
  BY RowsTyped DEF LineKept
<1>2. u = row.received - row.billed /\ u \in Nat
  BY <1>1 DEF Unbilled
<1>3. Accrued(row) = Landed(d, l, u)
  <2> DEFINE m == row.billed
             n == row.received
  <2>1. Accrued(row) = Landed(d, l, n) - Landed(d, l, m)
    BY DEF LineKept, Accrued
  <2>2. m \in Nat /\ n \in Nat /\ m <= n /\ u = n - m
    BY <1>1, <1>2
  <2> HIDE DEF row, u, m, n
  <2>3. Landed(d, l, n - m) = Landed(d, l, n) - Landed(d, l, m)
    BY <2>2, LandedIs
  <2> QED BY <2>1, <2>2, <2>3
<1>4. x.qty = IF u > 0 THEN u ELSE 0
  BY DEF OrderLink, ToBill
<1>5. x.qty = u
  BY <1>2, <1>4
<1>6. x.grni = IF u > 0 /\ l \in StockLines THEN Accrued(row) ELSE 0
  BY DEF OrderLink, ToBill
<1>7. l \notin StockLines => Landed(d, l, u) = 0
  BY DEF Landed
<1>8. u = 0 => Landed(d, l, u) = 0
  BY LandedIs
<1> HIDE DEF x, u, row
<1>9. x.grni = Landed(d, l, u)
  BY <1>2, <1>3, <1>6, <1>7, <1>8
<1>10. /\ x.qty = u /\ x.qty \in Nat /\ x.grni = Accrued(row) /\ x.grni = Landed(d, l, x.qty)
  BY <1>2, <1>3, <1>5, <1>9
<1> QED BY <1>10 DEF x, u, row

LEMMA OrderBillIs ==
  ASSUME NEW link
  PROVE  LET row == OrderBill(link)
         IN /\ row.status = "open" /\ row.link = link /\ row.posted /\ row.order
            /\ row.paid = 0 /\ row.total = Priced(link) /\ row.balance = Priced(link)
  BY DEF OrderBill

LEMMA BillOrderKept ==
  ASSUME NEW d \in Db, NEW e \in Db, OrderRows(d), NEW b \in Bills, d.bill[b].status = "none",
         BillSet(d, e, b, OrderBill(OrderLink(d))),
         e.line = LinesBilled(d, OrderLink(d)),
         e.po = DeriveStatus(e.line, FALSE),
         e.grni = d.grni - Cleared(OrderLink(d))
  PROVE  OrderRows(e) /\ BillsStay(d, e)
<1> DEFINE link == OrderLink(d)
<1>1. e.bill[b] = OrderBill(link) /\ \A x \in Bills \ {b} : e.bill[x] = d.bill[x]
  BY DbFields DEF BillSet
<1>2. e.registered = d.registered
  BY DEF BillSet
<1>3. \A l \in Lines : LineKept(d, l)
  BY DEF OrderRows
<1>4. /\ e.bill[b].link = link /\ e.bill[b].posted /\ e.bill[b].order
      /\ e.bill[b].status = "open"
  BY <1>1, OrderBillIs
<1>5. ASSUME NEW l \in Lines
      PROVE  /\ link[l].qty = Unbilled(d.line[l]) /\ link[l].qty \in Nat
             /\ link[l].grni = Accrued(d.line[l]) /\ link[l].grni \in Int
             /\ link[l].grni = Landed(e, l, link[l].qty)
  <2>1. LET x == link[l]
        IN /\ x.qty = Unbilled(d.line[l]) /\ x.qty \in Nat
           /\ x.grni = Accrued(d.line[l]) /\ x.grni = Landed(d, l, x.qty)
    BY <1>3, OrderLinkIs
  <2> HIDE DEF link
  <2>2. Landed(e, l, link[l].qty) = Landed(d, l, link[l].qty)
    BY <1>2, LandedSame
  <2>3. Accrued(d.line[l]) \in Int
    BY RowsTyped
  <2> QED BY <2>1, <2>2, <2>3
<1>6. d.bill[b].link = NoLink
  BY DEF OrderRows, LinkKept
<1>7. e.line = LinesBilled(d, link) /\ e.grni = d.grni - Cleared(link)
  OBVIOUS
<1> HIDE DEF link
<1>8. ASSUME NEW l \in Lines
      PROVE  /\ e.line[l].ordered = d.line[l].ordered
             /\ e.line[l].received = d.line[l].received
             /\ e.line[l].billed = d.line[l].received
             /\ e.line[l].accrued = d.line[l].accrued
             /\ e.line[l].cleared = d.line[l].accrued
  <2> DEFINE row == d.line[l]
             q == link[l].qty
             g == link[l].grni
             x == link[l]
  <2>1. row \in LineRow /\ q \in Nat /\ g \in Int /\ x.qty = q /\ x.grni = g
    BY <1>5, RowsTyped
  <2>2. e.line[l] = LineBilled(row, x)
    BY <1>7 DEF LinesBilled
  <2>3. q = row.received - row.billed /\ g = row.accrued - row.cleared
    BY <1>5 DEF Unbilled, Accrued
  <2> HIDE DEF row, q, g, x
  <2>4. LET y == LineBilled(row, x)
        IN /\ y \in LineRow /\ y.ordered = row.ordered /\ y.received = row.received
           /\ y.billed = row.billed + q /\ y.accrued = row.accrued
           /\ y.cleared = row.cleared + g
    BY <2>1, LineBilledRow
  <2>5. row.billed + q = row.received /\ row.cleared + g = row.accrued
    BY <2>1, <2>3, LineFields
  <2> QED BY <2>2, <2>4, <2>5 DEF row
<1>9. ASSUME NEW l \in Lines
      PROVE  LineKept(e, l)
  <2>1. LineKept(d, l)
    BY <1>3
  <2>2. d.line[l].received = Sum([x \in Bills |-> e.bill[x].link[l].qty], Bills)
    <3> DEFINE f == [x \in Bills |-> d.bill[x].link[l].qty]
               g == [x \in Bills |-> e.bill[x].link[l].qty]
    <3>1. \A x \in Bills : f[x] \in Int /\ g[x] \in Int
      BY RowsTyped
    <3>2. \A x \in Bills \ {b} : g[x] = f[x]
      BY <1>1
    <3>3. f[b] = 0 /\ g[b] = d.line[l].received - d.line[l].billed
      BY <1>4, <1>5, <1>6, NoLinkTyped DEF Unbilled
    <3>4. d.line[l].billed = Sum(f, Bills)
      BY <2>1 DEF LineKept
    <3> HIDE DEF f, g
    <3>5. Sum(g, Bills) = Sum(f, Bills) + g[b] - f[b]
      BY <3>1, <3>2, SetsFinite, SumChange
    <3>6. Sum(g, Bills) = d.line[l].received
      BY <3>3, <3>4, <3>5, RowsTyped
    <3> QED BY <3>6 DEF g
  <2> DEFINE n == d.line[l].received
             c == d.line[l].accrued
  <2>3. n \in Nat /\ n <= d.line[l].ordered /\ c = Landed(d, l, n)
    BY <2>1, RowsTyped DEF LineKept
  <2>4. Landed(e, l, n) = Landed(d, l, n)
    BY <1>2, LandedSame
  <2>5. /\ e.line[l].ordered = d.line[l].ordered /\ e.line[l].received = n
        /\ e.line[l].billed = n /\ e.line[l].accrued = c /\ e.line[l].cleared = c
    BY <1>8
  <2>6. n <= n
    BY <2>3
  <2> HIDE DEF n, c
  <2> QED BY <2>2, <2>3, <2>4, <2>5, <2>6 DEF LineKept, n
<1>10. ASSUME NEW x \in Bills
       PROVE  LinkKept(e, x)
  <2>1. LinkKept(d, x)
    BY DEF OrderRows
  <2>2. CASE x # b
    BY <1>1, <1>2, <2>1, <2>2, LandedSame DEF LinkKept
  <2>3. CASE x = b
    BY <1>4, <1>5, <2>3 DEF LinkKept
  <2> QED BY <2>2, <2>3
<1>11. GrniKept(e)
  <2> DEFINE f == [l \in Lines |-> Accrued(e.line[l])]
             g == [l \in Lines |-> Accrued(d.line[l])]
             h == [l \in Lines |-> link[l].grni]
  <2>1. \A l \in Lines : f[l] = 0
    BY <1>8, RowsTyped DEF Accrued
  <2>2. \A l \in Lines : g[l] = h[l]
    BY <1>5
  <2>3. d.grni = Sum(g, Lines) /\ Cleared(link) = Sum(h, Lines) /\ d.grni \in Int
    BY DbFields DEF OrderRows, GrniKept, Cleared
  <2> HIDE DEF f, g, h
  <2>4. Sum(f, Lines) = 0 /\ Sum(g, Lines) = Sum(h, Lines)
    BY <2>1, <2>2, SetsFinite, SumZero, SumSame
  <2>5. e.grni = Sum(f, Lines)
    BY <1>7, <2>3, <2>4
  <2> QED BY <2>5 DEF GrniKept, f
<1>12. OrderKept(e)
  BY <1>8, StatusTyped DEF OrderKept
<1> QED BY <1>1, <1>4, <1>9, <1>10, <1>11, <1>12 DEF OrderRows, BillsStay

LEMMA BillDeletedKept ==
  ASSUME NEW d \in Db, NEW e \in Db, OrderRows(d), NEW b \in Bills,
         BillSet(d, e, b, [NoBill EXCEPT !.status = "gone"]),
         e.line = IF d.bill[b].order THEN LinesReleased(d, d.bill[b].link) ELSE d.line,
         e.po = d.po \/ (d.po = "closed" /\ e.po \notin {"none", "gone", "closed"}),
         e.po = "closed" => ~d.bill[b].order,
         e.grni = IF d.bill[b].posted THEN d.grni + Cleared(d.bill[b].link) ELSE d.grni
  PROVE  OrderRows(e) /\ BillsStay(d, e)
<1> DEFINE link == d.bill[b].link
<1>1. \A x \in Bills \ {b} : e.bill[x] = d.bill[x]
  BY DbFields DEF BillSet
<1>2. e.registered = d.registered /\ e.bill[b].link = NoLink /\ e.bill[b].status = "gone"
  BY DbFields, NoBillTyped DEF BillSet, BillRow
<1>3. \A l \in Lines : LineKept(d, l)
  BY DEF OrderRows
<1>4. /\ LinkKept(d, b) /\ link \in Links
      /\ \A l \in Lines : link[l].qty \in Nat /\ link[l].grni \in Int
  BY RowsTyped, DbFields, BillFields DEF OrderRows
<1>5. ASSUME NEW l \in Lines
      PROVE  /\ link[l].grni = Landed(d, l, link[l].qty)
             /\ ~d.bill[b].order => link[l].qty = 0 /\ link[l].grni = 0
  BY <1>4, NoLinkTyped DEF LinkKept
<1>6. e.grni = d.grni + Cleared(link)
  <2>1. ~d.bill[b].posted => Cleared(link) = 0
    BY <1>4, ClearedInt DEF LinkKept
  <2> QED BY <2>1, DbFields
<1>7. e.line = IF d.bill[b].order THEN LinesReleased(d, link) ELSE d.line
  OBVIOUS
<1> HIDE DEF link
<1>8. ASSUME NEW l \in Lines
      PROVE  LET f == [x \in Bills |-> d.bill[x].link[l].qty]
                 g == [x \in Bills |-> e.bill[x].link[l].qty]
             IN Sum(g, Bills) = Sum(f, Bills) - link[l].qty /\ link[l].qty <= Sum(f, Bills)
  <2> DEFINE f == [x \in Bills |-> d.bill[x].link[l].qty]
             g == [x \in Bills |-> e.bill[x].link[l].qty]
             q == link[l].qty
  <2>1. \A x \in Bills : f[x] \in Int /\ g[x] \in Int /\ g[x] \in Nat
    BY RowsTyped
  <2>2. \A x \in Bills \ {b} : g[x] = f[x]
    BY <1>1
  <2>3. f[b] = q /\ g[b] = 0 /\ q \in Nat
    BY <1>2, <1>4, NoLinkTyped DEF link
  <2> HIDE DEF f, g, q
  <2>4. Sum(g, Bills) = Sum(f, Bills) + g[b] - f[b]
    BY <2>1, <2>2, SetsFinite, SumChange
  <2>5. Sum(g, Bills) \in Nat /\ Sum(f, Bills) \in Int
    BY <2>1, SetsFinite, SumNat, SumInt
  <2>6. Sum(g, Bills) = Sum(f, Bills) - q /\ q <= Sum(f, Bills)
    BY <2>3, <2>4, <2>5
  <2> QED BY <2>6 DEF f, g, q
<1>9. ASSUME NEW l \in Lines
      PROVE  /\ link[l].qty <= d.line[l].billed
             /\ d.line[l].billed - link[l].qty = Sum([x \in Bills |-> e.bill[x].link[l].qty], Bills)
  BY <1>3, <1>8 DEF LineKept
<1>10. ASSUME NEW l \in Lines
       PROVE  /\ e.line[l].ordered = d.line[l].ordered
              /\ e.line[l].received = d.line[l].received
              /\ e.line[l].billed = d.line[l].billed - link[l].qty
              /\ e.line[l].accrued = d.line[l].accrued
              /\ e.line[l].cleared = d.line[l].cleared - link[l].grni
  <2> DEFINE row == d.line[l]
             q == link[l].qty
             g == link[l].grni
             x == link[l]
  <2>1. row \in LineRow /\ q \in Nat /\ g \in Int /\ x.qty = q /\ x.grni = g
    BY <1>4, RowsTyped
  <2>2. row.billed \in Nat /\ row.cleared \in Int
    BY <2>1, LineFields
  <2>3. q <= row.billed
    BY <1>9
  <2>4. ~d.bill[b].order => q = 0 /\ g = 0
    BY <1>5
  <2>5. e.line[l] = IF d.bill[b].order THEN LineReleased(row, x) ELSE row
    BY <1>7 DEF LinesReleased
  <2> HIDE DEF row, q, g, x
  <2>6. LET y == LineReleased(row, x)
        IN /\ y \in LineRow /\ y.ordered = row.ordered /\ y.received = row.received
           /\ y.billed = Above0(row.billed - q) /\ y.accrued = row.accrued
           /\ y.cleared = row.cleared - g
    BY <2>1, LineReleasedRow
  <2>7. Above0(row.billed - q) = row.billed - q
    BY <2>1, <2>2, <2>3 DEF Above0
  <2>8. /\ e.line[l].ordered = row.ordered /\ e.line[l].received = row.received
        /\ e.line[l].billed = row.billed - q /\ e.line[l].accrued = row.accrued
        /\ e.line[l].cleared = row.cleared - g
    BY <2>2, <2>4, <2>5, <2>6, <2>7
  <2> QED BY <2>8 DEF row, q, g
<1>11. ASSUME NEW l \in Lines
       PROVE  LineKept(e, l)
  <2> DEFINE q == link[l].qty
             g == link[l].grni
             m == d.line[l].billed
             k == d.line[l].cleared
  <2>1. LineKept(d, l)
    BY <1>3
  <2>2. q \in Nat /\ m \in Nat /\ q <= m /\ g = Landed(d, l, q) /\ k = Landed(d, l, m)
    BY <1>4, <1>5, <1>9, <2>1, RowsTyped DEF LineKept
  <2>3. e.line[l].cleared = k - g /\ e.line[l].billed = m - q
    BY <1>10
  <2> HIDE DEF q, g, m, k
  <2>4. Landed(d, l, m - q) = k - g /\ m - q <= m
    BY <2>2, LandedIs
  <2>5. e.line[l].cleared = Landed(e, l, e.line[l].billed)
    BY <1>2, <2>3, <2>4, LandedSame
  <2>6. e.line[l].billed <= e.line[l].received
    <3>1. m <= d.line[l].received /\ d.line[l].received \in Nat
      BY <2>1, RowsTyped DEF LineKept, m
    <3> QED BY <1>10, <2>2, <2>3, <3>1
  <2>7. e.line[l].billed = Sum([x \in Bills |-> e.bill[x].link[l].qty], Bills)
    BY <1>9, <1>10
  <2>8. /\ e.line[l].received = d.line[l].received /\ e.line[l].ordered = d.line[l].ordered
        /\ e.line[l].accrued = d.line[l].accrued
    BY <1>10
  <2>9. e.line[l].received <= e.line[l].ordered
    BY <2>1, <2>8 DEF LineKept
  <2>10. e.line[l].accrued = Landed(e, l, e.line[l].received)
    BY <1>2, <2>1, <2>8, LandedSame DEF LineKept
  <2> QED BY <2>5, <2>6, <2>7, <2>9, <2>10 DEF LineKept
<1>12. ASSUME NEW x \in Bills
       PROVE  LinkKept(e, x)
  <2>1. LinkKept(d, x)
    BY DEF OrderRows
  <2>2. CASE x # b
    BY <1>1, <1>2, <2>1, <2>2, LandedSame DEF LinkKept
  <2>3. CASE x = b
    BY <1>2, <2>3, NoLinkTyped, LandedIs DEF LinkKept
  <2> QED BY <2>2, <2>3
<1>13. GrniKept(e)
  <2> DEFINE f == [l \in Lines |-> Accrued(d.line[l])]
             g == [l \in Lines |-> link[l].grni]
             h == [l \in Lines |-> Accrued(e.line[l])]
  <2>1. \A l \in Lines : f[l] \in Int /\ g[l] \in Int /\ h[l] = f[l] + g[l]
    BY <1>4, <1>10, RowsTyped DEF Accrued
  <2>2. d.grni = Sum(f, Lines) /\ Cleared(link) = Sum(g, Lines)
    BY DEF OrderRows, GrniKept, Cleared
  <2> HIDE DEF f, g, h
  <2>3. Sum(h, Lines) = Sum(f, Lines) + Sum(g, Lines)
    BY <2>1, SetsFinite, SumPlus
  <2>4. e.grni = Sum(h, Lines)
    BY <1>6, <2>2, <2>3
  <2> QED BY <2>4 DEF GrniKept, h
<1>14. OrderKept(e)
  <2>1. e.po = "closed" => d.po = "closed" /\ ~d.bill[b].order
    OBVIOUS
  <2>2. e.po \in {"none", "gone"} => d.po = e.po
    OBVIOUS
  <2>3. OrderKept(d)
    BY DEF OrderRows
  <2>4. ASSUME e.po = "closed", NEW l \in Lines
        PROVE  e.line[l].received = e.line[l].billed
    BY <1>5, <1>10, <2>1, <2>3, <2>4, RowsTyped DEF OrderKept
  <2> QED BY <1>10, <2>2, <2>3, <2>4 DEF OrderKept
<1> QED BY <1>1, <1>2, <1>11, <1>12, <1>13, <1>14 DEF OrderRows, BillsStay

LEMMA CallTargets ==
  ASSUME NEW c \in Calls
  PROVE  c.op \in {"post", "updateBill", "deleteBill"} => c.b \in Bills
  BY CallShapes DEF PostCall, UpdateBillCall, DeleteBillCall

LEMMA OrderServed ==
  ASSUME ~HandGrni, TypeOK, OrderSound, NEW r \in Requests, ServeStep(r)
  PROVE  OrderRows(db') /\ BillsStay(db, db')
<1>1. db \in Db /\ OrderRows(db) /\ HandMade(db, req[r])
  BY DEF TypeOK, OrderSound, OrderRows
<1>2. CASE BillOrder(r)
  <2> DEFINE b == req[r].b
             link == OrderLink(db)
  <2>1. /\ b \in Bills /\ db.bill[b].status = "none" /\ db' \in Db
        /\ BillSet(db, db', b, OrderBill(link)) /\ db'.line = LinesBilled(db, link)
        /\ db'.po = DeriveStatus(LinesBilled(db, link), FALSE)
        /\ db'.grni = db.grni - Cleared(link)
    BY <1>2, OrderBilled
  <2> DEFINE e == db'
  <2> HIDE DEF b, e
  <2>2. OrderRows(e) /\ BillsStay(db, e)
    BY <1>1, <2>1, BillOrderKept DEF e
  <2> QED BY <2>2 DEF e
<1>3. CASE CreateBill(r)
  <2> DEFINE b == req[r].b
             e == db'
  <2>1. /\ b \in Bills /\ db.bill[b].status = "none" /\ NoReceipt(db, e) /\ e.grni = db.grni
    BY <1>3, BillCreated
  <2>2. PICK row \in BillRow : /\ BillSet(db, e, b, row) /\ row.link = NoLink
                               /\ row.status \in {"draft", "open"}
    BY <1>3, BillCreated
  <2>3. db.bill[b].link = NoLink
    BY <1>1, <2>1 DEF OrderRows, LinkKept
  <2> HIDE DEF b, e
  <2>4. OrderRows(e) /\ BillsStay(db, e)
    BY <1>1, <2>1, <2>2, <2>3, OneBillChanged
  <2> QED BY <2>4 DEF e
<1>4. CASE UpdateBill(r)
  <2> DEFINE b == req[r].b
             e == db'
             seen == req[r].seen
  <2>1. /\ b \in Bills /\ req[r].op = "updateBill" /\ NoReceipt(db, e) /\ e.grni = db.grni
    BY <1>4, BillUpdated
  <2>2. PICK row \in BillRow : /\ BillSet(db, e, b, row) /\ row.link = seen.link
                               /\ row.status = seen.status
    BY <1>4, BillUpdated
  <2>3. db.bill[b].link = NoLink /\ seen.link = NoLink /\ seen.status = "draft"
    BY <1>1, <2>1 DEF HandMade
  <2> HIDE DEF b, e, seen
  <2>4. OrderRows(e) /\ BillsStay(db, e)
    BY <1>1, <2>1, <2>2, <2>3, OneBillChanged
  <2> QED BY <2>4 DEF e
<1>5. CASE Post(r)
  <2> DEFINE b == req[r].b
             e == db'
             old == db.bill[b]
  <2>1. /\ b \in Bills /\ req[r].op = "post" /\ NoReceipt(db, e)
        /\ e.grni = db.grni - Debited(old) /\ old \in BillRow
    BY <1>5, BillPosted
  <2>2. PICK row \in BillRow : /\ BillSet(db, e, b, row) /\ row.link = old.link
                               /\ row.status = "open"
    BY <1>5, BillPosted
  <2>3. old.link = NoLink
    BY <1>1, <2>1 DEF HandMade
  <2>4. Debited(old) = Cleared(old.link) /\ Cleared(NoLink) = 0 /\ db.grni \in Int
    BY <1>1, <2>1, NoLinkTyped, ClearedInt, DebitedIs, DbFields
  <2>5. e.grni = db.grni
    BY <2>1, <2>3, <2>4
  <2>6. row.link = db.bill[b].link /\ row.link = NoLink
    BY <2>2, <2>3
  <2> HIDE DEF b, e, old
  <2>7. OrderRows(e) /\ BillsStay(db, e)
    BY <1>1, <2>1, <2>2, <2>5, <2>6, OneBillChanged
  <2> QED BY <2>7 DEF e
<1>6. CASE DeleteBill(r)
  <2> DEFINE b == req[r].b
             e == db'
             seen == req[r].seen
  <2>1. /\ b \in Bills /\ req[r].op = "deleteBill" /\ e \in Db
        /\ BillSet(db, e, b, [NoBill EXCEPT !.status = "gone"])
        /\ e.line = IF seen.order THEN LinesReleased(db, seen.link) ELSE db.line
        /\ e.po = db.po \/ (db.po = "closed" /\ e.po \notin {"none", "gone", "closed"})
        /\ e.po = "closed" => ~seen.order
        /\ e.grni = IF seen.posted THEN db.grni + Cleared(seen.link) ELSE db.grni
    BY <1>6, BillDeleted, DebitedIs
  <2>2. seen = db.bill[b]
    BY <1>1, <2>1 DEF HandMade
  <2> HIDE DEF b, e, seen
  <2>3. OrderRows(e) /\ BillsStay(db, e)
    BY <1>1, <2>1, <2>2, BillDeletedKept
  <2> QED BY <2>3 DEF e
<1>7. CASE Pay(r)
  <2> DEFINE on == req[r].on
             e == db'
  <2>1. /\ on \in [Bills -> Nat] /\ NoReceipt(db, e) /\ e.bill = PaidRows(db, on)
        /\ e.registered = db.registered /\ e.grni = db.grni
    BY <1>7, BillPaid
  <2> HIDE DEF on, e
  <2>2. OrderRows(e) /\ BillsStay(db, e)
    BY <1>1, <2>1, BillsPaidKept
  <2> QED BY <2>2 DEF e
<1>8. CASE CreateCredit(r) \/ VoidCredit(r) \/ RemoveCredit(r)
  <2> DEFINE e == db'
  <2>1. SameOrder(db, e) /\ e.bill = db.bill
    BY <1>8, CreditCreated, CreditVoided, CreditRemoved
  <2> HIDE DEF e
  <2>2. NoReceipt(db, e) /\ e.grni = db.grni /\ e.registered = db.registered
    BY <2>1 DEF SameOrder, NoReceipt
  <2>3. \A x \in Bills : LinkKept(e, x)
    BY <1>1, <2>1, <2>2, LandedSame DEF OrderRows, LinkKept
  <2>4. OrderRows(e)
    BY <1>1, <2>1, <2>2, <2>3, OrderAsItWas
  <2> QED BY <2>1, <2>4 DEF e, BillsStay
<1> QED BY <1>2, <1>3, <1>4, <1>5, <1>6, <1>7, <1>8 DEF ServeStep

LEMMA OrderLocked ==
  ASSUME TypeOK, OrderSound, LockedStep
  PROVE  OrderRows(db') /\ BillsStay(db, db')
<1>1. db \in Db /\ OrderRows(db)
  BY DEF TypeOK, OrderSound, OrderRows
<1> DEFINE e == db'
<1>2. CASE CreateOrder \/ UpdateOrder \/ DeleteOrder
  <2>1. /\ e \in Db /\ SameBooks(db, e) /\ e.grni = db.grni /\ Written(e.line)
        /\ db.po \in {"none", "gone"} \/ ~AnyReceived(db.line)
        /\ e.po # "closed"
    BY <1>2, OrderCreated, OrderUpdated, OrderDeleted
  <2>2. \A l \in Lines : db.line[l].received = 0
    BY <1>1, <2>1, RowsTyped DEF OrderRows, OrderKept, AnyReceived
  <2> HIDE DEF e
  <2>3. OrderRows(e)
    BY <1>1, <2>1, <2>2, OrderWritten
  <2> QED BY <2>1, <2>3 DEF e, SameBooks, BillsStay
<1>3. CASE UpdateStatus
  <2>1. /\ SameBooks(db, e) /\ e.grni = db.grni /\ e.line = db.line
        /\ e.po \notin {"none", "gone"}
        /\ e.po = "closed" => \A l \in Lines : Unbilled(db.line[l]) <= 0
    BY <1>3, StatusUpdated
  <2> HIDE DEF e
  <2>2. e.registered = db.registered /\ e.bill = db.bill
    BY <2>1 DEF SameBooks
  <2>3. \A l \in Lines : LineKept(e, l)
    BY <1>1, <2>1, <2>2, LandedSame DEF OrderRows, LineKept
  <2>4. \A b \in Bills : LinkKept(e, b)
    BY <1>1, <2>2, LandedSame DEF OrderRows, LinkKept
  <2>5. OrderKept(e)
    <3>1. ASSUME e.po = "closed", NEW l \in Lines
          PROVE  e.line[l].received = e.line[l].billed
      <4>1. Unbilled(db.line[l]) <= 0 /\ db.line[l].billed <= db.line[l].received
        BY <1>1, <2>1, <3>1 DEF OrderRows, LineKept
      <4> QED BY <1>1, <2>1, <4>1, RowsTyped DEF Unbilled
    <3> QED BY <2>1, <3>1 DEF OrderKept
  <2>6. GrniKept(e)
    BY <1>1, <2>1 DEF OrderRows, GrniKept
  <2> QED BY <2>2, <2>3, <2>4, <2>5, <2>6 DEF e, OrderRows, BillsStay
<1>4. CASE Receive
  <2>1. PICK l \in Lines, q \in Nat :
          LET row == db.line[l]
              a == Accrual(db, l, q)
              line == [db.line EXCEPT ![l] = ReceivedTo(row, q, a)]
          IN /\ Issued(db) /\ q # row.received /\ q <= row.ordered /\ q >= row.billed
             /\ e \in Db /\ SameBooks(db, e)
             /\ e.line = line /\ e.grni = db.grni + a
             /\ e.po = DeriveStatus(line, FALSE)
    BY <1>4, LineReceived
  <2> HIDE DEF e
  <2>2. OrderRows(e)
    BY <1>1, <2>1, ReceiptKept
  <2> QED BY <2>1, <2>2 DEF e, SameBooks, BillsStay
<1>5. CASE ApplyCredit
  <2>1. PICK c \in Credits, b \in Bills, a \in Amounts :
          /\ NoReceipt(db, e) /\ BillSet(db, e, b, PaidBy(db.bill[b], a)) /\ e.grni = db.grni
    BY <1>5, CreditApplied
  <2> DEFINE row == PaidBy(db.bill[b], a)
  <2>2. db.bill[b] \in BillRow /\ a \in Nat
    BY <1>1, DbFields, AmountsPositive
  <2>3. /\ row \in BillRow /\ row.posted = db.bill[b].posted /\ row.order = db.bill[b].order
        /\ row.link = db.bill[b].link /\ row.status \in OwingStatus
    BY <2>2, PaidByRow
  <2> HIDE DEF e, row
  <2>4. BillSet(db, e, b, row)
    BY <2>1 DEF row
  <2>5. OrderRows(e) /\ BillsStay(db, e)
    BY <1>1, <2>1, <2>3, <2>4, OneBillChanged DEF OwingStatus
  <2> QED BY <2>5 DEF e
<1>6. CASE Settle
  <2>1. PICK c \in Credits, b \in Bills, a \in Amounts, on \in Shares, p \in Payments,
             proof \in Proofs : SettledWith(c, b, a, on, p, proof)
    BY <1>6, BillSettled
  <2> DEFINE m == Credited(db, c, b, a)
             row == PaidBy(db.bill[b], a)
  <2>2. db.bill[b] \in BillRow /\ a \in Nat
    BY <1>1, DbFields, AmountsPositive
  <2>3. /\ row \in BillRow /\ row.posted = db.bill[b].posted /\ row.order = db.bill[b].order
        /\ row.link = db.bill[b].link /\ row.status \in OwingStatus
    BY <2>2, PaidByRow
  <2>4. /\ m \in Db /\ NoReceipt(db, m) /\ BillSet(db, m, b, row) /\ m.grni = db.grni
    <3> HIDE DEF e
    <3>1. LET x == Credited(db, c, b, a)
          IN /\ x \in Db /\ NoReceipt(db, x) /\ BillSet(db, x, b, PaidBy(db.bill[b], a))
             /\ x.credit = [db.credit EXCEPT ![c] = CreditUsed(db.credit[c], a)]
             /\ x.pay = db.pay /\ x.grni = db.grni /\ x.ap = db.ap /\ x.owed = db.owed
      BY <1>1, <2>2, CreditedDb
    <3> HIDE DEF NoReceipt, BillSet
    <3> QED BY <3>1
  <2>5. /\ on \in [Bills -> Nat] /\ NoReceipt(db, e) /\ e.bill = PaidRows(m, on)
        /\ e.registered = db.registered /\ e.grni = db.grni
    BY <2>1 DEF SettledWith
  <2> HIDE DEF e, m, row
  <2>6. OrderRows(m) /\ BillsStay(db, m)
    BY <1>1, <2>3, <2>4, OneBillChanged DEF OwingStatus
  <2>7. NoReceipt(m, e) /\ e.grni = m.grni /\ e.registered = m.registered
    BY <2>4, <2>5 DEF NoReceipt, BillSet
  <2>8. OrderRows(e) /\ BillsStay(m, e)
    BY <2>4, <2>5, <2>6, <2>7, BillsPaidKept
  <2>9. BillsStay(db, e)
    BY <2>6, <2>8 DEF BillsStay
  <2> QED BY <2>8, <2>9 DEF e
<1> QED BY <1>2, <1>3, <1>4, <1>5, <1>6 DEF LockedStep

(* What a request will change stays as it read it: nothing else is served   *)
(* while a bill is deleted.                                                 *)
LEMMA OtherCallKept ==
  ASSUME NEW d, NEW e, NEW c \in Calls, HandMade(d, c), BillsStay(d, e), c.op # "deleteBill"
  PROVE  HandMade(e, c)
  BY CallTargets DEF HandMade, BillsStay

LEMMA OrderStep ==
  ASSUME ~HandGrni, "deleteBill" \notin Overlapping, TypeOK, OrderSound, Sole({"deleteBill"}),
         [Next]_vars
  PROVE  OrderSound'
<1>1. /\ req \in [Requests -> Calls] /\ db \in Db /\ OrderRows(db)
      /\ \A r \in Requests : HandMade(db, req[r])
  BY DEF TypeOK, OrderSound, OrderRows
<1>2. ASSUME UNCHANGED db, NEW r \in Requests, NEW c, req' = [req EXCEPT ![r] = c],
             HandMade(db, c)
      PROVE  OrderSound'
  <2>1. OrderRows(db')
    BY <1>1, <1>2
  <2>2. \A q \in Requests : HandMade(db', req'[q])
    BY <1>1, <1>2
  <2> QED BY <2>1, <2>2 DEF OrderSound, OrderRows
<1>3. ASSUME NEW r \in Requests, AskStep(r)
      PROVE  OrderSound'
  <2>1. PICK c \in Calls : Ask(r, c) /\ AskedNow(c)
    BY <1>3, Asked
  <2>2. HandMade(db, c)
    <3>1. Current(db, c)
      BY <2>1 DEF AskedNow
    <3>2. c.op \in {"post", "updateBill"} => c.b \in Bills /\ LinkKept(db, c.b)
      BY <1>1, CallTargets DEF OrderRows
    <3> QED BY <3>1, <3>2 DEF Current, HandMade, LinkKept
  <2> QED BY <1>2, <2>1, <2>2 DEF Ask
<1>4. ASSUME NEW r \in Requests, ServeStep(r)
      PROVE  OrderSound'
  <2>1. /\ ~Idle(r) /\ req' = [req EXCEPT ![r] = After(req[r])]
    BY <1>4, Served
  <2>2. OrderRows(db') /\ BillsStay(db, db')
    BY <1>4, OrderServed
  <2>3. HandMade(db', After(req[r]))
    BY DEF HandMade, After, Done
  <2>4. ASSUME NEW q \in Requests, q # r
        PROVE  HandMade(db', req[q])
    <3>1. req[q].op # "deleteBill"
      BY <2>1, <2>4 DEF Sole
    <3> DEFINE e == db'
    <3> HIDE DEF e
    <3>2. HandMade(e, req[q])
      BY <1>1, <2>2, <3>1, OtherCallKept DEF e
    <3> QED BY <3>2 DEF e
  <2>5. \A q \in Requests : HandMade(db', req'[q])
    BY <1>1, <2>1, <2>3, <2>4
  <2> QED BY <2>2, <2>5 DEF OrderSound, OrderRows
<1>5. ASSUME NEW r \in Requests, Drop(r)
      PROVE  OrderSound'
  <2>1. HandMade(db, Done)
    BY DEF HandMade, Done
  <2> QED BY <1>2, <1>5, <2>1 DEF Drop
<1>6. CASE LockedStep
  <2>1. req' = req /\ \A q \in Requests : Idle(q) \/ req[q].op \in Overlapping
    BY <1>6, Locked
  <2>2. OrderRows(db') /\ BillsStay(db, db')
    BY <1>6, OrderLocked
  <2>3. ASSUME NEW q \in Requests
        PROVE  HandMade(db', req[q])
    <3>1. req[q].op # "deleteBill"
      BY <2>1 DEF Idle
    <3> DEFINE e == db'
    <3> HIDE DEF e
    <3>2. HandMade(e, req[q])
      BY <1>1, <2>2, <3>1, OtherCallKept DEF e
    <3> QED BY <3>2 DEF e
  <2> QED BY <2>1, <2>2, <2>3 DEF OrderSound, OrderRows
<1>7. CASE UNCHANGED vars
  BY <1>1, <1>7 DEF vars, OrderSound, OrderRows
<1> QED BY <1>3, <1>4, <1>5, <1>6, <1>7 DEF Next

-----------------------------------------------------------------------------
(* At the start *)

LEMMA InitRows ==
  ASSUME Init
  PROVE  /\ TypeOK
         /\ db.po \in {"none", "sent"} /\ db.owed = 0 /\ db.grni = 0 /\ db.ap = 0
         /\ Written(db.line)
         /\ \A b \in Bills : db.bill[b] = NoBill
         /\ \A c \in Credits : db.credit[c] = NoCredit
         /\ \A p \in Payments : db.pay[p] = NoPayment
         /\ \A r \in Requests : req[r] = Done
         /\ \A c \in Credits, b \in Bills : spent[c][b] = 0
         /\ apart
<1>1. PICK registered \in BOOLEAN, issued \in BOOLEAN :
        db = [po |-> IF issued THEN "sent" ELSE "none",
              line |-> [l \in Lines |-> Line(IF issued THEN MostOrdered ELSE 0)],
              registered |-> registered,
              bill |-> [b \in Bills |-> NoBill],
              credit |-> [c \in Credits |-> NoCredit],
              pay |-> [p \in Payments |-> NoPayment],
              used |-> {}, owed |-> 0, grni |-> 0, ap |-> 0, bank |-> 0]
  BY DEF Init
<1> DEFINE s == IF issued THEN "sent" ELSE "none"
           q == IF issued THEN MostOrdered ELSE 0
           f == [l \in Lines |-> Line(q)]
           n == [l \in Lines |-> q]
           g == [b \in Bills |-> NoBill]
           h == [c \in Credits |-> NoCredit]
           k == [p \in Payments |-> NoPayment]
<1>2. s \in {"none", "sent"} /\ q \in Nat
  BY SetsFinite
<1>3. n \in [Lines -> Nat] /\ f = [l \in Lines |-> Line(n[l])]
  BY <1>2
<1>4. Written(f) /\ f \in [Lines -> LineRow]
  BY <1>3, WrittenLines DEF Written
<1>5. g \in [Bills -> BillRow] /\ h \in [Credits -> CreditRow] /\ k \in [Payments -> PayRow]
  BY NoBillTyped, NoCreditTyped, NoPaymentTyped
<1>6. db = [po |-> s, line |-> f, registered |-> registered, bill |-> g, credit |-> h, pay |-> k,
            used |-> {}, owed |-> 0, grni |-> 0, ap |-> 0, bank |-> 0]
  BY <1>1
<1> HIDE DEF s, f, g, h, k
<1>7. db \in Db
  BY <1>2, <1>4, <1>5, <1>6 DEF Db, OrderStatus
<1>8. /\ db.po = s /\ db.line = f /\ db.bill = g /\ db.credit = h /\ db.pay = k
      /\ db.owed = 0 /\ db.grni = 0 /\ db.ap = 0
  BY <1>6
<1>9. req \in [Requests -> Calls] /\ \A r \in Requests : req[r] = Done
  BY DEF Init, Calls, Done
<1>10. spent \in Spent /\ \A c \in Credits, b \in Bills : spent[c][b] = 0
  BY DEF Init, Spent
<1>11. writes \in Nat /\ apart /\ apart \in BOOLEAN
  BY DEF Init
<1> QED BY <1>2, <1>4, <1>7, <1>8, <1>9, <1>10, <1>11 DEF TypeOK, g, h, k

LEMMA OrderInit ==
  ASSUME Init
  PROVE  OrderSound
<1>1. db \in Db
  BY InitRows DEF TypeOK
<1>2. ASSUME NEW l \in Lines
      PROVE  /\ db.line[l].ordered \in Nat /\ db.line[l].received = 0 /\ db.line[l].billed = 0
             /\ db.line[l].accrued = 0 /\ db.line[l].cleared = 0
  BY InitRows, WrittenLines, NewLine
<1>3. ASSUME NEW l \in Lines
      PROVE  LineKept(db, l)
  <2> DEFINE f == [b \in Bills |-> db.bill[b].link[l].qty]
  <2>1. \A b \in Bills : f[b] = 0
    BY InitRows, NoBillTyped, NoLinkTyped
  <2> HIDE DEF f
  <2>2. Sum(f, Bills) = 0
    BY <2>1, SetsFinite, SumZero
  <2> QED BY <1>1, <1>2, <2>2, LandedIs DEF LineKept, f
<1>4. \A b \in Bills : LinkKept(db, b)
  BY <1>1, InitRows, NoBillTyped, NoLinkTyped, LandedIs DEF LinkKept
<1>5. GrniKept(db)
  <2> DEFINE f == [l \in Lines |-> Accrued(db.line[l])]
  <2>1. \A l \in Lines : f[l] = 0
    BY <1>2 DEF Accrued
  <2> HIDE DEF f
  <2>2. Sum(f, Lines) = 0
    BY <2>1, SetsFinite, SumZero
  <2> QED BY <2>2, InitRows DEF GrniKept, f
<1>6. OrderKept(db)
  BY <1>2, InitRows DEF OrderKept
<1>7. \A r \in Requests : HandMade(db, req[r])
  BY InitRows DEF HandMade, Done
<1> QED BY <1>3, <1>4, <1>5, <1>6, <1>7 DEF OrderSound

LEMMA SoleInit ==
  ASSUME Init, NEW ops, "idle" \notin ops
  PROVE  Sole(ops)
  BY InitRows DEF Sole, Idle, Done

LEMMA OrderTies ==
  ASSUME TypeOK, OrderSound
  PROVE  GrniTies
<1>1. db \in Db /\ \A l \in Lines : LineKept(db, l)
  BY DEF TypeOK, OrderSound
<1>2. db.grni = Sum([l \in Lines |-> Accrued(db.line[l])], Lines)
  BY DEF OrderSound, GrniKept
<1>3. ASSUME NEW l \in Lines
      PROVE  /\ Unbilled(db.line[l]) >= 0
             /\ Unbilled(db.line[l]) = 0 => Accrued(db.line[l]) = 0
             /\ db.po = "closed" => Unbilled(db.line[l]) = 0
  <2>1. /\ db.line[l].received \in Nat /\ db.line[l].billed \in Nat
        /\ db.line[l].billed <= db.line[l].received
    BY <1>1, RowsTyped DEF LineKept
  <2>2. Unbilled(db.line[l]) = 0 => db.line[l].received = db.line[l].billed
    BY <2>1 DEF Unbilled
  <2>3. db.line[l].received = db.line[l].billed => db.line[l].accrued = db.line[l].cleared
    BY <1>1 DEF LineKept
  <2>4. db.line[l].accrued = db.line[l].cleared => Accrued(db.line[l]) = 0
    BY <1>1, RowsTyped DEF Accrued
  <2> QED BY <2>1, <2>2, <2>3, <2>4 DEF OrderSound, OrderKept, Unbilled
<1>4. (\A l \in Lines : Unbilled(db.line[l]) = 0) => db.grni = 0
  <2> DEFINE f == [l \in Lines |-> Accrued(db.line[l])]
  <2>1. SUFFICES ASSUME \A l \in Lines : Unbilled(db.line[l]) = 0
                 PROVE  db.grni = 0
    OBVIOUS
  <2>2. \A l \in Lines : f[l] = 0
    BY <1>3, <2>1
  <2>3. db.grni = Sum(f, Lines)
    BY <1>2
  <2> HIDE DEF f
  <2> QED BY <2>2, <2>3, SetsFinite, SumZero
<1> QED BY <1>2, <1>3, <1>4 DEF GrniTies

(* Types: the rows of the database, the requests and what they have read.   *)
THEOREM RowsStayTyped == Spec => []TypeOK
<1>1. Init => TypeOK
  BY InitRows
<1>2. TypeOK /\ [Next]_vars => TypeOK'
  BY TypeStep
<1> QED BY <1>1, <1>2, PTL DEF Spec

(* Qa invariant I18: as long as no line entered by hand debits 2050 and a   *)
(* bill is not deleted while something else is served, account 2050 is what *)
(* the order's lines have accrued and not cleared, and nothing is left of   *)
(* it on an order that is closed or all billed, whatever receipts,          *)
(* corrections, bills and edits come in between, and whatever else overlaps.*)
THEOREM GoodsReceivedTie ==
  ASSUME ~HandGrni, "deleteBill" \notin Overlapping
  PROVE  Spec => []GrniTies
<1> DEFINE I == TypeOK /\ Sole({"deleteBill"}) /\ OrderSound
<1>1. Init => I
  BY InitRows, SoleInit, OrderInit
<1>2. I /\ [Next]_vars => I'
  <2> SUFFICES ASSUME I, [Next]_vars
               PROVE  I'
    OBVIOUS
  <2>1. Sole({"deleteBill"})'
    <3> DEFINE ops == {"deleteBill"}
    <3>1. ops \cap Overlapping = {} /\ "idle" \notin ops /\ "removeCredit" \notin ops
      OBVIOUS
    <3> HIDE DEF ops
    <3>2. TypeOK /\ [Next]_vars /\ Sole(ops) => Sole(ops)'
      BY <3>1, SoleStep
    <3> QED BY <3>2 DEF ops
  <2> QED BY <2>1, TypeStep, OrderStep
<1>3. I => GrniTies
  BY OrderTies
<1> QED BY <1>1, <1>2, <1>3, PTL DEF Spec

-----------------------------------------------------------------------------
(* The vendor's balance *)

(* Each step moves the vendor's balance from what it has read as it moves   *)
(* account 2000.                                                            *)
LEMMA OwedMoves ==
  ASSUME TypeOK, NEW r \in Requests, ServeStep(r)
  PROVE  req[r].op \in ReadsOwed => (req[r].owed = db.owed /\ db.owed = db.ap => db'.owed = db'.ap)
<1>1. db.owed \in Int /\ db.ap \in Int
  BY DbFields DEF TypeOK
<1>2. CASE BillOrder(r)
  <2>1. db'.ap = db.ap + Priced(OrderLink(db)) /\ db'.owed = req[r].owed + Priced(OrderLink(db))
    BY <1>2, OrderBilled
  <2> QED BY <2>1
<1>3. CASE CreateBill(r)
  <2>1. /\ req[r].draft \in BOOLEAN
        /\ req[r].draft => db'.ap = db.ap /\ db'.owed = db.owed
        /\ ~req[r].draft => db'.ap = db.ap + req[r].t /\ db'.owed = req[r].owed + req[r].t
    BY <1>3, BillCreated
  <2> QED BY <2>1
<1>4. CASE Post(r)
  <2>1. db'.ap = db.ap + db.bill[req[r].b].total /\ db'.owed = req[r].owed + db.bill[req[r].b].total
    BY <1>4, BillPosted
  <2> QED BY <2>1
<1>5. CASE Pay(r)
  <2> DEFINE total == Sum(req[r].on, Bills)
  <2>1. db'.ap = db.ap - total /\ db'.owed = req[r].owed - total
    BY <1>5, BillPaid
  <2> HIDE DEF total
  <2> QED BY <2>1
<1>6. CASE CreateCredit(r)
  <2>1. db'.ap = db.ap - req[r].t /\ db'.owed = req[r].owed - req[r].t
    BY <1>6, CreditCreated
  <2> QED BY <2>1
<1>7. CASE UpdateBill(r) \/ DeleteBill(r) \/ VoidCredit(r) \/ RemoveCredit(r)
  BY <1>7 DEF UpdateBill, DeleteBill, VoidCredit, RemoveCredit, Serving, ReadsOwed
<1> QED BY <1>2, <1>3, <1>4, <1>5, <1>6, <1>7 DEF ServeStep

LEMMA OwedMovesAlike ==
  ASSUME TypeOK, NEW r \in Requests, ServeStep(r), req[r].op \notin ReadsOwed, db.owed = db.ap
  PROVE  db'.owed = db'.ap
<1>1. CASE UpdateBill(r)
  BY <1>1, BillUpdated
<1>2. CASE DeleteBill(r)
  BY <1>2, BillDeleted
<1>3. CASE VoidCredit(r)
  BY <1>3, CreditVoided
<1>4. CASE RemoveCredit(r)
  BY <1>4, CreditRemoved
<1> QED BY <1>1, <1>2, <1>3, <1>4
    DEF ServeStep, BillOrder, CreateBill, Post, Pay, CreateCredit, Serving, ReadsOwed

LEMMA OwedLocked ==
  ASSUME TypeOK, LockedStep, db.owed = db.ap
  PROVE  db'.owed = db'.ap
<1>1. CASE CreateOrder \/ UpdateOrder \/ DeleteOrder \/ UpdateStatus
  BY <1>1, OrderCreated, OrderUpdated, OrderDeleted, StatusUpdated DEF SameBooks
<1>2. CASE Receive
  <2>1. SameBooks(db, db')
    BY <1>2, LineReceived
  <2> QED BY <2>1 DEF SameBooks
<1>3. CASE ApplyCredit
  BY <1>3, CreditApplied
<1>4. CASE Settle
  <2>1. PICK c \in Credits, b \in Bills, a \in Amounts, on \in Shares, p \in Payments,
             proof \in Proofs : SettledWith(c, b, a, on, p, proof)
    BY <1>4, BillSettled
  <2> QED BY <2>1 DEF SettledWith
<1> QED BY <1>1, <1>2, <1>3, <1>4 DEF LockedStep

LEMMA OwedStep ==
  ASSUME TypeOK, OwedKept, [Next]_vars
  PROVE  OwedKept'
<1>1. /\ req \in [Requests -> Calls] /\ apart \in BOOLEAN
  BY DEF TypeOK
<1>2. CASE UNCHANGED vars
  BY <1>2 DEF vars, OwedKept, Idle
<1>3. ASSUME NEW r \in Requests, AskStep(r)
      PROVE  OwedKept'
  <2>1. PICK c \in Calls : Ask(r, c) /\ AskedNow(c)
    BY <1>3, Asked
  <2>2. /\ req' = [req EXCEPT ![r] = c] /\ apart' = (apart /\ Alone) /\ db' = db
    BY <2>1 DEF Ask
  <2>3. SUFFICES ASSUME apart'
                 PROVE  /\ \A p, q \in Requests : req'[p].op # "idle" /\ req'[q].op # "idle" => p = q
                        /\ \A q \in Requests : req'[q].op \in ReadsOwed => req'[q].owed = db'.owed
                        /\ db'.owed = db'.ap
    BY DEF OwedKept, Idle
  <2>4. apart /\ \A q \in Requests : req[q].op = "idle"
    BY <2>2, <2>3 DEF Alone, Idle
  <2>5. \A q \in Requests \ {r} : req'[q].op = "idle"
    BY <1>1, <2>2, <2>4
  <2>6. req'[r] = c
    BY <1>1, <2>2
  <2> QED BY <2>1, <2>2, <2>4, <2>5, <2>6 DEF AskedNow, ReadsOwed, OwedKept
<1>4. ASSUME NEW r \in Requests, ServeStep(r)
      PROVE  OwedKept'
  <2>1. ~Idle(r) /\ req' = [req EXCEPT ![r] = After(req[r])] /\ apart' = apart
    BY <1>4, Served
  <2>2. SUFFICES ASSUME apart'
                 PROVE  /\ \A p, q \in Requests : req'[p].op # "idle" /\ req'[q].op # "idle" => p = q
                        /\ \A q \in Requests : req'[q].op \in ReadsOwed => req'[q].owed = db'.owed
                        /\ db'.owed = db'.ap
    BY DEF OwedKept, Idle
  <2>3. \A q \in Requests \ {r} : req[q].op = "idle"
    BY <2>1, <2>2 DEF OwedKept, Idle
  <2>4. \A q \in Requests \ {r} : req'[q].op = "idle"
    BY <1>1, <2>1, <2>3
  <2>5. req'[r].op \notin ReadsOwed
    BY <1>1, <2>1 DEF After, Done, ReadsOwed
  <2>6. db'.owed = db'.ap
    BY <1>4, <2>1, <2>2, OwedMoves, OwedMovesAlike DEF OwedKept
  <2> QED BY <2>4, <2>5, <2>6 DEF ReadsOwed
<1>5. ASSUME NEW r \in Requests, Drop(r)
      PROVE  OwedKept'
  BY <1>1, <1>5 DEF Drop, OwedKept, Idle, Done, ReadsOwed
<1>6. CASE LockedStep
  <2>1. req' = req /\ apart' = (apart /\ Alone)
    BY <1>6, Locked
  <2>2. SUFFICES ASSUME apart'
                 PROVE  /\ \A p, q \in Requests : req'[p].op # "idle" /\ req'[q].op # "idle" => p = q
                        /\ \A q \in Requests : req'[q].op \in ReadsOwed => req'[q].owed = db'.owed
                        /\ db'.owed = db'.ap
    BY DEF OwedKept, Idle
  <2>3. apart /\ \A q \in Requests : req[q].op = "idle"
    BY <2>1, <2>2 DEF Alone, Idle
  <2>4. db'.owed = db'.ap
    BY <1>6, <2>3, OwedLocked DEF OwedKept
  <2> QED BY <2>1, <2>3, <2>4 DEF ReadsOwed
<1> QED BY <1>2, <1>3, <1>4, <1>5, <1>6 DEF Next

-----------------------------------------------------------------------------
(* Account 2000, bills, payments and credits *)

PayRows(d, s) ==
  /\ \A b \in Bills : BillKept(d, s, b)
  /\ \A c \in Credits : CreditKept(d, s, c)
  /\ ApKept(d)

(* What other requests have read stays as it is: a draft, but those of X,   *)
(* and a credit that is void.                                               *)
Calm(d, e, X) ==
  /\ \A b \in Bills \ X : d.bill[b].status = "draft" => e.bill[b].status = "draft"
  /\ \A c \in Credits :
       d.credit[c].status \in {"void", "gone"} => e.credit[c].status \in {"void", "gone"}

LEMMA DueTyped ==
  ASSUME NEW row \in BillRow
  PROVE  Due(row) \in Int /\ Due(row) = IF row.status \in OwingStatus THEN row.balance ELSE 0
  BY BillFields DEF Due

LEMMA HeldTyped ==
  ASSUME NEW row \in CreditRow
  PROVE  Held(row) \in Int /\ Held(row) = IF row.status \in LiveStatus THEN row.balance ELSE 0
  BY CreditFields DEF Held

LEMMA PayTyped ==
  ASSUME NEW d \in Db, NEW s \in Spent
  PROVE  /\ \A b \in Bills : /\ d.bill[b] \in BillRow /\ Due(d.bill[b]) \in Int
                             /\ PaidOn(d, b) \in Nat /\ SpentOn(s, b) \in Nat
                             /\ \A p \in Payments : d.pay[p].on[b] \in Nat
                             /\ \A c \in Credits : s[c][b] \in Nat
         /\ \A c \in Credits : d.credit[c] \in CreditRow /\ Held(d.credit[c]) \in Int
         /\ Dues(d) \in Int
         /\ Holdings(d) \in Int
         /\ d.ap \in Int
<1>1. \A b \in Bills : d.bill[b] \in BillRow /\ Due(d.bill[b]) \in Int
  BY DbFields, DueTyped
<1>2. \A c \in Credits : d.credit[c] \in CreditRow /\ Held(d.credit[c]) \in Int
  BY DbFields, HeldTyped
<1>3. \A b \in Bills : \A p \in Payments : d.pay[p].on[b] \in Nat
  <2>1. d.pay \in [Payments -> PayRow]
    BY DbFields
  <2> QED BY <2>1 DEF PayRow
<1>4. \A b \in Bills : \A c \in Credits : s[c][b] \in Nat
  BY DEF Spent
<1>5. ASSUME NEW b \in Bills
      PROVE  PaidOn(d, b) \in Nat
  <2> DEFINE f == [p \in Payments |-> d.pay[p].on[b]]
  <2>1. \A p \in Payments : f[p] \in Nat
    BY <1>3
  <2> HIDE DEF f
  <2>2. Sum(f, Payments) \in Nat
    BY <2>1, SetsFinite, SumNat
  <2> QED BY <2>2 DEF PaidOn, f
<1>6. ASSUME NEW b \in Bills
      PROVE  SpentOn(s, b) \in Nat
  <2> DEFINE f == [c \in Credits |-> s[c][b]]
  <2>1. \A c \in Credits : f[c] \in Nat
    BY <1>4
  <2> HIDE DEF f
  <2>2. Sum(f, Credits) \in Nat
    BY <2>1, SetsFinite, SumNat
  <2> QED BY <2>2 DEF SpentOn, f
<1>7. Dues(d) \in Int
  <2> DEFINE f == [b \in Bills |-> Due(d.bill[b])]
  <2>1. \A b \in Bills : f[b] \in Int
    BY <1>1
  <2> HIDE DEF f
  <2>2. Sum(f, Bills) \in Int
    BY <2>1, SetsFinite, SumInt
  <2> QED BY <2>2 DEF f, Dues
<1>8. Holdings(d) \in Int
  <2> DEFINE f == [c \in Credits |-> Held(d.credit[c])]
  <2>1. \A c \in Credits : f[c] \in Int
    BY <1>2
  <2> HIDE DEF f
  <2>2. Sum(f, Credits) \in Int
    BY <2>1, SetsFinite, SumInt
  <2> QED BY <2>2 DEF f, Holdings
<1> QED BY <1>1, <1>2, <1>3, <1>4, <1>5, <1>6, <1>7, <1>8, DbFields

(* What account 2000 owes changes as the one bill and the one credit do.    *)
LEMMA DuesChange ==
  ASSUME NEW d \in Db, NEW e \in Db, NEW b \in Bills, NEW row,
         e.bill = [d.bill EXCEPT ![b] = row]
  PROVE  Dues(e)
           = Dues(d) + Due(row) - Due(d.bill[b])
<1> DEFINE f == [x \in Bills |-> Due(d.bill[x])]
           g == [x \in Bills |-> Due(e.bill[x])]
<1>1. \A x \in Bills : f[x] \in Int /\ g[x] \in Int
  BY DbFields, DueTyped
<1>2. e.bill[b] = row /\ \A x \in Bills \ {b} : e.bill[x] = d.bill[x]
  BY DbFields
<1>3. \A x \in Bills \ {b} : g[x] = f[x]
  BY <1>2
<1>4. g[b] = Due(row) /\ f[b] = Due(d.bill[b])
  BY <1>2
<1> HIDE DEF f, g
<1>5. Sum(g, Bills) = Sum(f, Bills) + g[b] - f[b]
  BY <1>1, <1>3, SetsFinite, SumChange
<1> QED BY <1>4, <1>5 DEF f, g, Dues

LEMMA HeldChanges ==
  ASSUME NEW d \in Db, NEW e \in Db, NEW c \in Credits, NEW row,
         e.credit = [d.credit EXCEPT ![c] = row]
  PROVE  Holdings(e)
           = Holdings(d) + Held(row) - Held(d.credit[c])
<1> DEFINE f == [x \in Credits |-> Held(d.credit[x])]
           g == [x \in Credits |-> Held(e.credit[x])]
<1>1. \A x \in Credits : f[x] \in Int /\ g[x] \in Int
  BY DbFields, HeldTyped
<1>2. e.credit[c] = row /\ \A x \in Credits \ {c} : e.credit[x] = d.credit[x]
  BY DbFields
<1>3. \A x \in Credits \ {c} : g[x] = f[x]
  BY <1>2
<1>4. g[c] = Held(row) /\ f[c] = Held(d.credit[c])
  BY <1>2
<1> HIDE DEF f, g
<1>5. Sum(g, Credits) = Sum(f, Credits) + g[c] - f[c]
  BY <1>1, <1>3, SetsFinite, SumChange
<1> QED BY <1>4, <1>5 DEF f, g, Holdings

(* A bill's row as its own figures say. *)
BillRowSound(row) ==
  /\ row.balance = row.total - row.paid /\ row.balance >= 0
  /\ row.posted <=> row.status \in OwingStatus
  /\ row.paid > 0 => row.status \in OwingStatus
CreditRowSound(row) ==
  /\ row.applied > 0 => row.status \in LiveStatus
  /\ row.status \in LiveStatus => row.balance = row.total - row.applied /\ row.balance >= 0

LEMMA PaidSame ==
  ASSUME NEW d, NEW e, e.pay = d.pay, NEW b
  PROVE  PaidOn(e, b) = PaidOn(d, b)
  BY DEF PaidOn

LEMMA BillReplaced ==
  ASSUME NEW d \in Db, NEW e \in Db, NEW s \in Spent, PayRows(d, s),
         e.credit = d.credit, e.pay = d.pay,
         NEW b \in Bills, NEW row \in BillRow, e.bill = [d.bill EXCEPT ![b] = row],
         BillRowSound(row), row.paid = d.bill[b].paid,
         e.ap = d.ap + Due(row) - Due(d.bill[b])
  PROVE  PayRows(e, s)
<1>1. e.bill[b] = row /\ \A x \in Bills \ {b} : e.bill[x] = d.bill[x]
  BY DbFields
<1>2. ASSUME NEW x \in Bills
      PROVE  BillKept(e, s, x)
  <2>1. BillKept(d, s, x) /\ PaidOn(e, x) = PaidOn(d, x)
    BY PaidSame DEF PayRows
  <2>2. CASE x # b
    BY <1>1, <2>1, <2>2 DEF BillKept
  <2>3. CASE x = b
    BY <1>1, <2>1, <2>3 DEF BillKept, BillRowSound
  <2> QED BY <2>2, <2>3
<1>3. \A c \in Credits : CreditKept(e, s, c)
  BY DEF PayRows, CreditKept
<1>4. ApKept(e)
  <2> DEFINE F == Dues(d)
             G == Dues(e)
             H == Holdings(d)
  <2>1. F \in Int /\ H \in Int /\ Due(row) \in Int /\ Due(d.bill[b]) \in Int
    BY PayTyped, DueTyped
  <2>2. G = F + Due(row) - Due(d.bill[b])
    BY DuesChange
  <2>3. d.ap = F - H
    BY DEF PayRows, ApKept
  <2>4. H = Holdings(e)
    BY DEF Holdings
  <2> HIDE DEF F, G, H
  <2>5. e.ap = G - H
    BY <2>1, <2>2, <2>3
  <2> QED BY <2>4, <2>5 DEF ApKept, G
<1> QED BY <1>2, <1>3, <1>4 DEF PayRows

LEMMA CreditReplaced ==
  ASSUME NEW d \in Db, NEW e \in Db, NEW s \in Spent, PayRows(d, s),
         e.bill = d.bill, e.pay = d.pay,
         NEW c \in Credits, NEW row \in CreditRow, e.credit = [d.credit EXCEPT ![c] = row],
         CreditRowSound(row), row.applied = d.credit[c].applied,
         e.ap = d.ap - Held(row) + Held(d.credit[c])
  PROVE  PayRows(e, s)
<1>1. e.credit[c] = row /\ \A x \in Credits \ {c} : e.credit[x] = d.credit[x]
  BY DbFields
<1>2. \A x \in Bills : BillKept(e, s, x)
  BY PaidSame DEF PayRows, BillKept
<1>3. ASSUME NEW x \in Credits
      PROVE  CreditKept(e, s, x)
  <2>1. CreditKept(d, s, x)
    BY DEF PayRows
  <2>2. CASE x # c
    BY <1>1, <2>1, <2>2 DEF CreditKept
  <2>3. CASE x = c
    BY <1>1, <2>1, <2>3 DEF CreditKept, CreditRowSound
  <2> QED BY <2>2, <2>3
<1>4. ApKept(e)
  <2> DEFINE F == Dues(d)
             G == Holdings(e)
             H == Holdings(d)
  <2>1. F \in Int /\ H \in Int /\ Held(row) \in Int /\ Held(d.credit[c]) \in Int
    BY PayTyped, HeldTyped
  <2>2. G = H + Held(row) - Held(d.credit[c])
    BY HeldChanges
  <2>3. d.ap = F - H
    BY DEF PayRows, ApKept
  <2>4. F = Dues(e)
    BY DEF Dues
  <2> HIDE DEF F, G, H
  <2>5. e.ap = F - G
    BY <2>1, <2>2, <2>3
  <2> QED BY <2>4, <2>5 DEF ApKept, G
<1> QED BY <1>2, <1>3, <1>4 DEF PayRows

LEMMA PayablesAsTheyWere ==
  ASSUME NEW d, NEW e, NEW s, PayRows(d, s),
         e.bill = d.bill, e.credit = d.credit, e.pay = d.pay, e.ap = d.ap
  PROVE  PayRows(e, s) /\ Calm(d, e, {})
  BY PaidSame DEF PayRows, BillKept, CreditKept, ApKept, Calm, Dues, Holdings

(* Paid in cash, some of each bill.                                         *)
LEMMA PayingKept ==
  ASSUME NEW d \in Db, NEW e \in Db, NEW s \in Spent, PayRows(d, s),
         NEW on \in [Bills -> Nat], MayPayAll(d, on),
         NEW p \in Payments, d.pay[p] = NoPayment, NEW proof,
         e.bill = PaidRows(d, on), e.credit = d.credit,
         e.pay = [d.pay EXCEPT ![p] = PaymentOn(on, proof)], e.ap = d.ap - Sum(on, Bills)
  PROVE  PayRows(e, s) /\ Calm(d, e, {})
<1>1. ASSUME NEW b \in Bills
      PROVE  /\ d.bill[b] \in BillRow /\ BillKept(d, s, b) /\ on[b] \in Nat
             /\ e.bill[b] = PaidRow(d.bill[b], on[b])
             /\ on[b] > 0 => d.bill[b].status \in OwingStatus /\ on[b] <= d.bill[b].balance
  BY DbFields DEF PayRows, PaidRows, MayPayAll, MayPay, MayPayMore, OwingStatus
<1>2. /\ e.pay[p] = PaymentOn(on, proof) /\ \A q \in Payments \ {p} : e.pay[q] = d.pay[q]
  BY DbFields
<1>3. ASSUME NEW b \in Bills
      PROVE  PaidOn(e, b) = PaidOn(d, b) + on[b]
  <2> DEFINE f == [q \in Payments |-> d.pay[q].on[b]]
             g == [q \in Payments |-> e.pay[q].on[b]]
             n == on[b]
  <2>1. \A q \in Payments : f[q] \in Int /\ g[q] \in Int
    <3>1. \A q \in Payments : f[q] \in Nat /\ g[q] \in Nat
      BY PayTyped
    <3> QED BY <3>1
  <2>2. \A q \in Payments \ {p} : g[q] = f[q]
    BY <1>2
  <2>3. f[p] = 0
    BY NoPaymentTyped
  <2>4. g[p] = n
    BY <1>2 DEF PaymentOn
  <2>5. PaidOn(d, b) = Sum(f, Payments) /\ PaidOn(e, b) = Sum(g, Payments)
    BY DEF PaidOn
  <2>6. PaidOn(d, b) \in Nat /\ n \in Nat
    BY PayTyped
  <2> HIDE DEF f, g, n
  <2>7. Sum(g, Payments) = Sum(f, Payments) + g[p] - f[p]
    BY <2>1, <2>2, SetsFinite, SumChange
  <2>8. PaidOn(e, b) = PaidOn(d, b) + n
    BY <2>3, <2>4, <2>5, <2>6, <2>7
  <2> QED BY <2>8 DEF n
<1>4. ASSUME NEW b \in Bills
      PROVE  BillKept(e, s, b) /\ Due(e.bill[b]) = Due(d.bill[b]) - on[b]
  <2> DEFINE old == d.bill[b]
             row == e.bill[b]
             a == on[b]
  <2>1. /\ old \in BillRow /\ BillKept(d, s, b) /\ a \in Nat /\ row = PaidRow(old, a)
        /\ a > 0 => old.status \in OwingStatus /\ a <= old.balance
    BY <1>1
  <2>2. /\ row.total = old.total /\ row.posted = old.posted /\ row.paid = old.paid + a
        /\ a = 0 => row = old
        /\ a > 0 => row.balance = old.total - (old.paid + a) /\ row.status \in OwingStatus
    BY <2>1, PaidRowIs
  <2>3. /\ old.total \in Nat /\ old.paid \in Nat /\ old.balance \in Int /\ Due(old) \in Int
    BY <2>1, BillFields, DueTyped
  <2>4. /\ old.balance = old.total - old.paid /\ old.balance >= 0
        /\ old.posted <=> old.status \in OwingStatus
        /\ old.paid > 0 => old.status \in OwingStatus
        /\ old.paid = PaidOn(d, b) + SpentOn(s, b)
    BY <2>1 DEF BillKept
  <2>5. PaidOn(d, b) \in Nat /\ SpentOn(s, b) \in Nat /\ PaidOn(e, b) = PaidOn(d, b) + a
    <3>1. PaidOn(e, b) = PaidOn(d, b) + on[b]
      BY <1>3
    <3> QED BY <3>1, PayTyped
  <2> HIDE DEF old, row, a
  <2>6. row.paid = PaidOn(e, b) + SpentOn(s, b)
    BY <2>1, <2>2, <2>4, <2>5
  <2>7. /\ row.balance = row.total - row.paid /\ row.balance >= 0
        /\ row.posted <=> row.status \in OwingStatus
        /\ row.paid > 0 => row.status \in OwingStatus
    <3>1. CASE a = 0
      BY <2>2, <2>4, <3>1
    <3>2. CASE a > 0
      BY <2>1, <2>2, <2>3, <2>4, <3>2
    <3> QED BY <2>1, <3>1, <3>2
  <2>8. Due(row) = Due(old) - a
    <3>1. CASE a = 0
      BY <2>2, <2>3, <3>1
    <3>2. CASE a > 0
      BY <2>1, <2>2, <2>3, <2>4, <3>2 DEF Due
    <3> QED BY <2>1, <3>1, <3>2
  <2> QED BY <2>6, <2>7, <2>8 DEF BillKept, row, old, a
<1>5. \A c \in Credits : CreditKept(e, s, c)
  BY DEF PayRows, CreditKept
<1>6. ApKept(e)
  <2> DEFINE f == [b \in Bills |-> Due(e.bill[b])]
             g == [b \in Bills |-> Due(d.bill[b])]
             H == Holdings(d)
             n == Sum(on, Bills)
  <2>1. \A b \in Bills : f[b] \in Int /\ on[b] \in Int /\ g[b] = f[b] + on[b]
    <3>1. ASSUME NEW b \in Bills
          PROVE  /\ Due(e.bill[b]) \in Int /\ Due(d.bill[b]) \in Int /\ on[b] \in Nat
                 /\ Due(e.bill[b]) = Due(d.bill[b]) - on[b]
      BY <1>4, PayTyped
    <3> QED BY <3>1
  <2>2. Dues(e) = Sum(f, Bills) /\ Dues(d) = Sum(g, Bills)
    BY DEF Dues
  <2> HIDE DEF f, g
  <2>3. Sum(g, Bills) = Sum(f, Bills) + n
    BY <2>1, SetsFinite, SumPlus
  <2>4. Dues(d) \in Int /\ Dues(e) \in Int /\ H \in Int /\ n \in Nat
    BY PayTyped, SharesAddUp
  <2>5. d.ap = Dues(d) - H /\ H = Holdings(e)
    BY DEF PayRows, ApKept, Holdings
  <2> HIDE DEF H, n
  <2>6. e.ap = d.ap - n
    BY DEF n
  <2>7. e.ap = Dues(e) - H
    BY <2>2, <2>3, <2>4, <2>5, <2>6
  <2> QED BY <2>5, <2>7 DEF ApKept
<1>7. Calm(d, e, {})
  <2>1. ASSUME NEW b \in Bills, d.bill[b].status = "draft"
        PROVE  e.bill[b].status = "draft"
    <3>1. on[b] = 0
      BY <1>1, <2>1 DEF OwingStatus
    <3> QED BY <1>1, <2>1, <3>1 DEF PaidRow
  <2> QED BY <2>1 DEF Calm
<1> QED BY <1>4, <1>5, <1>6, <1>7 DEF PayRows

(* Paid a with a credit.                                                    *)
LEMMA CreditingKept ==
  ASSUME NEW d \in Db, NEW e \in Db, NEW s \in Spent, NEW t \in Spent, PayRows(d, s),
         NEW b \in Bills, NEW a \in Nat, d.bill[b].status \in OwingStatus,
         a <= d.bill[b].balance,
         NEW c \in Credits, d.credit[c].status \in LiveStatus, a <= d.credit[c].balance,
         e.bill = [d.bill EXCEPT ![b] = PaidBy(d.bill[b], a)], e.pay = d.pay,
         e.credit = [d.credit EXCEPT ![c] = CreditUsed(d.credit[c], a)], e.ap = d.ap,
         t = [s EXCEPT ![c][b] = @ + a]
  PROVE  PayRows(e, t) /\ Calm(d, e, {})
<1> DEFINE old == d.bill[b]
           row == PaidBy(old, a)
           was == d.credit[c]
           used == CreditUsed(was, a)
<1>1. old \in BillRow /\ BillKept(d, s, b) /\ was \in CreditRow /\ CreditKept(d, s, c)
  BY DbFields DEF PayRows
<1>2. /\ row \in BillRow /\ row.total = old.total /\ row.posted = old.posted
      /\ row.paid = old.paid + a /\ row.balance = old.total - (old.paid + a)
      /\ row.status \in OwingStatus
  BY <1>1, PaidByRow
<1>3. /\ used \in CreditRow /\ used.total = was.total /\ used.applied = was.applied + a
      /\ used.balance = was.total - (was.applied + a) /\ used.status \in LiveStatus
  BY <1>1, CreditUsedRow
<1>4. /\ old.total \in Nat /\ old.paid \in Nat /\ old.balance \in Int
      /\ old.balance = old.total - old.paid /\ old.posted
      /\ was.total \in Nat /\ was.applied \in Nat /\ was.balance \in Int
      /\ was.balance = was.total - was.applied
  BY <1>1, BillFields, CreditFields DEF BillKept, CreditKept
<1>5. /\ row.balance = old.balance - a /\ row.balance = row.total - row.paid /\ row.balance >= 0
      /\ used.balance = was.balance - a /\ used.balance = used.total - used.applied
      /\ used.balance >= 0
  BY <1>2, <1>3, <1>4
<1>6. /\ e.bill[b] = row /\ \A x \in Bills \ {b} : e.bill[x] = d.bill[x]
      /\ e.credit[c] = used /\ \A x \in Credits \ {c} : e.credit[x] = d.credit[x]
  BY DbFields
<1>7. /\ \A k \in Credits, x \in Bills : s[k][x] \in Nat /\ t[k][x] \in Nat
      /\ \A k \in Credits, x \in Bills : k # c \/ x # b => t[k][x] = s[k][x]
      /\ t[c][b] = s[c][b] + a
      /\ \A k \in Credits : k # c => t[k] = s[k]
  BY DEF Spent
<1>8. /\ \A x \in Bills \ {b} : SpentOn(t, x) = SpentOn(s, x)
      /\ SpentOn(t, b) = SpentOn(s, b) + a
  <2>1. ASSUME NEW x \in Bills \ {b}
        PROVE  SpentOn(t, x) = SpentOn(s, x)
    <3> DEFINE f == [k \in Credits |-> s[k][x]]
               g == [k \in Credits |-> t[k][x]]
    <3>1. \A k \in Credits : f[k] = g[k]
      BY <1>7
    <3> HIDE DEF f, g
    <3>2. Sum(f, Credits) = Sum(g, Credits)
      BY <3>1, SetsFinite, SumSame
    <3> QED BY <3>2 DEF SpentOn, f, g
  <2>2. SpentOn(t, b) = SpentOn(s, b) + a
    <3> DEFINE f == [k \in Credits |-> s[k][b]]
               g == [k \in Credits |-> t[k][b]]
    <3>1. \A k \in Credits : f[k] \in Int /\ g[k] \in Int
      <4>1. \A k \in Credits : f[k] \in Nat /\ g[k] \in Nat
        BY <1>7
      <4> QED BY <4>1
    <3>2. \A k \in Credits \ {c} : g[k] = f[k]
      BY <1>7
    <3>3. g[c] = f[c] + a
      BY <1>7
    <3> HIDE DEF f, g
    <3>4. Sum(g, Credits) = Sum(f, Credits) + g[c] - f[c]
      BY <3>1, <3>2, SetsFinite, SumChange, SMTT(40)
    <3>5. Sum(f, Credits) \in Int
      BY <3>1, SetsFinite, SumInt
    <3>6. Sum(g, Credits) = Sum(f, Credits) + a
      BY <3>1, <3>3, <3>4, <3>5
    <3> QED BY <3>6 DEF SpentOn, f, g
  <2> QED BY <2>1, <2>2
<1>9. Sum(t[c], Bills) = Sum(s[c], Bills) + a
  <2> DEFINE f == s[c]
             g == t[c]
  <2>1. \A x \in Bills : f[x] \in Int /\ g[x] \in Int
    <3>1. \A x \in Bills : f[x] \in Nat /\ g[x] \in Nat
      BY <1>7
    <3> QED BY <3>1
  <2>2. (\A x \in Bills \ {b} : g[x] = f[x]) /\ g[b] = f[b] + a
    BY <1>7
  <2> HIDE DEF f, g
  <2>3. Sum(g, Bills) = Sum(f, Bills) + g[b] - f[b]
    BY <2>1, <2>2, SetsFinite, SumChange, SMTT(40)
  <2>4. Sum(f, Bills) \in Int
    BY <2>1, SetsFinite, SumInt
  <2>5. Sum(g, Bills) = Sum(f, Bills) + a
    BY <2>1, <2>2, <2>3, <2>4
  <2> QED BY <2>5 DEF f, g
<1> HIDE DEF row, old, was, used
<1>10. ASSUME NEW x \in Bills
       PROVE  BillKept(e, t, x)
  <2>1. BillKept(d, s, x) /\ PaidOn(e, x) = PaidOn(d, x)
    BY PaidSame DEF PayRows
  <2>2. CASE x # b
    BY <1>6, <1>8, <2>1, <2>2 DEF BillKept
  <2>3. CASE x = b
    <3>1. old.paid = PaidOn(d, b) + SpentOn(s, b)
      BY <2>1, <2>3 DEF BillKept, old
    <3>2. PaidOn(d, b) \in Nat /\ SpentOn(s, b) \in Nat
      BY PayTyped
    <3>3. row.paid = PaidOn(e, b) + SpentOn(t, b)
      BY <1>2, <1>8, <2>1, <2>3, <3>1, <3>2
    <3> QED BY <1>2, <1>4, <1>5, <1>6, <2>3, <3>3 DEF BillKept
  <2> QED BY <2>2, <2>3
<1>11. ASSUME NEW x \in Credits
       PROVE  CreditKept(e, t, x)
  <2>1. CreditKept(d, s, x)
    BY DEF PayRows
  <2>2. CASE x # c
    BY <1>6, <1>7, <2>1, <2>2 DEF CreditKept
  <2>3. CASE x = c
    <3>1. was.applied = Sum(s[c], Bills)
      BY <2>1, <2>3 DEF CreditKept, was
    <3>2. used.applied = Sum(t[c], Bills)
      BY <1>3, <1>9, <3>1
    <3> QED BY <1>3, <1>5, <1>6, <2>3, <3>2 DEF CreditKept
  <2> QED BY <2>2, <2>3
<1>12. ApKept(e)
  <2> DEFINE F == Dues(d)
             G == Dues(e)
             H == Holdings(d)
             K == Holdings(e)
  <2>1. F \in Int /\ H \in Int
    BY PayTyped
  <2>2. /\ Due(row) = old.balance - a /\ Due(old) = old.balance
        /\ Held(used) = was.balance - a /\ Held(was) = was.balance
    BY <1>2, <1>3, <1>5 DEF Due, Held, old, was
  <2>3. /\ e.bill = [d.bill EXCEPT ![b] = row]
        /\ e.credit = [d.credit EXCEPT ![c] = used]
    BY DEF row, old, used, was
  <2>4. G = F + Due(row) - Due(old)
    BY <2>3, DuesChange DEF old
  <2>5. K = H + Held(used) - Held(was)
    BY <2>3, HeldChanges DEF was
  <2>6. d.ap = F - H
    BY DEF PayRows, ApKept
  <2> HIDE DEF F, G, H, K
  <2>7. e.ap = G - K
    BY <1>4, <2>1, <2>2, <2>4, <2>5, <2>6
  <2> QED BY <2>7 DEF ApKept, G, K
<1>13. Calm(d, e, {})
  BY <1>3, <1>6 DEF Calm, OwingStatus, LiveStatus
<1> QED BY <1>10, <1>11, <1>12, <1>13 DEF PayRows

LEMMA OwingIs ==
  /\ OwingStatus = {"open", "partial", "paid"}
  /\ "none" \notin OwingStatus /\ "draft" \notin OwingStatus /\ "gone" \notin OwingStatus
  /\ "none" \notin LiveStatus /\ "void" \notin LiveStatus /\ "gone" \notin LiveStatus
  BY DEF OwingStatus, LiveStatus

(* The bill whose request, once served, leaves a draft no draft.            *)
Touched(c) == IF c.op \in {"post", "deleteBill"} THEN {c.b} ELSE {}

LEMMA OneRowCalm ==
  ASSUME NEW d \in Db, NEW e, NEW b \in Bills, NEW row, e.bill = [d.bill EXCEPT ![b] = row],
         e.credit = d.credit, NEW X,
         b \in X \/ (d.bill[b].status = "draft" => row.status = "draft")
  PROVE  Calm(d, e, X)
<1>1. e.bill[b] = row /\ \A x \in Bills \ {b} : e.bill[x] = d.bill[x]
  BY DbFields
<1> QED BY <1>1 DEF Calm

LEMMA PayablesServed ==
  ASSUME TypeOK, PayablesSound, NEW r \in Requests, ServeStep(r)
  PROVE  PayRows(db', spent') /\ Calm(db, db', Touched(req[r]))
<1>1. /\ db \in Db /\ spent \in Spent /\ PayRows(db, spent) /\ Current(db, req[r])
      /\ db.ap \in Int
  BY DbFields DEF TypeOK, PayablesSound, PayRows
<1> DEFINE e == db'
           X == Touched(req[r])
<1>2. e \in Db
  BY TypeStep DEF Next, TypeOK
<1>3. ASSUME NEW b \in Bills, NEW row \in BillRow, BillSet(db, e, b, row),
             e.credit = db.credit, e.pay = db.pay, spent' = spent,
             BillRowSound(row), row.paid = db.bill[b].paid,
             e.ap = db.ap + Due(row) - Due(db.bill[b]),
             b \in X \/ (db.bill[b].status = "draft" => row.status = "draft")
      PROVE  PayRows(db', spent') /\ Calm(db, db', X)
  <2>1. e.bill = [db.bill EXCEPT ![b] = row]
    BY <1>3 DEF BillSet
  <2> HIDE DEF e, X
  <2>2. PayRows(e, spent)
    BY <1>1, <1>2, <1>3, <2>1, BillReplaced
  <2>3. Calm(db, e, X)
    BY <1>1, <1>3, <2>1, OneRowCalm
  <2> QED BY <1>3, <2>2, <2>3 DEF e
<1>4. ASSUME NEW b \in Bills
      PROVE  /\ db.bill[b] \in BillRow /\ BillKept(db, spent, b)
             /\ db.bill[b].total \in Nat /\ db.bill[b].paid \in Nat /\ db.bill[b].balance \in Int
             /\ db.bill[b].status \notin OwingStatus =>
                  db.bill[b].paid = 0 /\ Due(db.bill[b]) = 0
  <2>1. db.bill[b] \in BillRow /\ BillKept(db, spent, b)
    BY <1>1, DbFields DEF PayRows
  <2> QED BY <2>1, BillFields DEF BillKept, Due
<1>5. ASSUME NEW c \in Credits
      PROVE  /\ db.credit[c] \in CreditRow /\ CreditKept(db, spent, c)
             /\ db.credit[c].total \in Nat /\ db.credit[c].applied \in Nat
             /\ db.credit[c].status \notin LiveStatus =>
                  db.credit[c].applied = 0 /\ Held(db.credit[c]) = 0
  <2>1. db.credit[c] \in CreditRow /\ CreditKept(db, spent, c)
    BY <1>1, DbFields DEF PayRows
  <2> QED BY <2>1, CreditFields DEF CreditKept, Held
<1>6. CASE BillOrder(r)
  <2> DEFINE b == req[r].b
             link == OrderLink(db)
             row == OrderBill(link)
             total == Priced(link)
  <2>1. /\ b \in Bills /\ db.bill[b].status = "none" /\ BillSet(db, e, b, row)
        /\ e.credit = db.credit /\ e.pay = db.pay /\ e.ap = db.ap + total /\ spent' = spent
    BY <1>6, OrderBilled
  <2>2. row \in BillRow
    <3>1. e.bill[b] = row
      BY <1>1, <2>1, DbFields DEF BillSet
    <3> HIDE DEF e, row, b
    <3> QED BY <1>2, <2>1, <3>1, DbFields
  <2>3. /\ row.status = "open" /\ row.posted /\ row.paid = 0 /\ row.total = total
        /\ row.balance = total
    BY OrderBillIs
  <2>4. total \in Nat
    BY <1>1, OrderLinkTyped
  <2> HIDE DEF row, total, b
  <2>5. BillRowSound(row) /\ Due(row) = total
    BY <2>3, <2>4 DEF BillRowSound, Due, OwingStatus
  <2>6. db.bill[b].paid = 0 /\ Due(db.bill[b]) = 0
    BY <1>4, <2>1, OwingIs
  <2>7. e.ap = db.ap + Due(row) - Due(db.bill[b])
    BY <1>1, <2>1, <2>4, <2>5, <2>6
  <2> QED BY <1>3, <2>1, <2>2, <2>3, <2>5, <2>6, <2>7
<1>7. CASE CreateBill(r)
  <2> DEFINE b == req[r].b
             t == req[r].t
             draft == req[r].draft
  <2>1. /\ b \in Bills /\ t \in Amounts /\ draft \in BOOLEAN /\ db.bill[b].status = "none"
        /\ e.credit = db.credit /\ e.pay = db.pay /\ spent' = spent
        /\ draft => e.ap = db.ap
        /\ ~draft => e.ap = db.ap + t
    BY <1>7, BillCreated
  <2>2. PICK row \in BillRow :
          /\ BillSet(db, e, b, row) /\ row.paid = 0 /\ row.total = t /\ row.balance = t
          /\ row.posted = ~draft /\ row.status = IF draft THEN "draft" ELSE "open"
    BY <1>7, BillCreated
  <2>3. t \in Nat
    BY <2>1, AmountsPositive
  <2> HIDE DEF t, draft, b
  <2>4. BillRowSound(row) /\ Due(row) = IF draft THEN 0 ELSE t
    <3>1. CASE draft
      <4>1. row.status = "draft" /\ row.posted = FALSE
        BY <2>2, <3>1
      <4>2. row.paid = 0 /\ row.total = t /\ row.balance = t
        BY <2>2
      <4>3. BillRowSound(row) /\ Due(row) = 0
        BY <2>3, <4>1, <4>2, OwingIs DEF BillRowSound, Due
      <4> QED BY <3>1, <4>3
    <3>2. CASE ~draft
      <4>1. row.status = "open" /\ row.posted = TRUE
        BY <2>2, <3>2
      <4>2. row.paid = 0 /\ row.total = t /\ row.balance = t
        BY <2>2
      <4>3. BillRowSound(row) /\ Due(row) = t
        BY <2>3, <4>1, <4>2, OwingIs DEF BillRowSound, Due
      <4> QED BY <3>2, <4>3
    <3> QED BY <3>1, <3>2
  <2>5. db.bill[b].paid = 0 /\ Due(db.bill[b]) = 0
    BY <1>4, <2>1, OwingIs
  <2>6. e.ap = db.ap + Due(row) - Due(db.bill[b])
    BY <1>1, <2>1, <2>3, <2>4, <2>5
  <2> QED BY <1>3, <2>1, <2>2, <2>4, <2>5, <2>6
<1>8. CASE UpdateBill(r)
  <2> DEFINE b == req[r].b
             t == req[r].t
             seen == req[r].seen
  <2>1. /\ b \in Bills /\ t \in Amounts /\ req[r].op = "updateBill"
        /\ e.credit = db.credit /\ e.pay = db.pay /\ spent' = spent /\ e.ap = db.ap
    BY <1>8, BillUpdated
  <2>2. PICK row \in BillRow :
          /\ BillSet(db, e, b, row) /\ row.paid = seen.paid /\ row.total = t /\ row.balance = t
          /\ row.posted = seen.posted /\ row.status = seen.status
    BY <1>8, BillUpdated
  <2>3. seen = db.bill[b] /\ seen.status = "draft"
    BY <1>1, <2>1 DEF Current
  <2>4. t \in Nat
    BY <2>1, AmountsPositive
  <2> HIDE DEF t, seen, b
  <2>5. db.bill[b].paid = 0 /\ Due(db.bill[b]) = 0 /\ ~seen.posted
    BY <1>4, <2>1, <2>3, OwingIs DEF BillKept
  <2>6. BillRowSound(row) /\ Due(row) = 0
    BY <2>2, <2>3, <2>4, <2>5 DEF BillRowSound, Due, OwingStatus
  <2>7. e.ap = db.ap + Due(row) - Due(db.bill[b])
    BY <1>1, <2>1, <2>5, <2>6
  <2> QED BY <1>3, <2>1, <2>2, <2>3, <2>5, <2>6, <2>7
<1>9. CASE Post(r)
  <2> DEFINE b == req[r].b
             old == db.bill[b]
  <2>1. /\ b \in Bills /\ req[r].op = "post"
        /\ e.credit = db.credit /\ e.pay = db.pay /\ spent' = spent /\ e.ap = db.ap + old.total
    BY <1>9, BillPosted
  <2>2. PICK row \in BillRow :
          /\ BillSet(db, e, b, row) /\ row.paid = old.paid /\ row.total = old.total
          /\ row.balance = old.balance /\ row.posted = TRUE /\ row.status = "open"
    BY <1>9, BillPosted
  <2>3. old.status = "draft" /\ b \in X
    BY <1>1, <2>1 DEF Current, Touched
  <2> HIDE DEF b, X
  <2>4. old.paid = 0 /\ Due(old) = 0 /\ old.balance = old.total /\ old.total \in Nat
    BY <1>4, <2>1, <2>3, OwingIs DEF BillKept
  <2> HIDE DEF old
  <2>5. BillRowSound(row) /\ Due(row) = old.total
    BY <2>2, <2>3, <2>4 DEF BillRowSound, Due, OwingStatus
  <2>6. e.ap = db.ap + Due(row) - Due(db.bill[b])
    BY <1>1, <2>1, <2>4, <2>5 DEF old
  <2>7. row.paid = db.bill[b].paid
    BY <2>2 DEF old
  <2> QED BY <1>3, <2>1, <2>2, <2>3, <2>5, <2>6, <2>7 DEF X
<1>10. CASE DeleteBill(r)
  <2> DEFINE b == req[r].b
             seen == req[r].seen
             row == [NoBill EXCEPT !.status = "gone"]
  <2>1. /\ b \in Bills /\ req[r].op = "deleteBill" /\ BillSet(db, e, b, row)
        /\ e.credit = db.credit /\ e.pay = db.pay /\ spent' = spent
        /\ e.ap = IF seen.posted THEN db.ap - seen.total ELSE db.ap
    BY <1>10, BillDeleted
  <2>2. seen = db.bill[b] /\ seen.paid = 0 /\ b \in X
    BY <1>1, <2>1 DEF Current, MayDelete, Touched
  <2>3. /\ row \in BillRow /\ row.paid = 0 /\ row.total = 0 /\ row.balance = 0 /\ ~row.posted
        /\ row.status = "gone"
    BY NoBillTyped DEF BillRow
  <2> HIDE DEF b, X, row, seen
  <2>4. BillRowSound(row) /\ Due(row) = 0
    BY <2>3, OwingIs DEF BillRowSound, Due
  <2>5. /\ BillKept(db, spent, b) /\ db.bill[b].total \in Nat /\ db.bill[b].paid \in Nat
        /\ db.bill[b].balance \in Int
    BY <1>4, <2>1
  <2>6. Due(db.bill[b]) = IF seen.posted THEN seen.total ELSE 0
    BY <2>2, <2>5 DEF BillKept, Due
  <2>7. e.ap = db.ap + Due(row) - Due(db.bill[b])
    BY <1>1, <2>1, <2>2, <2>4, <2>5, <2>6
  <2>8. row.paid = db.bill[b].paid
    BY <2>2, <2>3
  <2> QED BY <1>3, <2>1, <2>2, <2>3, <2>4, <2>7, <2>8 DEF X
<1>11. CASE Pay(r)
  <2> DEFINE on == req[r].on
             proof == req[r].proof
  <2>1. PICK p \in Payments :
          /\ on \in [Bills -> Nat] /\ MayPayAll(db, on) /\ db.pay[p] = NoPayment
          /\ e.bill = PaidRows(db, on) /\ e.credit = db.credit
          /\ e.pay = [db.pay EXCEPT ![p] = PaymentOn(on, proof)]
          /\ e.ap = db.ap - Sum(on, Bills) /\ spent' = spent /\ req[r].op = "pay"
    BY <1>11, BillPaid
  <2>2. X = {}
    BY <2>1 DEF Touched
  <2> HIDE DEF on, proof, e, X
  <2>3. PayRows(e, spent) /\ Calm(db, e, {})
    BY <1>1, <1>2, <2>1, PayingKept
  <2> QED BY <2>1, <2>2, <2>3 DEF e, X
<1>12. ASSUME NEW c \in Credits, NEW row \in CreditRow,
              SameOrder(db, e), e.bill = db.bill, e.pay = db.pay, spent' = spent,
              e.credit = [db.credit EXCEPT ![c] = row], CreditRowSound(row),
              row.applied = db.credit[c].applied,
              e.ap = db.ap - Held(row) + Held(db.credit[c]),
              db.credit[c].status \in {"void", "gone"} => row.status \in {"void", "gone"}
       PROVE  PayRows(db', spent') /\ Calm(db, db', X)
  <2> HIDE DEF e, X
  <2>1. PayRows(e, spent)
    BY <1>1, <1>2, <1>12, CreditReplaced
  <2>2. Calm(db, e, X)
    <3>1. e.credit[c] = row /\ \A x \in Credits \ {c} : e.credit[x] = db.credit[x]
      BY <1>1, <1>12, DbFields
    <3> QED BY <1>12, <3>1 DEF Calm
  <2> QED BY <1>12, <2>1, <2>2 DEF e
<1>13. CASE CreateCredit(r)
  <2> DEFINE c == req[r].c
             t == req[r].t
  <2>1. /\ c \in Credits /\ t \in Amounts /\ db.credit[c].status = "none"
        /\ SameOrder(db, e) /\ e.bill = db.bill /\ e.pay = db.pay
        /\ e.ap = db.ap - t /\ spent' = spent
    BY <1>13, CreditCreated
  <2>2. PICK row \in CreditRow :
          /\ e.credit = [db.credit EXCEPT ![c] = row]
          /\ row.status = "open" /\ row.applied = 0 /\ row.total = t /\ row.balance = t
    BY <1>13, CreditCreated
  <2>3. t \in Nat
    BY <2>1, AmountsPositive
  <2> HIDE DEF c, t
  <2>4. CreditRowSound(row) /\ Held(row) = t
    BY <2>2, <2>3 DEF CreditRowSound, Held, LiveStatus
  <2>5. db.credit[c].applied = 0 /\ Held(db.credit[c]) = 0
    BY <1>5, <2>1, OwingIs
  <2>6. e.ap = db.ap - Held(row) + Held(db.credit[c])
    BY <1>1, <2>1, <2>3, <2>4, <2>5
  <2> QED BY <1>12, <2>1, <2>2, <2>4, <2>5, <2>6
<1>14. CASE VoidCredit(r)
  <2> DEFINE c == req[r].c
             seen == req[r].seen
  <2>1. /\ c \in Credits /\ req[r].op = "voidCredit"
        /\ SameOrder(db, e) /\ e.bill = db.bill /\ e.pay = db.pay
        /\ e.ap = db.ap + seen.total /\ spent' = spent
    BY <1>14, CreditVoided
  <2>2. PICK row \in CreditRow :
          /\ e.credit = [db.credit EXCEPT ![c] = row]
          /\ row.status = "void" /\ row.applied = seen.applied
    BY <1>14, CreditVoided
  <2>3. seen = db.credit[c] /\ seen.applied = 0 /\ seen.status \in LiveStatus
    BY <1>1, <2>1 DEF Current, MayVoid, MayVoidApplied, LiveStatus
  <2> HIDE DEF c, seen
  <2>4. CreditRowSound(row) /\ Held(row) = 0
    BY <2>2, <2>3, OwingIs DEF CreditRowSound, Held
  <2>5. Held(db.credit[c]) = seen.total /\ seen.total \in Nat
    <3>1. CreditKept(db, spent, c) /\ db.credit[c].total \in Nat
      BY <1>5, <2>1
    <3> QED BY <2>3, <3>1 DEF CreditKept, Held
  <2>6. e.ap = db.ap - Held(row) + Held(db.credit[c])
    BY <1>1, <2>1, <2>4, <2>5
  <2> QED BY <1>12, <2>1, <2>2, <2>3, <2>4, <2>6
<1>15. CASE RemoveCredit(r)
  <2> DEFINE c == req[r].c
             row == [NoCredit EXCEPT !.status = "gone"]
  <2>1. /\ c \in Credits /\ req[r].op = "removeCredit"
        /\ SameOrder(db, e) /\ e.bill = db.bill /\ e.pay = db.pay
        /\ e.credit = [db.credit EXCEPT ![c] = row]
        /\ e.ap = db.ap /\ spent' = spent
    BY <1>15, CreditRemoved
  <2>2. row \in CreditRow /\ row.status = "gone" /\ row.applied = 0
    BY NoCreditTyped DEF CreditRow, NoCredit
  <2>3. db.credit[c].status \in {"void", "gone"}
    BY <1>1, <2>1 DEF Current
  <2> HIDE DEF c, row
  <2>4. CreditRowSound(row) /\ Held(row) = 0
    BY <2>2, OwingIs DEF CreditRowSound, Held
  <2>5. db.credit[c].applied = 0 /\ Held(db.credit[c]) = 0
    BY <1>5, <2>1, <2>3, OwingIs
  <2>6. e.ap = db.ap - Held(row) + Held(db.credit[c])
    BY <1>1, <2>1, <2>4, <2>5
  <2> QED BY <1>12, <2>1, <2>2, <2>4, <2>5, <2>6
<1> QED BY <1>6, <1>7, <1>8, <1>9, <1>10, <1>11, <1>13, <1>14, <1>15 DEF ServeStep

LEMMA PayablesLocked ==
  ASSUME TypeOK, PayablesSound, LockedStep
  PROVE  PayRows(db', spent') /\ Calm(db, db', {})
<1>1. /\ db \in Db /\ spent \in Spent /\ PayRows(db, spent)
  BY DEF TypeOK, PayablesSound, PayRows
<1> DEFINE e == db'
           t == spent'
<1>2. e \in Db /\ t \in Spent
  BY TypeStep DEF Next, TypeOK
<1>3. CASE CreateOrder \/ UpdateOrder \/ DeleteOrder \/ UpdateStatus \/ Receive
  <2>1. SameBooks(db, e)
    BY <1>3, OrderCreated, OrderUpdated, OrderDeleted, StatusUpdated, LineReceived
  <2>2. t = spent
    BY <1>3 DEF CreateOrder, UpdateOrder, DeleteOrder, UpdateStatus, Receive
  <2> HIDE DEF e, t
  <2>3. PayRows(e, spent) /\ Calm(db, e, {})
    BY <1>1, <2>1, PayablesAsTheyWere DEF SameBooks
  <2> QED BY <2>2, <2>3 DEF e, t
<1>4. CASE ApplyCredit
  <2>1. PICK c \in Credits, b \in Bills, a \in Amounts :
          /\ MayCredit(db, c, b, a) /\ BillSet(db, e, b, PaidBy(db.bill[b], a))
          /\ e.credit = [db.credit EXCEPT ![c] = CreditUsed(db.credit[c], a)]
          /\ e.pay = db.pay /\ e.ap = db.ap /\ t = [spent EXCEPT ![c][b] = @ + a]
    BY <1>4, CreditApplied
  <2>2. /\ a \in Nat /\ db.bill[b].status \in OwingStatus /\ a <= db.bill[b].balance
        /\ db.credit[c].status \in LiveStatus /\ a <= db.credit[c].balance
    BY <2>1, AmountsPositive DEF MayCredit, MayPay, MayPayMore, OwingStatus, LiveStatus
  <2>3. e.bill = [db.bill EXCEPT ![b] = PaidBy(db.bill[b], a)]
    BY <2>1 DEF BillSet
  <2> HIDE DEF e, t
  <2>4. PayRows(e, t) /\ Calm(db, e, {})
    BY <1>1, <1>2, <2>1, <2>2, <2>3, CreditingKept
  <2> QED BY <2>4 DEF e, t
<1>5. CASE Settle
  <2>1. PICK c \in Credits, b \in Bills, a \in Amounts, on \in Shares, p \in Payments,
             proof \in Proofs : SettledWith(c, b, a, on, p, proof)
    BY <1>5, BillSettled
  <2> DEFINE m == Credited(db, c, b, a)
  <2>2. /\ MayCredit(db, c, b, a) /\ MayPayAll(m, on) /\ db.pay[p] = NoPayment
        /\ on \in [Bills -> Nat] /\ e.bill = PaidRows(m, on)
        /\ e.credit = [db.credit EXCEPT ![c] = CreditUsed(db.credit[c], a)]
        /\ e.pay = [db.pay EXCEPT ![p] = PaymentOn(on, proof)]
        /\ e.ap = db.ap - Sum(on, Bills) /\ t = [spent EXCEPT ![c][b] = @ + a]
    BY <2>1 DEF SettledWith
  <2>3. /\ a \in Nat /\ db.bill[b].status \in OwingStatus /\ a <= db.bill[b].balance
        /\ db.credit[c].status \in LiveStatus /\ a <= db.credit[c].balance
    BY <2>2, AmountsPositive DEF MayCredit, MayPay, MayPayMore, OwingStatus, LiveStatus
  <2> HIDE DEF e, t, m
  <2>4. /\ m \in Db /\ m.bill = [db.bill EXCEPT ![b] = PaidBy(db.bill[b], a)]
        /\ m.credit = [db.credit EXCEPT ![c] = CreditUsed(db.credit[c], a)]
        /\ m.pay = db.pay /\ m.ap = db.ap
    BY <1>1, <2>3, CreditedDb DEF m, BillSet
  <2>5. PayRows(m, t) /\ Calm(db, m, {})
    BY <1>1, <1>2, <2>2, <2>3, <2>4, CreditingKept, ZenonT(60)
  <2>6. /\ m.pay[p] = NoPayment /\ e.credit = m.credit /\ e.ap = m.ap - Sum(on, Bills)
        /\ e.pay = [m.pay EXCEPT ![p] = PaymentOn(on, proof)]
    BY <2>2, <2>4
  <2>7. PayRows(e, t) /\ Calm(m, e, {})
    BY <1>2, <2>2, <2>4, <2>5, <2>6, PayingKept
  <2>8. Calm(db, e, {})
    BY <2>5, <2>7 DEF Calm
  <2> QED BY <2>7, <2>8 DEF e, t
<1> QED BY <1>3, <1>4, <1>5 DEF LockedStep

LEMMA CallReads ==
  ASSUME NEW c \in Calls
  PROVE  /\ c.op \in {"post", "updateBill", "deleteBill"} => c.b \in Bills
         /\ c.op \in {"voidCredit", "removeCredit"} => c.c \in Credits
         /\ c.op = "voidCredit" => c.seen \in CreditRow
  BY CallShapes DEF PostCall, UpdateBillCall, DeleteBillCall, VoidCreditCall, RemoveCreditCall

Risky == {"updateBill", "deleteBill", "voidCredit"}

LEMMA CurrentKept ==
  ASSUME NEW d, NEW e, NEW X, Calm(d, e, X), NEW c \in Calls, Current(d, c), c.op \notin Risky,
         c.op = "post" => c.b \notin X
  PROVE  Current(e, c)
  BY CallReads DEF Calm, Current, Risky

PostsApart(q) ==
  \A r, p \in Requests :
    q[r].op = "post" /\ q[p].op = "post" /\ q[r].b = q[p].b => r = p

LEMMA PayablesStep ==
  ASSUME Risky \cap Overlapping = {}, TypeOK, PayablesSound, Sole(Risky), [Next]_vars
  PROVE  PayablesSound'
<1>1. /\ req \in [Requests -> Calls] /\ db \in Db /\ spent \in Spent /\ PayRows(db, spent)
      /\ PostsApart(req)
      /\ \A r \in Requests : Current(db, req[r])
  BY DEF TypeOK, PayablesSound, PayRows, PostsApart
<1>2. SUFFICES /\ PayRows(db', spent') /\ PostsApart(req')
               /\ \A r \in Requests : Current(db', req'[r])
  BY DEF PayablesSound, PayRows, PostsApart
<1>3. ASSUME NEW r \in Requests, NEW c, req' = [req EXCEPT ![r] = c], c.op # "post"
      PROVE  PostsApart(req')
  BY <1>1, <1>3 DEF PostsApart
<1>4. ASSUME NEW r \in Requests, AskStep(r)
      PROVE  /\ PayRows(db', spent') /\ PostsApart(req')
             /\ \A q \in Requests : Current(db', req'[q])
  <2>1. PICK c \in Calls : Ask(r, c) /\ AskedNow(c)
    BY <1>4, Asked
  <2>2. /\ req' = [req EXCEPT ![r] = c] /\ db' = db /\ spent' = spent
        /\ Current(db, c)
        /\ c.op = "post" => BillFree(c.b)
    BY <2>1 DEF Ask, AskedNow
  <2>3. PostsApart(req')
    <3>1. CASE c.op # "post"
      BY <1>3, <2>2, <3>1
    <3>2. CASE c.op = "post"
      <4>1. \A q \in Requests : req[q].op = "post" => req[q].b # c.b
        BY <2>2, <3>2 DEF BillFree, Serving
      <4>2. req'[r] = c /\ \A q \in Requests \ {r} : req'[q] = req[q]
        BY <1>1, <2>2
      <4> QED BY <1>1, <4>1, <4>2 DEF PostsApart
    <3> QED BY <3>1, <3>2
  <2>4. \A q \in Requests : Current(db', req'[q])
    BY <1>1, <2>2
  <2> QED BY <1>1, <2>2, <2>3, <2>4
<1>5. ASSUME NEW r \in Requests, ServeStep(r)
      PROVE  /\ PayRows(db', spent') /\ PostsApart(req')
             /\ \A q \in Requests : Current(db', req'[q])
  <2>1. ~Idle(r) /\ req' = [req EXCEPT ![r] = After(req[r])] /\ After(req[r]) \in Calls
    BY <1>5, Served
  <2> DEFINE X == Touched(req[r])
             e == db'
  <2>2. PayRows(e, spent') /\ Calm(db, e, X)
    BY <1>5, PayablesServed
  <2>3. PostsApart(req')
    <3>1. After(req[r]).op # "post"
      BY DEF After, Done
    <3> QED BY <1>3, <2>1, <3>1
  <2>4. Current(e, After(req[r]))
    <3>1. CASE req[r].op = "voidCredit" /\ req[r].remove
      <4> DEFINE c == req[r].c
      <4>1. VoidCredit(r)
        BY <1>5, <3>1 DEF ServeStep, BillOrder, CreateBill, UpdateBill, Post, DeleteBill, Pay,
                          CreateCredit, RemoveCredit, Serving
      <4>2. c \in Credits /\ \E row \in CreditRow :
              e.credit = [db.credit EXCEPT ![c] = row] /\ row.status = "void"
        BY <4>1, CreditVoided
      <4>3. e.credit[c].status = "void"
        BY <1>1, <4>2, DbFields
      <4> HIDE DEF e
      <4> QED BY <3>1, <4>3 DEF Current, After
    <3>2. CASE ~(req[r].op = "voidCredit" /\ req[r].remove)
      BY <3>2 DEF Current, After, Done
    <3> QED BY <3>1, <3>2
  <2>5. ASSUME NEW q \in Requests, q # r
        PROVE  Current(e, req[q])
    <3>1. req[q].op \notin Risky
      BY <2>1, <2>5 DEF Sole
    <3>2. req[q].op = "post" => req[q].b \notin X
      <4>1. SUFFICES ASSUME req[q].op = "post", req[q].b \in X
                     PROVE  FALSE
        OBVIOUS
      <4>2. req[r].op \in {"post", "deleteBill"} /\ req[q].b = req[r].b
        BY <4>1 DEF Touched
      <4>3. CASE req[r].op = "post"
        BY <1>1, <2>5, <4>1, <4>2, <4>3 DEF PostsApart
      <4>4. CASE req[r].op = "deleteBill"
        BY <2>5, <4>1, <4>4 DEF Sole, Risky, Idle
      <4> QED BY <4>2, <4>3, <4>4
    <3> HIDE DEF e, X
    <3> QED BY <1>1, <2>2, <3>1, <3>2, CurrentKept
  <2>6. \A q \in Requests : Current(e, req'[q])
    BY <1>1, <2>1, <2>4, <2>5
  <2> QED BY <2>2, <2>3, <2>6
<1>6. ASSUME NEW r \in Requests, Drop(r)
      PROVE  /\ PayRows(db', spent') /\ PostsApart(req')
             /\ \A q \in Requests : Current(db', req'[q])
  <2>1. req' = [req EXCEPT ![r] = Done] /\ db' = db /\ spent' = spent /\ Done.op # "post"
    BY <1>6 DEF Drop, Done
  <2>2. Current(db, Done)
    BY DEF Current, Done
  <2> QED BY <1>1, <1>3, <2>1, <2>2
<1>7. CASE LockedStep
  <2>1. req' = req /\ \A q \in Requests : Idle(q) \/ req[q].op \in Overlapping
    BY <1>7, Locked
  <2> DEFINE e == db'
  <2>2. PayRows(e, spent') /\ Calm(db, e, {})
    BY <1>7, PayablesLocked
  <2>3. ASSUME NEW q \in Requests
        PROVE  Current(e, req[q])
    <3>1. req[q].op \notin Risky
      BY <2>1 DEF Idle, Risky
    <3> HIDE DEF e
    <3> QED BY <1>1, <2>2, <3>1, CurrentKept
  <2> QED BY <1>1, <2>1, <2>2, <2>3
<1>8. CASE UNCHANGED vars
  BY <1>1, <1>8 DEF vars
<1> QED BY <1>4, <1>5, <1>6, <1>7, <1>8 DEF Next

LEMMA PayablesInit ==
  ASSUME Init
  PROVE  PayablesSound /\ OwedKept
<1>1. db \in Db /\ spent \in Spent
  BY InitRows DEF TypeOK
<1>2. ASSUME NEW b \in Bills
      PROVE  BillKept(db, spent, b) /\ Due(db.bill[b]) = 0
  <2> DEFINE f == [p \in Payments |-> db.pay[p].on[b]]
             g == [c \in Credits |-> spent[c][b]]
  <2>1. (\A p \in Payments : f[p] = 0) /\ (\A c \in Credits : g[c] = 0)
    BY InitRows, NoPaymentTyped
  <2>2. PaidOn(db, b) = Sum(f, Payments) /\ SpentOn(spent, b) = Sum(g, Credits)
    BY DEF PaidOn, SpentOn
  <2> HIDE DEF f, g
  <2>3. PaidOn(db, b) = 0 /\ SpentOn(spent, b) = 0
    BY <2>1, <2>2, SetsFinite, SumZero
  <2>4. db.bill[b] = NoBill /\ NoBill.status = "none"
    BY InitRows DEF NoBill
  <2> QED BY <2>3, <2>4, NoBillTyped, OwingIs DEF BillKept, Due
<1>3. ASSUME NEW c \in Credits
      PROVE  CreditKept(db, spent, c) /\ Held(db.credit[c]) = 0
  <2> DEFINE f == spent[c]
  <2>1. \A b \in Bills : f[b] = 0
    BY InitRows
  <2> HIDE DEF f
  <2>2. Sum(f, Bills) = 0
    BY <2>1, SetsFinite, SumZero
  <2>3. db.credit[c] = NoCredit /\ NoCredit.status = "none" /\ NoCredit.applied = 0
    BY InitRows DEF NoCredit
  <2> QED BY <2>2, <2>3, OwingIs DEF CreditKept, Held, f
<1>4. ApKept(db)
  <2> DEFINE f == [b \in Bills |-> Due(db.bill[b])]
             g == [c \in Credits |-> Held(db.credit[c])]
  <2>1. (\A b \in Bills : f[b] = 0) /\ (\A c \in Credits : g[c] = 0)
    BY <1>2, <1>3
  <2>2. Dues(db) = Sum(f, Bills) /\ Holdings(db) = Sum(g, Credits)
    BY DEF Dues, Holdings
  <2> HIDE DEF f, g
  <2>3. Dues(db) = 0 /\ Holdings(db) = 0
    BY <2>1, <2>2, SetsFinite, SumZero
  <2> QED BY <2>3, InitRows DEF ApKept
<1>5. \A r \in Requests : Current(db, req[r]) /\ req[r].op = "idle"
  BY InitRows DEF Current, Done
<1> QED BY <1>2, <1>3, <1>4, <1>5, InitRows DEF PayablesSound, OwedKept, Idle, ReadsOwed

(* What owing bills and live credits show is what all of them are due.      *)
LEMMA DuesOfOwing ==
  ASSUME NEW d \in Db
  PROVE  /\ Sum([b \in Bills |-> d.bill[b].balance], Owing(d)) = Dues(d)
         /\ Sum([c \in Credits |-> d.credit[c].balance], LiveCredits(d)) = Holdings(d)
<1>1. Sum([b \in Bills |-> d.bill[b].balance], Owing(d)) = Dues(d)
  <2> DEFINE f == [b \in Bills |-> d.bill[b].balance]
             g == [b \in Bills |-> Due(d.bill[b])]
             T == Owing(d)
  <2>1. T \in SUBSET Bills /\ IsFiniteSet(T)
    <3>1. T \in SUBSET Bills
      BY DEF Owing
    <3> QED BY <3>1, SetsFinite, FS_Subset
  <2>2. \A b \in Bills : g[b] \in Int
    BY DbFields, DueTyped
  <2>3. (\A b \in T : f[b] = g[b]) /\ (\A b \in Bills \ T : g[b] = 0)
    BY DEF Owing, Due, OwingStatus
  <2> HIDE DEF f, g, T
  <2>4. Sum(g, Bills) = Sum(g, T)
    BY <2>1, <2>2, <2>3, SetsFinite, SumWithin
  <2>5. Sum(f, T) = Sum(g, T)
    BY <2>1, <2>3, SumSame
  <2> QED BY <2>4, <2>5 DEF f, g, T, Dues
<1>2. Sum([c \in Credits |-> d.credit[c].balance], LiveCredits(d)) = Holdings(d)
  <2> DEFINE f == [c \in Credits |-> d.credit[c].balance]
             g == [c \in Credits |-> Held(d.credit[c])]
             T == LiveCredits(d)
  <2>1. T \in SUBSET Credits /\ IsFiniteSet(T)
    <3>1. T \in SUBSET Credits
      BY DEF LiveCredits
    <3> QED BY <3>1, SetsFinite, FS_Subset
  <2>2. \A c \in Credits : g[c] \in Int
    BY DbFields, HeldTyped
  <2>3. (\A c \in T : f[c] = g[c]) /\ (\A c \in Credits \ T : g[c] = 0)
    BY DEF LiveCredits, Held, LiveStatus
  <2> HIDE DEF f, g, T
  <2>4. Sum(g, Credits) = Sum(g, T)
    BY <2>1, <2>2, <2>3, SetsFinite, SumWithin
  <2>5. Sum(f, T) = Sum(g, T)
    BY <2>1, <2>3, SumSame
  <2> QED BY <2>4, <2>5 DEF f, g, T, Holdings
<1> QED BY <1>1, <1>2

LEMMA PayablesFollow ==
  ASSUME TypeOK, PayablesSound, OwedKept
  PROVE  PayablesTie
<1>1. db \in Db /\ ApKept(db)
  BY DEF TypeOK, PayablesSound
<1>2. \A b \in Owing(db) : /\ b \in Bills
                           /\ db.bill[b].paid = PaidOn(db, b) + SpentOn(spent, b)
                           /\ db.bill[b].balance >= 0
  BY DEF PayablesSound, BillKept, Owing
<1>3. \A c \in LiveCredits(db) : /\ db.credit[c].applied = Sum(spent[c], Bills)
                                 /\ db.credit[c].balance >= 0
  BY DEF PayablesSound, CreditKept, LiveCredits, LiveStatus
<1>4. apart => db.owed = db.ap
  BY DEF OwedKept
<1> QED BY <1>1, <1>2, <1>3, <1>4, DuesOfOwing DEF PayablesTie, ApKept, PaidOn, SpentOn

(* Qa invariant I7: as long as a draft's edit, a bill's deletion and a      *)
(* credit's voiding, which write what they read without a lock, are served  *)
(* alone, account 2000 is what posted bills leave unpaid less what live     *)
(* credits hold; a bill says paid what payments and credits paid on it; no  *)
(* bill, credit or payment is spent beyond its amount; and while no two     *)
(* requests overlap at all, the vendor's running balance is account 2000.   *)
THEOREM PayablesAlwaysTie ==
  ASSUME {"updateBill", "deleteBill", "voidCredit"} \cap Overlapping = {}
  PROVE  Spec => []PayablesTie
<1> DEFINE I == TypeOK /\ Sole(Risky) /\ PayablesSound /\ OwedKept
<1>1. Risky \cap Overlapping = {} /\ "idle" \notin Risky /\ "removeCredit" \notin Risky
  BY DEF Risky
<1>2. Init => I
  BY <1>1, InitRows, SoleInit, PayablesInit
<1>3. I /\ [Next]_vars => I'
  <2> SUFFICES ASSUME I, [Next]_vars
               PROVE  I'
    OBVIOUS
  <2>1. Sole(Risky)'
    BY <1>1, SoleStep
  <2> QED BY <1>1, <2>1, TypeStep, PayablesStep, OwedStep
<1>4. I => PayablesTie
  BY PayablesFollow
<1> QED BY <1>2, <1>3, <1>4, PTL DEF Spec
=============================================================================
