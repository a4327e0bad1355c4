---------------------------- MODULE Receivables ----------------------------
(***************************************************************************)
(* What one customer owes: invoices, the receipts and advances that settle *)
(* them, credit memos, the delivery sales that raise an invoice and settle *)
(* it in one transaction, the customer's running balance and the accounts  *)
(* 1100 (receivable), 2400 (advances) and cash.                            *)
(*                                                                         *)
(* db is the committed database.  A handler is two steps: Ask reads what   *)
(* the handler reads before its first lock or write, and remembers it in   *)
(* seen; the action named after the handler is everything from there to    *)
(* its commit.  Isolation is READ COMMITTED: only rows read FOR UPDATE are *)
(* re-read.  Amounts are whole units; half-units of rounding (the          *)
(* MONEY_TOLERANCE) and due dates (status overdue) are left out.           *)
(***************************************************************************)
EXTENDS FiniteSets, FiniteSums

CONSTANTS Invoices,    \* invoice ids, numbered in the order they fall due
          Receipts, Memos,
          Requests,    \* HTTP requests being served at once
          Overlapping, \* operations that are asked for while others are served
          Amounts,     \* amounts of documents
          VoidAgain,   \* may a request void an invoice that is void?
          MaxWrites    \* bound: transactions that commit

ASSUME ReceivablesAssumption ==
  /\ Invoices \subseteq Nat /\ IsFiniteSet(Invoices)
  /\ IsFiniteSet(Receipts) /\ IsFiniteSet(Memos)
  /\ Invoices \cap Receipts = {} /\ Invoices \cap Memos = {} /\ Receipts \cap Memos = {}
  /\ Amounts \subseteq Nat \ {0}
  /\ VoidAgain \in BOOLEAN
  /\ MaxWrites \in Nat

VARIABLES db,      \* the committed rows, see Init
          req,     \* request -> what it asked and what it has read
          spent,   \* history: memo -> what it has paid on invoices, ever
          writes,  \* transactions committed so far
          apart    \* history: no two requests were ever served at once

vars == <<db, req, spent, writes, apart>>

SmallerOf(a, b) == IF a < b THEN a ELSE b
Above0(a) == IF a > 0 THEN a ELSE 0

InvoiceStatus == {"none", "draft", "sent", "partial", "paid", "void", "gone"}
OpenStatus == {"sent", "partial", "paid"}
MemoStatus == {"none", "open", "applied", "closed", "refunded", "void", "gone"}
PaidStatus == {"none", "paid", "partial", "unpaid"}

NoInvoice == [status |-> "none", total |-> 0, paid |-> 0, balance |-> 0,
              posted |-> FALSE]
NoMemo == [status |-> "none", total |-> 0, applied |-> 0, balance |-> 0, of |-> {}]
NoReceipt == [status |-> "none", amount |-> 0, held |-> FALSE]
Documents == Invoices \cup Receipts \cup Memos
NotApplied == [i \in Invoices |-> [at |-> 0, later |-> 0]]

(* of: the invoice a memo names as the one it reverses, if any.             *)
(* app: what a receipt pays on an invoice, with its own entry (at) and by   *)
(* entries of later applications (later).  sale: paidStatus of the approved *)
(* delivery an invoice was raised for.  refund: debits of 1100 by refunds.  *)
(* book: what the entries of a document put on the customer's two accounts, *)
(* 1100 and 2400: the one that made it, and the ones that undid it.  An     *)
(* application moves money between the two.                                 *)
Init ==
  /\ db = [inv |-> [i \in Invoices |-> NoInvoice],
           rct |-> [p \in Receipts |-> NoReceipt],
           app |-> [p \in Receipts |-> NotApplied],
           memo |-> [m \in Memos |-> NoMemo],
           sale |-> [i \in Invoices |-> "none"],
           refund |-> [m \in Memos |-> 0],
           book |-> [x \in Documents |-> [made |-> 0, undone |-> 0]],
           owed |-> 0, ar |-> 0, advances |-> 0, cash |-> 0]
  /\ req = [r \in Requests |-> [op |-> "idle"]]
  /\ spent = [m \in Memos |-> 0]
  /\ writes = 0
  /\ apart = TRUE

-----------------------------------------------------------------------------
(* Figures the code derives from the rows. *)

Used(d, p) == Sum([i \in Invoices |-> d.app[p][i].at + d.app[p][i].later], Invoices)
Unapplied(d, p) == d.rct[p].amount - Used(d, p)
Kept(d) == {p \in Receipts : d.rct[p].status = "kept"}
AllButDrafts(d) == {i \in Invoices : d.inv[i].status \in OpenStatus \cup {"void"}}
Collectable(d) == {i \in Invoices : d.inv[i].status \in OpenStatus}
LiveMemos(d) == {m \in Memos : d.memo[m].status \notin {"none", "void", "gone"}}

(* assessCredit: what the customer's sales leave unpaid, before a new one. *)
Exposure(d) ==
  Sum([i \in Invoices |-> d.inv[i].balance], Collectable(d))
    - Sum([p \in Receipts |-> Unapplied(d, p)], Kept(d))
    - Sum([m \in Memos |-> d.memo[m].balance], LiveMemos(d))

(* The closing balance of the customer's statement, over all time. *)
StatementClosing(d) ==
  Sum([i \in Invoices |-> d.inv[i].total], Collectable(d))
    - Sum([p \in Receipts |-> d.rct[p].amount], Kept(d))
    - Sum([m \in Memos |-> d.memo[m].total], LiveMemos(d))
    + Sum(d.refund, LiveMemos(d))

(* invoicePaidStatus *)
PaidStatusOf(row) ==
  IF row.balance <= 0 THEN "paid" ELSE IF row.paid > 0 THEN "partial" ELSE "unpaid"

(* The sweep of an unallocated receipt, oldest due first. *)
Outstanding(d) == {i \in Collectable(d) : d.inv[i].balance > 0}
AutoApply(d, amount) ==
  [i \in Invoices |->
     IF i \notin Outstanding(d) THEN 0
     ELSE LET before == {j \in Outstanding(d) : j < i}
          IN SmallerOf(d.inv[i].balance,
                       Above0(amount - Sum([j \in Invoices |-> d.inv[j].balance], before)))]

-----------------------------------------------------------------------------
(* The pieces transactions are built from: database -> database. *)

Allocated(al) == Sum(al, Invoices)

(* InvoicesService.applyPayment, which locks and re-reads the invoice. *)
MayPay(d, i, a) ==
  /\ d.inv[i].status \in OpenStatus
  /\ a > 0
  /\ a <= d.inv[i].balance
PaidBy(row, a) ==
  LET paid == row.paid + a
  IN [row EXCEPT !.paid = paid, !.balance = row.total - paid,
                 !.status = IF paid >= row.total THEN "paid" ELSE "partial"]
Reopened(row, a) ==
  LET paid == Above0(row.paid - a)
  IN [row EXCEPT !.paid = paid, !.balance = row.total - paid,
                 !.status = IF paid >= row.total THEN "paid"
                            ELSE IF paid > 0 THEN "partial" ELSE "sent"]

(* refreshDeliveryPaidStatus, of the invoices a receipt touched *)
Refreshed(d, S) ==
  [d EXCEPT !.sale = [i \in Invoices |-> IF i \in S /\ d.sale[i] # "none"
                                           THEN PaidStatusOf(d.inv[i]) ELSE d.sale[i]]]

MayPayAll(d, al) == \A i \in Invoices : al[i] > 0 => MayPay(d, i, al[i])
PaidAll(d, al) ==
  Refreshed([d EXCEPT !.inv = [i \in Invoices |->
                IF al[i] > 0 THEN PaidBy(d.inv[i], al[i]) ELSE d.inv[i]]],
            {i \in Invoices : al[i] > 0})

(* createInTransaction of an invoice that posts; owed is the balance the    *)
(* customer had when it was read, before the number was drawn.              *)
Raised(d, i, t, owed) ==
  [d EXCEPT !.inv[i] = [status |-> "sent", total |-> t, paid |-> 0, balance |-> t,
                        posted |-> TRUE],
            !.book[i].made = t, !.owed = owed + t, !.ar = @ + t]

(* receiveInTransaction *)
MayReceive(d, amount, al) == Allocated(al) <= amount /\ MayPayAll(d, al)
Received(d, p, amount, al, held, owed) ==
  [PaidAll(d, al) EXCEPT
     !.rct[p] = [status |-> "kept", amount |-> amount, held |-> held],
     !.app[p] = [i \in Invoices |-> [at |-> al[i], later |-> 0]],
     !.book[p].made = -amount,
     !.owed = owed - Allocated(al),
     !.ar = @ - Allocated(al),
     !.advances = @ + (amount - Allocated(al)),
     !.cash = @ + amount]

(* applyInTransaction: the receipt is locked, then what it has left is read. *)
LeftAtFirst(d, p) == d.rct[p].amount
Left(d, p) == Unapplied(d, p)
MayApply(d, p, al, forDelivery) ==
  /\ d.rct[p].status = "kept"
  /\ d.rct[p].held => forDelivery
  /\ Allocated(al) > 0
  /\ Allocated(al) <= Left(d, p)
  /\ MayPayAll(d, al)
Applied(d, p, al, owed) ==
  [PaidAll(d, al) EXCEPT
     !.app[p] = [i \in Invoices |-> [d.app[p][i] EXCEPT !.later = @ + al[i]]],
     !.owed = owed - Allocated(al),
     !.ar = @ - Allocated(al),
     !.advances = @ - Allocated(al)]

(* CreditMemosService.applyInTransaction: locks the memo; posts nothing. *)
MayCredit(d, m, i, a) ==
  /\ d.memo[m].status \in {"open", "applied"}
  /\ a <= d.memo[m].balance
  /\ MayPay(d, i, a)
Credited(d, m, i, a) ==
  LET left == d.memo[m].total - (d.memo[m].applied + a)
  IN [d EXCEPT !.inv[i] = PaidBy(@, a),
               !.memo[m].applied = @ + a, !.memo[m].balance = left,
               !.memo[m].status = IF left <= 0 THEN "closed" ELSE "applied"]

(* How a receipt is asked to be used: on one invoice, swept, or held. *)
Alone(i, a) == [j \in Invoices |-> IF j = i THEN a ELSE 0]
Nothing == [i \in Invoices |-> 0]
Allocations(d, amount) ==
  {Nothing, AutoApply(d, amount)}
    \cup {Alone(i, a) : i \in Collectable(d), a \in {a \in Amounts : a <= amount}}

-----------------------------------------------------------------------------
(* Requests. *)

Idle(r) == req[r].op = "idle"
Serving(r, op) == req[r].op = op

(* What a request does, and is still to do in a transaction after it.       *)
Ahead(call) ==
  {call.op} \cup {op \in {"refund"} : call.op \in {"memo", "absorb", "credit"} /\ call.refund}

Ask(r, call) ==
  /\ Idle(r)
  /\ writes < MaxWrites
  /\ \A q \in Requests : Idle(q) \/ Ahead(call) \cup Ahead(req[q]) \subseteq Overlapping
  /\ req' = [req EXCEPT ![r] = call]
  /\ apart' = (apart /\ \A q \in Requests : Idle(q))
  /\ UNCHANGED <<db, spent, writes>>

Then(r, d, call) ==
  /\ db' = d
  /\ req' = [req EXCEPT ![r] = call]
  /\ writes' = writes + 1
  /\ UNCHANGED apart
Done == [op |-> "idle"]
Commit(r, d) == Then(r, d, Done) /\ UNCHANGED spent

(* Refused, rolled back, or the process died: what has committed stays. *)
Drop(r) ==
  /\ ~Idle(r)
  /\ req' = [req EXCEPT ![r] = Done]
  /\ UNCHANGED <<db, spent, writes, apart>>

(* --- Invoices --- *)

AskCreate(r) ==
  \E i \in Invoices, t \in Amounts, posts \in BOOLEAN :
    /\ db.inv[i].status = "none"
    /\ Ask(r, [op |-> "create", i |-> i, t |-> t, posts |-> posts, owed |-> db.owed])
Create(r) ==
  /\ Serving(r, "create")
  /\ db.inv[req[r].i].status = "none"
  /\ LET c == req[r]
     IN Commit(r, IF c.posts THEN Raised(db, c.i, c.t, c.owed)
                  ELSE [db EXCEPT !.inv[c.i] = [NoInvoice EXCEPT !.status = "draft",
                                                 !.total = c.t, !.balance = c.t]])

(* The unlocked reads of the handlers that change one invoice. *)
Exists(row) == row.status \notin {"none", "gone"}
MayUpdate(row) == row.status = "draft"
MaySend(row) == Exists(row) /\ row.status # "void"
MayVoid(row) == Exists(row) /\ row.paid = 0
MayDelete(row) == Exists(row) /\ row.paid = 0
AskInvoice(r) ==
  \E i \in Invoices :
    LET row == db.inv[i]
    IN \/ /\ MayUpdate(row)
          /\ \E t \in Amounts \ {row.total} :
               Ask(r, [op |-> "update", i |-> i, t |-> t, seen |-> row])
       \/ MaySend(row) /\ Ask(r, [op |-> "send", i |-> i, seen |-> row])
       \/ /\ MayVoid(row)
          /\ row.status = "void" => VoidAgain
          /\ Ask(r, [op |-> "void", i |-> i, seen |-> row])
       \/ MayDelete(row) /\ Ask(r, [op |-> "delete", i |-> i, seen |-> row])

(* save(entity) writes every column that differs from the row: the row read *)
(* earlier, with the handler's changes, replaces what is there now.         *)
Update(r) ==
  /\ Serving(r, "update")
  /\ Commit(r, [db EXCEPT !.inv[req[r].i] =
                   [req[r].seen EXCEPT !.total = req[r].t, !.balance = req[r].t]])

Send(r) ==
  /\ Serving(r, "send")
  /\ LET row == req[r].seen
         now == [row EXCEPT !.posted = TRUE,
                            !.status = IF row.status = "draft" THEN "sent" ELSE row.status]
         d == [db EXCEPT !.inv[req[r].i] = now]
     IN Commit(r, IF row.posted THEN d
                  ELSE [d EXCEPT !.book[req[r].i].made = @ + row.total,
                                 !.owed = @ + row.total, !.ar = @ + row.total])

Reversed(d, i, row) ==
  [d EXCEPT !.book[i].undone = @ - row.total, !.owed = @ - row.total, !.ar = @ - row.total]
Void(r) ==
  /\ Serving(r, "void")
  /\ LET row == req[r].seen
         d == [db EXCEPT !.inv[req[r].i] = [row EXCEPT !.status = "void"]]
     IN Commit(r, IF row.posted THEN Reversed(d, req[r].i, row) ELSE d)

ToReverseAlways(row) == row.posted
ToReverse(row) == row.posted /\ row.status # "void"
Delete(r) ==
  /\ Serving(r, "delete")
  /\ LET row == req[r].seen
         d == [db EXCEPT !.inv[req[r].i] = [NoInvoice EXCEPT !.status = "gone"]]
     IN Commit(r, IF ToReverse(row) THEN Reversed(d, req[r].i, row) ELSE d)

(* --- Receipts and advances --- *)

AskReceive(r) ==
  \E p \in Receipts, amount \in Amounts :
    /\ db.rct[p].status = "none"
    /\ \E al \in Allocations(db, amount), held \in BOOLEAN :
         /\ held => al = Nothing
         /\ Ask(r, [op |-> "receive", p |-> p, amount |-> amount, al |-> al,
                    held |-> held, owed |-> db.owed])
Receive(r) ==
  LET c == req[r]
  IN /\ Serving(r, "receive")
     /\ db.rct[c.p].status = "none"
     /\ MayReceive(db, c.amount, c.al)
     /\ Commit(r, Received(db, c.p, c.amount, c.al, c.held, c.owed))

AskApply(r) ==
  \E p \in Kept(db), i \in Collectable(db), a \in Amounts :
    Ask(r, [op |-> "apply", p |-> p, al |-> Alone(i, a), owed |-> db.owed])
Apply(r) ==
  LET c == req[r]
  IN /\ Serving(r, "apply")
     /\ MayApply(db, c.p, c.al, FALSE)
     /\ Commit(r, Applied(db, c.p, c.al, c.owed))

(* delete: the receipt and its applications are read without a lock. *)
AskDeleteReceipt(r) ==
  \E p \in Kept(db) :
    /\ ~db.rct[p].held
    /\ Ask(r, [op |-> "deleteReceipt", p |-> p, amount |-> db.rct[p].amount,
               app |-> db.app[p], owed |-> db.owed])
DeleteReceipt(r) ==
  LET c == req[r]
      of == [i \in Invoices |-> c.app[i].at + c.app[i].later]
      touched == {i \in Invoices : of[i] > 0 /\ Exists(db.inv[i])}
      reopened == Refreshed([db EXCEPT !.inv = [i \in Invoices |->
                     IF i \in touched THEN Reopened(db.inv[i], of[i]) ELSE db.inv[i]]],
                   touched)
      at == Sum([i \in Invoices |-> c.app[i].at], Invoices)
      later == Sum([i \in Invoices |-> c.app[i].later], Invoices)
  IN /\ Serving(r, "deleteReceipt")
     /\ \E owed \in {c.owed, db.owed} :
          Commit(r, [reopened EXCEPT
                       !.rct[c.p] = [NoReceipt EXCEPT !.status = "gone"],
                       !.app[c.p] = NotApplied,
                       !.book[c.p].undone = @ + c.amount,
                       !.owed = owed + at + later,
                       !.ar = @ + at + later,
                       !.advances = @ - (c.amount - at) + later,
                       !.cash = @ - c.amount])

(* settle: an advance, then a credit memo, then new money, all or nothing. *)
AskSettle(r) ==
  \E p \in Kept(db), m \in LiveMemos(db), q \in Receipts, i \in Collectable(db),
     a \in Amounts, b \in Amounts, cash \in Amounts \cup {0} :
    /\ db.rct[q].status = "none"
    /\ Ask(r, [op |-> "settle", p |-> p, m |-> m, q |-> q, i |-> i,
               a |-> a, b |-> b, cash |-> cash, owed |-> db.owed])
Settle(r) ==
  LET c == req[r]
      advanced == Applied(db, c.p, Alone(c.i, c.a), c.owed)
      credited == Credited(advanced, c.m, c.i, c.b)
      paid == IF c.cash = 0 THEN credited
              ELSE Received(credited, c.q, c.cash, AutoApply(credited, c.cash),
                            FALSE, credited.owed)
  IN /\ Serving(r, "settle")
     /\ MayApply(db, c.p, Alone(c.i, c.a), FALSE)
     /\ MayCredit(advanced, c.m, c.i, c.b)
     /\ db.rct[c.q].status = "none"
     /\ Then(r, paid, Done)
     /\ spent' = [spent EXCEPT ![c.m] = @ + c.b]

(* --- The sale of a delivery --- *)

(* commitApproval: the invoice, then the advance the delivery holds, then   *)
(* the cash counted at the door, in one transaction.                        *)
AskApproveSale(r) ==
  \E i \in Invoices, t \in Amounts, A \in SUBSET Kept(db), q \in Receipts,
     cash \in Amounts \cup {0} :
    /\ db.inv[i].status = "none" /\ db.rct[q].status = "none"
    /\ Cardinality(A) <= 1 /\ \A p \in A : db.rct[p].held
    /\ Ask(r, [op |-> "approveSale", i |-> i, t |-> t, A |-> A, q |-> q,
               cash |-> cash, owed |-> db.owed])
ApproveSale(r) ==
  LET c == req[r]
      raised == Raised(db, c.i, c.t, c.owed)
      use(p) == SmallerOf(Unapplied(db, p), c.t)
      advanced ==
        IF \A p \in c.A : use(p) = 0 THEN raised
        ELSE LET p == CHOOSE p \in c.A : TRUE
             IN Applied(raised, p, Alone(c.i, use(p)), raised.owed)
      freed == [advanced EXCEPT !.rct = [p \in Receipts |->
                  IF p \in c.A THEN [@[p] EXCEPT !.held = FALSE] ELSE @[p]]]
      due == freed.inv[c.i].balance
      collected == IF c.cash = 0 THEN freed
                   ELSE Received(freed, c.q, c.cash, Alone(c.i, c.cash), FALSE, freed.owed)
  IN /\ Serving(r, "approveSale")
     /\ db.inv[c.i].status = "none" /\ db.rct[c.q].status = "none"
     /\ \A p \in c.A : db.rct[p].held
     /\ c.cash <= due
     /\ Commit(r, [collected EXCEPT !.sale[c.i] = PaidStatusOf(collected.inv[c.i])])

(* The delivery is cancelled, fails or comes back: its advance is free. *)
ReleaseAdvance ==
  \E p \in Kept(db) :
    /\ db.rct[p].held
    /\ db' = [db EXCEPT !.rct[p].held = FALSE]
    /\ UNCHANGED <<req, spent, writes, apart>>

(* --- Credit memos --- *)

(* create, and createAndApply, which continues on invoice i in further      *)
(* transactions: apply what the invoice absorbs, then refund the rest.      *)
AskMemo(r) ==
  \E m \in Memos, t \in Amounts, S \in SUBSET Collectable(db), refund \in BOOLEAN :
    /\ db.memo[m].status = "none"
    /\ Cardinality(S) <= 1
    /\ Ask(r, [op |-> "memo", m |-> m, t |-> t, S |-> S, refund |-> refund,
               owed |-> db.owed])
Memo(r) ==
  LET c == req[r]
      next == IF c.S = {} /\ ~c.refund THEN Done
              ELSE [op |-> "absorb", m |-> c.m, left |-> c.t, S |-> c.S,
                    refund |-> c.refund]
  IN /\ Serving(r, "memo")
     /\ db.memo[c.m].status = "none"
     /\ UNCHANGED spent
     /\ Then(r, [db EXCEPT !.memo[c.m] = [status |-> "open", total |-> c.t,
                                          applied |-> 0, balance |-> c.t, of |-> c.S],
                           !.book[c.m].made = -c.t,
                           !.owed = c.owed - c.t, !.ar = @ - c.t], next)

(* How much the invoice can absorb is read without a lock. *)
Absorb(r) ==
  LET c == req[r]
      refund == [op |-> "refund", m |-> c.m, seen |-> db.memo[c.m]]
      after == IF c.refund /\ c.left > 0 THEN refund ELSE Done
      a(i) == SmallerOf(c.left, db.inv[i].balance)
  IN /\ Serving(r, "absorb")
     /\ IF \A i \in c.S : a(i) <= 0
          THEN req' = [req EXCEPT ![r] = after]
          ELSE \E i \in c.S :
                 req' = [req EXCEPT ![r] = [op |-> "credit", m |-> c.m, i |-> i, a |-> a(i),
                                            refund |-> c.refund]]
     /\ UNCHANGED <<db, spent, writes, apart>>

AskCredit(r) ==
  \E m \in LiveMemos(db), i \in Collectable(db), a \in Amounts :
    Ask(r, [op |-> "credit", m |-> m, i |-> i, a |-> a, refund |-> FALSE])
Credit(r) ==
  LET c == req[r]
      now == Credited(db, c.m, c.i, c.a)
  IN /\ Serving(r, "credit")
     /\ MayCredit(db, c.m, c.i, c.a)
     /\ spent' = [spent EXCEPT ![c.m] = @ + c.a]
     /\ Then(r, now, IF c.refund
                       THEN [op |-> "absorb", m |-> c.m, left |-> now.memo[c.m].balance,
                             S |-> {}, refund |-> TRUE]
                       ELSE Done)

(* refund, void and delete of a memo: one unlocked read decides. *)
AskMemoEnd(r) ==
  \E m \in Memos :
    LET row == db.memo[m]
    IN \/ row.balance > 0 /\ Ask(r, [op |-> "refund", m |-> m, seen |-> row])
       \/ /\ row.status \in {"open", "applied", "closed"}
          /\ row.applied = 0
          /\ \E remove \in BOOLEAN :
               Ask(r, [op |-> "voidMemo", m |-> m, seen |-> row, remove |-> remove])
Refund(r) ==
  LET c == req[r]
  IN /\ Serving(r, "refund")
     /\ c.seen.balance > 0
     /\ Commit(r, [db EXCEPT
                     !.memo[c.m] = [c.seen EXCEPT !.balance = 0, !.status = "refunded"],
                     !.refund[c.m] = @ + c.seen.balance,
                     !.owed = @ + c.seen.balance,
                     !.ar = @ + c.seen.balance,
                     !.cash = @ - c.seen.balance])
VoidMemo(r) ==
  LET c == req[r]
  IN /\ Serving(r, "voidMemo")
     /\ UNCHANGED spent
     /\ Then(r, [db EXCEPT
                   !.memo[c.m] = [c.seen EXCEPT !.balance = 0, !.status = "void"],
                   !.book[c.m].undone = @ + c.seen.total,
                   !.owed = @ + c.seen.total,
                   !.ar = @ + c.seen.total],
              IF c.remove THEN [op |-> "removeMemo", m |-> c.m] ELSE Done)
RemoveMemo(r) ==
  /\ Serving(r, "removeMemo")
  /\ Commit(r, [db EXCEPT !.memo[req[r].m] = [NoMemo EXCEPT !.status = "gone"]])

-----------------------------------------------------------------------------
AskStep(r) ==
  \/ AskCreate(r) \/ AskInvoice(r) \/ AskReceive(r) \/ AskApply(r)
  \/ AskDeleteReceipt(r) \/ AskSettle(r) \/ AskApproveSale(r)
  \/ AskMemo(r) \/ AskCredit(r) \/ AskMemoEnd(r)
ServeStep(r) ==
  \/ Create(r) \/ Update(r) \/ Send(r) \/ Void(r) \/ Delete(r)
  \/ Receive(r) \/ Apply(r) \/ DeleteReceipt(r) \/ Settle(r) \/ ApproveSale(r)
  \/ Memo(r) \/ Absorb(r) \/ Credit(r) \/ Refund(r) \/ VoidMemo(r) \/ RemoveMemo(r)
Next ==
  \/ \E r \in Requests : AskStep(r) \/ ServeStep(r) \/ Drop(r)
  \/ ReleaseAdvance

Spec == Init /\ [][Next]_vars

-----------------------------------------------------------------------------
(* Types, and every invoice's own arithmetic. *)
TypeOK ==
  /\ \A i \in Invoices : /\ db.inv[i].status \in InvoiceStatus
                         /\ db.inv[i].balance = db.inv[i].total - db.inv[i].paid
                         /\ db.sale[i] \in PaidStatus
  /\ \A m \in Memos : db.memo[m].status \in MemoStatus
  /\ \A p \in Receipts : db.rct[p].status \in {"none", "kept", "gone"}

(* Qa invariant I6 for account 1100 against its subledgers: while requests  *)
(* never overlap, receivables are what open invoices leave unpaid less what *)
(* open credit memos still hold, and the customer's running balance is the  *)
(* same figure, whatever was sent, voided, deleted, reversed or refunded;   *)
(* invoices say paid exactly what receipts and memos say they paid; and the *)
(* exposure the credit limit is judged on, and the closing balance of the   *)
(* statement, which add up other columns of other rows, are the customer's  *)
(* two ledger accounts, 1100 less 2400.                                     *)
ReceivableTies ==
  /\ TypeOK
  /\ apart =>
    /\ db.ar = Sum([i \in Invoices |-> db.inv[i].balance], Collectable(db))
                 - Sum([m \in Memos |-> db.memo[m].balance], LiveMemos(db))
    /\ db.owed = db.ar
    /\ Sum([i \in Invoices |-> db.inv[i].paid], Invoices) =
         Sum([p \in Receipts |-> Used(db, p)], Kept(db)) + Sum(spent, Memos)
    /\ Exposure(db) = db.ar - db.advances
    /\ StatementClosing(db) = db.ar - db.advances

(* Qa invariants I10, I20 and M1, with requests overlapping: no receipt is  *)
(* ever applied beyond its amount, one a delivery on its way holds is whole *)
(* until that delivery is approved or given up, and what a credit memo paid *)
(* on invoices, ever, and gave back in money never add up to more than its  *)
(* credit, nor to anything once the memo is void.                           *)
NothingOverspent ==
  /\ \A p \in Kept(db) : /\ Used(db, p) <= db.rct[p].amount
                         /\ db.rct[p].held => Used(db, p) = 0
  /\ \A m \in Memos :
       spent[m] + db.refund[m] <= IF m \in LiveMemos(db) THEN db.memo[m].total ELSE 0

(* Qa invariant I21: the sale of an approved delivery reads paid, partial   *)
(* or unpaid as its invoice does, unless a credit memo names that invoice   *)
(* or has paid on it.                                                       *)
PaidInMoney(d, i) ==
  Sum([p \in Receipts |-> d.app[p][i].at + d.app[p][i].later], Kept(d))
PaidStatusTrue ==
  apart => \A i \in Collectable(db) :
             \/ db.sale[i] \in {"none", PaidStatusOf(db.inv[i])}
             \/ \E m \in LiveMemos(db) : i \in db.memo[m].of
             \/ PaidInMoney(db, i) # db.inv[i].paid
=============================================================================
