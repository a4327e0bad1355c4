--------------------------- MODULE GeneralLedger ---------------------------
(***************************************************************************)
(* The general ledger of one company: journal entries, their posting to    *)
(* account balances and ledger rows, the closing of periods, the chart of  *)
(* accounts and bank reconciliation.                                       *)
(*                                                                         *)
(* db is the committed database.  A handler reads what it reads before its *)
(* first lock or write (Ask), then commits the rest in one step.  Posting  *)
(* a new entry takes one step more: Draw locks the company's row, which    *)
(* serialises the drawing of references, and the lock is held to commit.   *)
(* Isolation is READ COMMITTED.                                            *)
(***************************************************************************)
EXTENDS FinancialStatements, Sequences

CONSTANTS Accounts,    \* numbers: an entry's rows are written in their order
          System,      \* accounts that posting relies on: fixed and always active
          Chart,       \* account -> its kind when it was made
          Absent,      \* accounts not made yet
          OBE,         \* the account Opening Balance Equity
          Catalogue,   \* lines an entry may have: functions Accounts -> amount
          Sources,     \* source types of entries
          Days,        \* accounting dates; the last one is today
          Mixes,       \* what the bills of a payment may have been for: kind -> amount
          KindsTried,  \* kinds an account may be given
          Requests, Overlapping, MaxWrites, MaxEntries

Nobody == "nobody"

ASSUME GeneralLedgerAssumption ==
  /\ System \subseteq Accounts /\ Absent \subseteq Accounts \ System
  /\ Accounts \subseteq Nat /\ IsFiniteSet(Accounts) /\ OBE \in System
  /\ Chart \in [Accounts -> Kinds] /\ KindsTried \subseteq Kinds
  /\ Days \subseteq Nat \ {0} /\ IsFiniteSet(Days) /\ Days # {}
  /\ Catalogue \subseteq [Accounts -> Int]
  /\ Nobody \notin Requests
  /\ {MaxWrites, MaxEntries} \subseteq Nat

VARIABLES db,      \* committed rows, see Init
          req,     \* request -> what it asked and what it has read
          holder,  \* the request that holds the company's row, if any
          writes,  \* transactions committed so far
          apart    \* history: no two requests were ever served at once

vars == <<db, req, holder, writes, apart>>

Today == CHOOSE d \in Days : \A x \in Days : x <= d
Idle == [op |-> "idle"]

(* entries: numbered by their reference.  rows: the general ledger; own is  *)
(* whether source_id is the entry's id, run the balance after the row, rec  *)
(* the reconciliation the row belongs to (0: none).  lock: books closed     *)
(* through that day (0: open).  recs: reconciliations, with growing ids.    *)
Init ==
  /\ db = [entries |-> <<>>, rows |-> {}, lock |-> 0, recs |-> {},
           acct |-> [a \in Accounts |->
                       [status |-> IF a \in Absent THEN "absent" ELSE "active",
                        kind |-> Chart[a], balance |-> 0]]]
  /\ req = [r \in Requests |-> Idle]
  /\ holder = Nobody
  /\ writes = 0
  /\ apart = TRUE

-----------------------------------------------------------------------------
KindOf(d) == [a \in Accounts |-> d.acct[a].kind]
Touched(lines) == {a \in Accounts : lines[a] # 0}
Balanced(lines) == Sum(lines, Accounts) = 0
Active(d, lines) == \A a \in Touched(lines) : d.acct[a].status = "active"
(* assertPeriodOpen *)
IsOpen(d, day) == day > d.lock

(* applyPosting: balances by atomic increments, signed by the type each     *)
(* account had when it was read, and one ledger row per line.               *)
RunningFromZero(prior, delta) == delta
Running(prior, delta) == prior + delta
RowsOf(d, n, e, kind, ref) ==
  LET order(a) == Cardinality({b \in Touched(e.lines) : b < a})
  IN {[id |-> Cardinality(d.rows) + 1 + order(a), ref |-> ref, entry |-> n, day |-> e.day,
       src |-> e.src, acct |-> a, amt |-> e.lines[a], own |-> e.own, rec |-> 0,
       run |-> Running(d.acct[a].balance, Signed(kind[a], e.lines[a]))]
        : a \in Touched(e.lines)}
Raised(row, delta) == [row EXCEPT !.balance = @ + delta]
Posted(d, n, e, kind) ==
  [d EXCEPT !.rows = @ \cup RowsOf(d, n, e, kind, e.ref),
            !.acct = [a \in Accounts |->
               IF a \in Touched(e.lines) THEN Raised(d.acct[a], Signed(kind[a], e.lines[a]))
               ELSE d.acct[a]]]

(* createEntry *)
Entered(d, e, kind) ==
  LET with == [d EXCEPT !.entries = Append(@, e)]
  IN IF e.status = "posted" THEN Posted(with, Len(with.entries), e, kind) ELSE with

-----------------------------------------------------------------------------
(* Requests. *)

Serving(r, op) == req[r].op = op
Ask(r, call) ==
  /\ req[r] = Idle
  /\ writes < MaxWrites
  /\ \A q \in Requests : req[q] = Idle \/ {call.op, req[q].op} \subseteq Overlapping
  /\ req' = [req EXCEPT ![r] = call]
  /\ apart' = (apart /\ \A q \in Requests : req[q] = Idle)
  /\ UNCHANGED <<db, holder, writes>>

Commit(r, d) ==
  /\ db' = d
  /\ req' = [req EXCEPT ![r] = Idle]
  /\ holder' = IF holder = r THEN Nobody ELSE holder
  /\ writes' = writes + 1
  /\ UNCHANGED apart

(* Refused, rolled back, or the process died. *)
Drop(r) ==
  /\ req[r] # Idle
  /\ req' = [req EXCEPT ![r] = Idle]
  /\ holder' = IF holder = r THEN Nobody ELSE holder
  /\ UNCHANGED <<db, writes, apart>>

(* --- Entries --- *)

CanPostAnyDay(d, lines, day) == Balanced(lines)
CanPost(d, lines, day) == IsOpen(d, day) /\ Balanced(lines)

(* A bill payment debits Accounts Payable and credits a bank, posted at     *)
(* once; what other entries hold is any lines of the catalogue.             *)
PaysSuppliers(kind, lines) ==
  \A a \in Touched(lines) : kind[a] = IF lines[a] > 0 THEN "supplier" ELSE "cash"
AskCreate(r) ==
  \E lines \in Catalogue, day \in Days, src \in Sources, status \in {"draft", "posted"} :
    /\ Len(db.entries) < MaxEntries
    /\ Active(db, lines)
    /\ src = "bill_payment" => status = "posted" /\ PaysSuppliers(KindOf(db), lines)
    /\ status = "posted" => CanPost(db, lines, day)
    /\ Ask(r, [op |-> "create", ref |-> 0, kind |-> KindOf(db), opens |-> {},
               e |-> [day |-> day, src |-> src, lines |-> lines, status |-> status,
                      of |-> 0, own |-> TRUE, ref |-> 0]])

(* AccountsService.create: a new account with its opening balance, posted   *)
(* against Opening Balance Equity under the account's own id.               *)
AskOpenAccount(r) ==
  \E a \in Accounts, amount \in {l[OBE] : l \in Catalogue} \ {0} :
    /\ Len(db.entries) < MaxEntries
    /\ db.acct[a].status = "absent"
    /\ IsOpen(db, Today)
    /\ Ask(r, [op |-> "create", ref |-> 0, kind |-> KindOf(db), opens |-> {a},
               e |-> [day |-> Today, src |-> "opening_balance", status |-> "posted",
                      lines |-> [b \in Accounts |-> IF b = OBE THEN amount
                                                    ELSE IF b = a THEN -amount ELSE 0],
                      of |-> 0, own |-> FALSE, ref |-> 0]])

(* With no opening balance there is nothing to post. *)
AskOpenEmpty(r) ==
  \E a \in Accounts : db.acct[a].status = "absent" /\ Ask(r, [op |-> "open", a |-> a])
OpenEmpty(r) ==
  /\ Serving(r, "open")
  /\ db.acct[req[r].a].status = "absent"
  /\ Commit(r, [db EXCEPT !.acct[req[r].a].status = "active"])

(* nextJournalReference: the lock on the company's row, then COUNT + 1. *)
MayDraw(r) == holder = Nobody
Draw(r) ==
  /\ req[r].op \in {"create", "reverse"}
  /\ req[r].ref = 0
  /\ MayDraw(r)
  /\ req' = [req EXCEPT ![r].ref = Len(db.entries) + 1]
  /\ holder' = r
  /\ UNCHANGED <<db, writes, apart>>

Create(r) ==
  LET c == req[r]
      e == [c.e EXCEPT !.ref = c.ref]
      d == [db EXCEPT !.acct = [a \in Accounts |->
                         IF a \in c.opens THEN [db.acct[a] EXCEPT !.status = "active"]
                         ELSE db.acct[a]]]
  IN /\ Serving(r, "create")
     /\ c.ref # 0
     /\ \A a \in c.opens : db.acct[a].status = "absent"
     /\ Commit(r, Entered(d, e, c.kind))

(* postDraft: an account it can no longer find fails it; an inactive one not. *)
MayPostUnlessPosted(e) == e.status # "posted"
MayPost(e) == e.status = "draft"
AskPost(r) ==
  \E n \in DOMAIN db.entries :
    LET e == db.entries[n]
    IN /\ MayPost(e)
       /\ CanPost(db, e.lines, e.day)
       /\ \A a \in Touched(e.lines) : db.acct[a].status # "absent"
       /\ Ask(r, [op |-> "post", n |-> n, e |-> [e EXCEPT !.src = "journal_entry"], kind |-> KindOf(db)])
Post(r) ==
  LET c == req[r]
      e == [c.e EXCEPT !.status = "posted"]
  IN /\ Serving(r, "post")
     /\ Commit(r, Posted([db EXCEPT !.entries[c.n] = e], c.n, e, c.kind))

(* void: a posted entry is reversed by a new one, dated today; a draft is   *)
(* marked, unless the database finds it unbalanced.                         *)
Reconciled(d, n) == \E row \in d.rows : row.entry = n /\ row.own /\ row.rec # 0
MayVoid(d, n) == d.entries[n].status # "void" /\ ~Reconciled(d, n)
AskVoid(r) ==
  \E n \in DOMAIN db.entries :
    LET e == db.entries[n]
    IN /\ MayVoid(db, n)
       /\ IF e.status = "posted"
            THEN IsOpen(db, Today) /\ Active(db, e.lines) /\ Len(db.entries) < MaxEntries
            ELSE Balanced(e.lines)
       /\ Ask(r, [op |-> IF e.status = "posted" THEN "reverse" ELSE "discard",
                  n |-> n, e |-> e, ref |-> 0, kind |-> KindOf(db)])
Discard(r) ==
  /\ Serving(r, "discard")
  /\ Commit(r, [db EXCEPT !.entries[req[r].n] = [req[r].e EXCEPT !.status = "void"]])
Reversal(e, n, ref) ==
  [day |-> Today, src |-> "journal_entry", lines |-> [a \in Accounts |-> -e.lines[a]],
   status |-> "posted", of |-> n, own |-> TRUE, ref |-> ref]
Reverse(r) ==
  LET c == req[r]
      d == Entered(db, Reversal(c.e, c.n, c.ref), c.kind)
  IN /\ Serving(r, "reverse")
     /\ c.ref # 0
     /\ Commit(r, [d EXCEPT !.entries[c.n] = [c.e EXCEPT !.status = "void"]])

(* --- Periods --- *)

AskClose(r) ==
  \/ \E d \in Days : db.lock <= d /\ Ask(r, [op |-> "close", lock |-> d])
  \/ db.lock # 0 /\ Ask(r, [op |-> "close", lock |-> 0])
Close(r) ==
  /\ Serving(r, "close")
  /\ holder = Nobody
  /\ db' = [db EXCEPT !.lock = req[r].lock]
  /\ req' = [req EXCEPT ![r] = Idle]
  /\ writes' = writes + 1
  /\ UNCHANGED <<holder, apart>>

(* --- Chart of accounts --- *)

(* assertCanDeactivate *)
MayDeactivate(a, row) == a \notin System /\ row.balance = 0
(* ACCOUNT_USAGE_SQL *)
InUse(d, a) ==
  \/ \E row \in d.rows : row.acct = a
  \/ \E n \in DOMAIN d.entries : d.entries[n].status = "draft" /\ d.entries[n].lines[a] # 0
  \/ \E x \in d.recs : x.acct = a

(* toggle saves the row it has read, balance and all; update locks the row  *)
(* before it reads it; delete looks for ledger rows only.                   *)
AskAccount(r) ==
  \E a \in {b \in Accounts : db.acct[b].status # "absent"} :
    LET row == db.acct[a]
    IN \/ /\ row.status = "active" => MayDeactivate(a, row)
          /\ Ask(r, [op |-> "toggle", a |-> a, row |-> row])
       \/ \E k \in KindsTried, status \in {"active", "inactive"} :
            /\ <<k, status>> # <<row.kind, row.status>>
            /\ Ask(r, [op |-> "update", a |-> a, kind |-> k, status |-> status])
       \/ /\ a \notin System
          /\ \A x \in db.rows : x.acct # a
          /\ Ask(r, [op |-> "remove", a |-> a])
Toggle(r) ==
  LET row == req[r].row
  IN /\ Serving(r, "toggle")
     /\ Commit(r, [db EXCEPT !.acct[req[r].a] =
                     [row EXCEPT !.status = IF @ = "active" THEN "inactive" ELSE "active"]])
Update(r) ==
  LET c == req[r]
      row == db.acct[c.a]
  IN /\ Serving(r, "update")
     /\ row.status # "absent"
     /\ c.kind # row.kind => c.a \notin System
     /\ TypeOf(c.kind) # TypeOf(row.kind) => ~InUse(db, c.a)
     /\ row.status = "active" /\ c.status = "inactive" => MayDeactivate(c.a, row)
     /\ Commit(r, [db EXCEPT !.acct[c.a] = [@ EXCEPT !.kind = c.kind, !.status = c.status]])
Remove(r) ==
  /\ Serving(r, "remove")
  /\ Commit(r, [db EXCEPT !.acct[req[r].a].status = "absent"])

(* --- Bank reconciliation --- *)

Cash(d) == {a \in Accounts : d.acct[a].status # "absent" /\ d.acct[a].kind = "cash"}
Cleared(d, a) == {row \in d.rows : row.acct = a /\ row.rec # 0}
Beginning(d, a) == Amounts(Cleared(d, a))
OfAccount(d, a) == {x \in d.recs : x.acct = a}
(* By statement date, then by creation. *)
Earlier(x, y) == x.day < y.day \/ (x.day = y.day /\ x.id < y.id)
IsLast(d, rec) == \A x \in OfAccount(d, rec.acct) : ~Earlier(rec, x)
MayReconcile(d, a, S, day) ==
  /\ \A x \in OfAccount(d, a) : x.day <= day
  /\ \A row \in S : row.rec = 0 /\ row.day <= day
(* The statement's ending balance is what makes the difference zero. *)
AskReconcile(r) ==
  \E a \in Cash(db), day \in Days :
    \E S \in SUBSET {row \in db.rows : row.acct = a} :
      /\ MayReconcile(db, a, S, day)
      /\ Ask(r, [op |-> "reconcile", a |-> a, S |-> S, day |-> day, from |-> Beginning(db, a)])
Reconcile(r) ==
  LET c == req[r]
      rec == [id |-> writes + 1, acct |-> c.a, day |-> c.day, from |-> c.from,
              to |-> c.from + Amounts(c.S)]
      ids == {row.id : row \in c.S}
  IN /\ Serving(r, "reconcile")
     /\ Commit(r, [db EXCEPT !.recs = @ \cup {rec},
                     !.rows = {IF row.id \in ids THEN [row EXCEPT !.rec = rec.id] ELSE row
                                 : row \in @}])

MayUndoAny(d, rec) == TRUE
MayUndo(d, rec) == IsLast(d, rec)
AskUndo(r) == \E rec \in db.recs : MayUndo(db, rec) /\ Ask(r, [op |-> "undo", id |-> rec.id])
Undo(r) ==
  /\ Serving(r, "undo")
  /\ Commit(r, [db EXCEPT !.recs = {x \in @ : x.id # req[r].id},
                  !.rows = {IF row.rec = req[r].id THEN [row EXCEPT !.rec = 0] ELSE row
                              : row \in @}])

-----------------------------------------------------------------------------
AskStep(r) ==
  \/ AskCreate(r) \/ AskOpenAccount(r) \/ AskOpenEmpty(r) \/ AskPost(r) \/ AskVoid(r)
  \/ AskClose(r) \/ AskAccount(r) \/ AskReconcile(r) \/ AskUndo(r)
ServeStep(r) ==
  \/ Draw(r) \/ Create(r) \/ OpenEmpty(r) \/ Post(r) \/ Discard(r) \/ Reverse(r) \/ Close(r)
  \/ Toggle(r) \/ Update(r) \/ Remove(r) \/ Reconcile(r) \/ Undo(r)
Next == \E r \in Requests : AskStep(r) \/ ServeStep(r) \/ Drop(r)

Spec == Init /\ [][Next]_vars

-----------------------------------------------------------------------------
(* Properties. *)

(* The balance an account carries is what its ledger rows add up to, signed *)
(* by its type, and the balance after its last row: posting, voiding,       *)
(* retyping and closing keep it so in any order, creations overlapping.     *)
LastRow(a) == CHOOSE row \in db.rows :
                row.acct = a /\ \A x \in db.rows : x.acct = a => x.id <= row.id
CachedBalances ==
  \A a \in Accounts :
    LET total == Amounts({row \in db.rows : row.acct = a})
    IN /\ db.acct[a].balance = Signed(db.acct[a].kind, total)
       /\ (\E row \in db.rows : row.acct = a) => LastRow(a).run = db.acct[a].balance

(* The general ledger report and the ledger rows are one book: the lines of *)
(* the posted entries, and of the void ones that have a reversal, are the   *)
(* rows, account by account and day by day; and with requests overlapping   *)
(* no two entries share a reference, though it is drawn by counting them.   *)
InBook(n) ==
  \/ db.entries[n].status = "posted"
  \/ /\ db.entries[n].status = "void"
     /\ \E m \in DOMAIN db.entries : db.entries[m].of = n
LedgerIsTheBook ==
  /\ \A n \in DOMAIN db.entries : db.entries[n].ref = n
  /\ apart =>
    \A a \in Accounts, day \in Days :
      NetOf(db.rows, a, day, day)
        = Sum([n \in DOMAIN db.entries |-> db.entries[n].lines[a]],
              {n \in DOMAIN db.entries : InBook(n) /\ db.entries[n].day = day})

(* While the books stay closed through a day, no posting, void, reversal or *)
(* opening balance changes what any account had by then.                    *)
ClosedBooksKept ==
  [][\A a \in Accounts :
       NetOf(db.rows, a, 0, LeastOf(db.lock, db'.lock))
         = NetOf(db'.rows, a, 0, LeastOf(db.lock, db'.lock))]_vars

(* Reconciliations roll forward: each begins where the one before it ended, *)
(* and what is cleared adds up to the last statement, whatever is undone,   *)
(* voided or dated back between two statements.                             *)
Before(rec) == {x \in OfAccount(db, rec.acct) : Earlier(x, rec)}
ReconciliationRollsForward ==
  apart =>
    \A rec \in db.recs :
      /\ rec.from = Sum([x \in db.recs |-> x.to - x.from], Before(rec))
      /\ IsLast(db, rec) => Beginning(db, rec.acct) = rec.to

Ledger == {[id |-> x.id, ref |-> x.ref, day |-> x.day, src |-> x.src, acct |-> x.acct,
            amt |-> x.amt] : x \in db.rows}
Periods == {p \in Days \X Days : p[1] <= p[2]}
(* The statements tell one story of the same ledger, on every day: the      *)
(* balance sheet balances, its Retained Earnings is what the report of that *)
(* name derives year by year, the trial balances foot to zero, and the      *)
(* closing of a working one is the closing one.                             *)
StatementsAgree ==
  LET L == Ledger
      kind == KindOf(db)
      foots(f, prior) == Sum(f, Accounts) + prior = 0
  IN /\ \A day \in Days :
          LET bs == BalanceSheet(L, kind, day)
          IN /\ bs.assets = bs.liabilities + bs.equity + bs.retained + bs.current
             /\ bs.retained = RetainedEarnings(L, kind, day)
             /\ foots([a \in Accounts |-> Closing(L, kind, a, day)], ClosingPrior(L, kind, day))
     /\ \A p \in Periods :
          /\ foots([a \in Accounts |-> Opening(L, kind, a, p[1])], OpeningPrior(L, kind, p[1]))
          /\ LET pl == ProfitLoss(L, kind, p[1], p[2])
             IN pl.operating + pl.other = pl.net
          /\ FiscalYear(p[1]) = FiscalYear(p[2]) =>
               \A a \in Accounts :
                 Register(L, kind, a, p[1], p[2]).closing
                   = Signed(kind[a], Closing(L, kind, a, p[2]))

(* The cash flow statement explains the cash: its sections add up to what   *)
(* the cash accounts moved in any period, and the indirect method comes to  *)
(* the direct one's operating cash, whatever the bills that were paid had   *)
(* bought.                                                                  *)
PaidFor(L) == [{r.ref : r \in {r \in L : r.src = "bill_payment"}} -> Mixes]
CashFlowExplained ==
  LET L == Ledger
      kind == KindOf(db)
  IN \A paid \in PaidFor(L), p \in Periods :
       LET flow(section) == Flow(L, kind, paid, section, p[1], p[2])
       IN /\ CashAt(L, kind, p[1] - 1) + SumOf(Sections, flow) = CashAt(L, kind, p[2])
          /\ Indirect(L, kind, paid, p[1], p[2]) = flow("operating")

=============================================================================
