------------------------- MODULE ReceivablesReports -------------------------
(***************************************************************************)
(* What the reports say of a customer, read off the rows of Receivables:   *)
(* the aging with its buckets, the documents under a bucket and the        *)
(* party's summary, and the ledger, statement and year history drawn from  *)
(* the book.  A report may meet any due dates, and its period may begin    *)
(* after any of the entries: an entry is dated by its user, or on the day  *)
(* it is made.  Both are therefore quantified, not modelled as state.      *)
(***************************************************************************)
EXTENDS Receivables, Sequences

CONSTANTS Lateness,   \* days a document may be overdue today
          Boundaries, \* the boundaries a report may ask for, or a company have saved
          Monthly     \* those of the default preset

ASSUME ReportsAssumption ==
  /\ Lateness \subseteq Int /\ IsFiniteSet(Lateness)
  /\ Boundaries \subseteq Seq(Int) /\ <<>> \notin Boundaries /\ Monthly \in Seq(Int)

-----------------------------------------------------------------------------
(* What a report asks for wins, then what the company saved, if it can be   *)
(* used at all, then the default; asking for boundaries that do not ascend  *)
(* is refused.                                                              *)
Usable(spec) == /\ \A n \in DOMAIN spec : spec[n] >= 1
                /\ \A n \in DOMAIN spec \ {1} : spec[n - 1] < spec[n]
Resolved(asked, saved) ==
  {spec \in {IF asked # <<>> THEN asked
             ELSE IF saved # <<>> /\ Usable(saved) THEN saved ELSE Monthly} : Usable(spec)}
Specs == UNION {Resolved(asked, saved) : asked, saved \in Boundaries \cup {<<>>}}

(* The buckets of an aging: not yet due, one up to each boundary, the rest. *)
Buckets(spec) ==
  [n \in 0..Len(spec) + 1 |->
     [from |-> IF n = 0 THEN 0 ELSE IF n = 1 THEN 1 ELSE spec[n - 1] + 1,
      to |-> IF n = 0 THEN {0} ELSE IF n <= Len(spec) THEN {spec[n]} ELSE {}]]

Within(late, bucket) == late >= bucket.from /\ \A to \in bucket.to : late <= to
BucketOf(late, spec) ==
  IF late <= 0 THEN 0
  ELSE LET fit == {n \in 1..Len(spec) + 1 : Within(late, Buckets(spec)[n])}
       IN  CHOOSE n \in fit : \A o \in fit : n <= o

OpenDocuments(d) == {i \in Invoices : d.inv[i].status \in {"sent", "partial"} /\ d.inv[i].balance > 0}
Balances(d, S) == Sum([i \in Invoices |-> d.inv[i].balance], S)

(* arAging: each open document goes into one bucket.                        *)
Aging(d, late, spec) ==
  [n \in 0..Len(spec) + 1 |-> Balances(d, {i \in OpenDocuments(d) : BucketOf(late[i], spec) = n})]
(* agingPartyDocuments: the documents listed under a bucket.                *)
Listed(d, late, spec, n) == {i \in OpenDocuments(d) : BucketOf(late[i], spec) = n}

(* partySummary *)
OverdueOf(d, late) == Balances(d, {i \in OpenDocuments(d) : late[i] > 0})
CreditsOf(d) ==
  Sum([p \in Receipts |-> Unapplied(d, p)], {p \in Kept(d) : ~d.rct[p].held})
    + Sum([m \in Memos |-> d.memo[m].balance], LiveMemos(d))
NetDue(d) == Balances(d, OpenDocuments(d)) - CreditsOf(d)

-----------------------------------------------------------------------------
(* The entries on the customer's accounts, and those before a period.       *)
Entries(d) ==
  {[of |-> x, kind |-> "made", amount |-> d.book[x].made] : x \in {x \in Documents : d.book[x].made # 0}}
    \cup {[of |-> x, kind |-> "undone", amount |-> d.book[x].undone] : x \in {x \in Documents : d.book[x].undone # 0}}
    \cup {[of |-> m, kind |-> "refund", amount |-> d.refund[m]] : m \in {m \in Memos : d.refund[m] # 0}}
Worth(E) == Sum([e \in E |-> e.amount], E)

(* ledger: the balance brought forward and the entries of the period.       *)
LedgerClosing(entries, before) == Worth(before) + Worth(entries \ before)

(* statement: a document made and undone in the period is not shown.        *)
Cancelled(x, period) ==
  /\ \E e \in period : e.of = x /\ e.kind = "undone"
  /\ \E e \in period : e.of = x /\ e.kind # "undone"
  /\ Worth({e \in period : e.of = x}) = 0
Shown(entries, before) ==
  LET period == entries \ before
      hidden == {x \in {e.of : e \in period} : Cancelled(x, period)}
  IN  {e \in period : e.of \notin hidden}

(* The figures under the statement, and the months of the year history.     *)
OfKind(E, docs, kinds) == Worth({e \in E : e.of \in docs /\ e.kind \in kinds})
Invoiced(E) == OfKind(E, Invoices, {"made", "undone"})
ReceivedIn(E) == -OfKind(E, Receipts, {"made", "undone"})
CreditedIn(E) == -OfKind(E, Memos, {"made", "undone"})
RefundedIn(E) == OfKind(E, Memos, {"refund"})
Charged(E) == OfKind(E, Invoices \cup Memos, {"made", "undone"})
Settled(E) == -Worth({e \in E : e.of \in Receipts \/ e.kind = "refund"})

-----------------------------------------------------------------------------
(* While requests never overlap, the aging ties to the books whatever the   *)
(* due dates and the buckets: a bucket holds exactly the documents as late  *)
(* as it says, those listed when it is opened, and the buckets together,    *)
(* less the party's credits, are the two ledger accounts but for advances   *)
(* held for deliveries.                                                     *)
AgingTies ==
  apart =>
    /\ \A late \in [OpenDocuments(db) -> Lateness], spec \in Specs :
         LET aging == Aging(db, late, spec) IN
         /\ \A n \in DOMAIN aging :
              LET asLate == {i \in OpenDocuments(db) :
                               IF n = 0 THEN late[i] <= 0 ELSE Within(late[i], Buckets(spec)[n])}
              IN  Listed(db, late, spec, n) = asLate /\ aging[n] = Balances(db, asLate)
         /\ Sum(aging, DOMAIN aging) = Balances(db, OpenDocuments(db))
         /\ Sum(aging, DOMAIN aging \ {0}) = OverdueOf(db, late)
    /\ NetDue(db) = db.ar - db.advances
         + Sum([p \in Receipts |-> Unapplied(db, p)], {p \in Kept(db) : db.rct[p].held})

(* While requests never overlap, a statement closes on the two ledger       *)
(* accounts wherever its period begins, leaves out no document that still   *)
(* counts, and agrees with its own figures and with the year's history.     *)
StatementTrue ==
  apart =>
    LET entries == Entries(db)
        live == Kept(db) \cup Collectable(db) \cup LiveMemos(db)
        owed == db.ar - db.advances
    IN \A before \in SUBSET entries :
         LET shown == Shown(entries, before)
             opening == Worth(before)
         IN /\ LedgerClosing(entries, before) = owed
            /\ opening + Worth(shown) = owed
            /\ \A e \in entries \ before : e.of \in live => e \in shown
            /\ opening + Invoiced(shown) - ReceivedIn(shown) - CreditedIn(shown) + RefundedIn(shown) = owed
            /\ opening + Charged(entries \ before) - Settled(entries \ before) = owed

(* While requests never overlap, the reports agree with what the books say  *)
(* this customer owes, the aging and the statement both; and the sale of a  *)
(* delivery says what its invoice does.                                     *)
AnswersAgree == AgingTies /\ StatementTrue /\ PaidStatusTrue
=============================================================================
