------------------------ MODULE FinancialStatements ------------------------
(***************************************************************************)
(* The financial statements, as functions of the general ledger: profit    *)
(* and loss, balance sheet, retained earnings, trial balance, an account's *)
(* register, and the cash flow statement by the direct and the indirect    *)
(* method.                                                                 *)
(*                                                                         *)
(* L is the ledger, a set of rows [id, ref, day, src, acct, amt]: amt is   *)
(* debit less credit, rows with the same ref are one posting.  kind maps an *)
(* account to the section its type, subtype and number put it in.  paid    *)
(* maps a bill payment's posting to what the bills it was applied to were  *)
(* for: so much of it went to accounts of each kind.  Amounts are whole    *)
(* units: rounding to paisas is left out.                                  *)
(***************************************************************************)
EXTENDS Integers, FiniteSets, FiniteSums

CONSTANT YearLength   \* days of a fiscal year

ASSUME FinancialStatementsAssumption == YearLength \in Nat \ {0}

CashKinds == {"cash"}
OtherAssets == {"receivable", "inventory", "fixed"}
Liabilities == {"supplier", "payable", "loan"}
Equity == {"equity", "retained"}
Revenue == {"income", "otherIncome"}
Expense == {"cogs", "expense", "otherExpense", "depreciation"}
Kinds == CashKinds \cup OtherAssets \cup Liabilities \cup Equity \cup Revenue \cup Expense
Assets == CashKinds \cup OtherAssets
TypeOf(k) ==
  IF k \in Assets THEN "asset" ELSE IF k \in Liabilities THEN "liability"
  ELSE IF k \in Equity THEN "equity" ELSE IF k \in Revenue THEN "revenue" ELSE "expense"
DebitNormal(k) == k \in Assets \cup Expense

SumOf(S, f(_)) == MapThenSumSet(f, S)
LeastOf(a, b) == IF a < b THEN a ELSE b
Positive(a) == IF a > 0 THEN a ELSE 0
(* What ledger rows add up to.                                              *)
Amounts(rows) == Sum([r \in rows |-> r.amt], rows)

(* glByAccount: what the rows of some accounts add up to, s to e included. *)
In(L, kind, K, s, e) ==
  {r \in L : kind[r.acct] \in K /\ s <= r.day /\ r.day <= e}
Net(L, kind, K, s, e) == Amounts(In(L, kind, K, s, e))
NetOf(L, a, s, e) == Amounts({r \in L : r.acct = a /\ s <= r.day /\ r.day <= e})

FiscalYear(d) == d \div YearLength
FiscalYearStart(d) == FiscalYear(d) * YearLength

-----------------------------------------------------------------------------
(* Profit and loss, balance sheet, retained earnings. *)

Earnings(L, kind, s, e) == -Net(L, kind, Revenue \cup Expense, s, e)

ProfitLoss(L, kind, s, e) ==
  LET income == -Net(L, kind, {"income"}, s, e)
      cogs == Net(L, kind, {"cogs"}, s, e)
      expenses == Net(L, kind, {"expense", "depreciation"}, s, e)
      other == -Net(L, kind, {"otherIncome", "otherExpense"}, s, e)
  IN [operating |-> income - cogs - expenses, other |-> other,
      net |-> -Net(L, kind, Revenue, s, e) - Net(L, kind, Expense, s, e)]

(* priorWindowRows: all time less the year, and not a window of its own.    *)
PriorEarnings(L, kind, asOf) ==
  Earnings(L, kind, 0, asOf) - Earnings(L, kind, FiscalYearStart(asOf), asOf)

BalanceSheet(L, kind, asOf) ==
  [assets |-> Net(L, kind, Assets, 0, asOf),
   liabilities |-> -Net(L, kind, Liabilities, 0, asOf),
   equity |-> -Net(L, kind, {"equity"}, 0, asOf),
   retained |-> -Net(L, kind, {"retained"}, 0, asOf) + PriorEarnings(L, kind, asOf),
   current |-> Earnings(L, kind, FiscalYearStart(asOf), asOf)]

(* The report that takes the line Retained Earnings apart, year by year.    *)
RetainedEarnings(L, kind, asOf) ==
  LET years == 0 .. (FiscalYear(asOf) - 1)
      earned == [fy \in years |-> Earnings(L, kind, fy * YearLength, (fy + 1) * YearLength - 1)]
  IN Sum(earned, years) - Net(L, kind, {"retained"}, 0, asOf)

-----------------------------------------------------------------------------
(* Trial balance and register. *)

IsPnl(k) == k \in Revenue \cup Expense

(* Balance-sheet accounts since inception, revenue and expense for the year *)
(* of asOf, and one row for what these earned before.                       *)
Closing(L, kind, a, asOf) ==
  NetOf(L, a, IF IsPnl(kind[a]) THEN FiscalYearStart(asOf) ELSE 0, asOf)
ClosingPrior(L, kind, asOf) == -PriorEarnings(L, kind, asOf)

(* Mode working: opening and movement of a period. *)
Opening(L, kind, a, s) ==
  NetOf(L, a, IF IsPnl(kind[a]) THEN FiscalYearStart(s) ELSE 0, s - 1)
OpeningPrior(L, kind, s) ==
  Net(L, kind, Revenue \cup Expense, 0, s - 1)
    - Net(L, kind, Revenue \cup Expense, FiscalYearStart(s), s - 1)

(* accountRegister: signed as the account's type is. *)
Signed(k, amt) == IF DebitNormal(k) THEN amt ELSE -amt
Register(L, kind, a, s, e) ==
  [opening |-> Signed(kind[a], Opening(L, kind, a, s)),
   moved |-> Signed(kind[a], NetOf(L, a, s, e)),
   closing |-> Signed(kind[a], Opening(L, kind, a, s) + NetOf(L, a, s, e))]

-----------------------------------------------------------------------------
(* Cash flow.  Each posting's cash is classified by what it was exchanged   *)
(* for: cash in is matched to the credits of the other accounts, cash out   *)
(* to the debits, in proportion.                                            *)

Sections == {"operating", "investing", "financing"}
SectionOf(k) ==
  IF k = "fixed" THEN "investing"
  ELSE IF k \in {"loan", "equity", "retained"} THEN "financing"
  ELSE "operating"

Posting(L, p) == {r \in L : r.ref = p}
CashRows(P, kind) == {r \in P : kind[r.acct] \in CashKinds}
OtherRows(P, kind) == {r \in P : kind[r.acct] \notin CashKinds}
Debits(P) == {r \in P : r.amt > 0}
Credits(P) == {r \in P : r.amt < 0}
Size(P) == SumOf(P, LAMBDA r : IF r.amt < 0 THEN -r.amt ELSE r.amt)
Source(P) == (CHOOSE r \in P : TRUE).src

(* What the bills a payment was applied to weigh in some sections: never    *)
(* more than the payment; what they do not cover is operating.              *)
Bought(mix, size, sections) ==
  LET covered == Sum(mix, DOMAIN mix)
      there == SumOf({k \in DOMAIN mix : SectionOf(k) \in sections}, LAMBDA k : mix[k])
  IN (IF covered > size THEN (there * size) \div covered ELSE there)
       + IF "operating" \in sections THEN Positive(size - covered) ELSE 0

(* What rows weigh in some sections.  Accounts Payable in a bill payment is *)
(* looked through to what the bills were for, where they were posted.       *)
LooksThrough(kind, paid, r) ==
  /\ r.src = "bill_payment"
  /\ kind[r.acct] = "supplier"
  /\ Sum(paid[r.ref], DOMAIN paid[r.ref]) > 0
Weight(rows, kind, paid, sections) ==
  SumOf(rows, LAMBDA r :
    IF LooksThrough(kind, paid, r) THEN Bought(paid[r.ref], Size({r}), sections)
    ELSE IF SectionOf(kind[r.acct]) \in sections THEN Size({r}) ELSE 0)

(* What of a side's rows, by their weight, is matched to the cash of the    *)
(* other side.                                                              *)
Matched(rows, cash, weight) ==
  IF Size(rows) = 0 THEN 0 ELSE (LeastOf(cash, Size(rows)) * weight) \div Size(rows)

(* classifyPosting *)
Allocation(P, kind, paid, section) ==
  LET cashIn == Size(Debits(CashRows(P, kind)))
      cashOut == Size(Credits(CashRows(P, kind)))
      of(rows, cash) == Matched(rows, cash, Weight(rows, kind, paid, {section}))
  IN IF OtherRows(P, kind) = {} THEN 0
     ELSE IF Source(P) = "opening_balance"
       THEN IF section = "financing" THEN cashIn - cashOut ELSE 0
     ELSE of(Credits(OtherRows(P, kind)), cashIn) - of(Debits(OtherRows(P, kind)), cashOut)

Postings(L, s, e) == {r.ref : r \in {r \in L : s <= r.day /\ r.day <= e}}
Flow(L, kind, paid, section, s, e) ==
  SumOf(Postings(L, s, e), LAMBDA p : Allocation(Posting(L, p), kind, paid, section))
CashAt(L, kind, d) == Net(L, kind, CashKinds, 0, d)

(* nonCashShares: of a row of the operating accounts, the part that is no   *)
(* operating cash: its non-cash part in the proportion that the other side  *)
(* is an investing or financing account, and, of Accounts Payable in a bill *)
(* payment, the share of the cash that bought a fixed asset or the like.    *)
NoneExcluded(P, kind, paid, r) == 0
Excluded(P, kind, paid, r) ==
  LET cashIn == Size(Debits(CashRows(P, kind)))
      cashOut == Size(Credits(CashRows(P, kind)))
      others == OtherRows(P, kind)
      matched(o) == IF o.amt > 0 THEN Matched(Debits(others), cashOut, o.amt)
                    ELSE Matched(Credits(others), cashIn, -o.amt)
      rest(o) == Size({o}) - matched(o)
      opposite == {o \in others : o.amt * r.amt < 0}
      all == SumOf(opposite, rest)
      far == SumOf({o \in opposite : SectionOf(kind[o.acct]) # "operating"}, rest)
      noCash == IF all = 0 THEN 0 ELSE (rest(r) * far) \div all
      bought == Weight(Debits(others), kind, paid, Sections \ {"operating"})
      farCash == IF LooksThrough(kind, paid, r) THEN (matched(r) * bought) \div Size(Debits(others))
                 ELSE 0
  IN IF Source(P) \in {"opening_balance", "opening_stock"} THEN r.amt
     ELSE IF r.amt > 0 THEN noCash + farCash ELSE -(noCash + farCash)

(* The indirect method: net income, depreciation and non-cash items added   *)
(* back, less what the operating accounts of the balance sheet moved.       *)
WorkingCapital == {"receivable", "inventory", "supplier", "payable"}
Indirect(L, kind, paid, s, e) ==
  LET period == In(L, kind, Kinds, s, e)
      excluded(K) == SumOf({r \in period : kind[r.acct] \in K},
                           LAMBDA r : Excluded(Posting(L, r.ref), kind, paid, r))
      addBack == excluded((Revenue \cup Expense) \ {"depreciation"})
  IN Earnings(L, kind, s, e) + Net(L, kind, {"depreciation"}, s, e) + addBack
       - (Net(L, kind, WorkingCapital, s, e) - excluded(WorkingCapital))
=============================================================================
