--------------------------- MODULE LedgerReports ---------------------------
(***************************************************************************)
(* What is derived from the ledger beside the statements: the monthly      *)
(* series of the cockpit and of the cash flow, the transactions behind a   *)
(* line, why an account moved, the KPIs with their assessments and the     *)
(* insights, the budget against the actuals, and the tax liability.        *)
(*                                                                         *)
(* Months are of one length.  A ratio is a pair [num, den]; rounding, and  *)
(* the apportioning of its remainders, are left out.                       *)
(***************************************************************************)
EXTENDS GeneralLedger

CONSTANTS MonthLength,    \* days of a month
          TrendMonths,    \* most months a cash trend shows
          PageSize,       \* rows of a page of a drill-down
          TopSources,     \* how many contributors are named before Other
          January,        \* months from the start of a fiscal year to January
          TaxPayable, InputTax   \* the two tax accounts

ASSUME LedgerReportsAssumption ==
  /\ {MonthLength, TrendMonths, PageSize, TopSources} \subseteq Nat \ {0}
  /\ January \in Nat
  /\ {TaxPayable, InputTax} \subseteq Accounts

GreatestOf(a, b) == IF a < b THEN b ELSE a
Month(d) == d \div MonthLength
FirstDay(m) == m * MonthLength
LastDay(m) == FirstDay(m + 1) - 1
(* monthWindow of monthSpan, at most so many. *)
Window(s, e, most) == GreatestOf(Month(s), Month(e) - most + 1) .. Month(e)
(* precedingPeriod: as long as the period and just before it. *)
Preceding(s, e) == <<s - (e - s + 1), s - 1>>

-----------------------------------------------------------------------------
(* Monthly series. *)

(* pnlByMonth: the part of month m that lies in the period. *)
PnlOfMonth(L, kind, m, s, e) ==
  ProfitLoss(L, kind, GreatestOf(s, FirstDay(m)), LeastOf(e, LastDay(m)))
OperatingCashOfMonth(L, kind, paid, m, s, e) ==
  SumOf({p \in Postings(L, s, e) : \A r \in Posting(L, p) : Month(r.day) = m},
        LAMBDA p : Allocation(Posting(L, p), kind, paid, "operating"))

(* cashMonthlyTrend: what moved before the window opens is carried into the *)
(* running cash.                                                            *)
CarriedNothing(L, kind, s, e) == 0
Carried(L, kind, s, e) ==
  SumOf({r \in In(L, kind, CashKinds, s, e) :
           \A m \in Window(s, e, TrendMonths) : Month(r.day) < m},
        LAMBDA r : r.amt)
Trend(L, kind, s, e) ==
  LET moved(m) == SumOf({r \in In(L, kind, CashKinds, s, e) : Month(r.day) = m},
                        LAMBDA r : r.amt)
      window == Window(s, e, TrendMonths)
  IN [m \in window |->
        [moved |-> moved(m),
         ending |-> CashAt(L, kind, s - 1) + Carried(L, kind, s, e)
                      + SumOf({x \in window : x <= m}, moved)]]

-----------------------------------------------------------------------------
(* Drill-downs. *)

(* statementLineEntries: one page of an account's rows, newest first.       *)
NewerThan(x, r) == x.day > r.day \/ (x.day = r.day /\ x.id > r.id)
Page(L, a, s, e, n) ==
  LET rows == {r \in L : r.acct = a /\ s <= r.day /\ r.day <= e}
  IN {r \in rows : Cardinality({x \in rows : NewerThan(x, r)}) \div PageSize = n}
LineAmount(kind, a, rows) == Signed(kind[a], SumOf(rows, LAMBDA r : r.amt))

(* cashFlowLineEntries: each cash row's share of a section.  Money in takes *)
(* of what came in for the section, money out of what went out.             *)
RowShare(P, kind, paid, section, r) ==
  LET cash == Size({x \in CashRows(P, kind) : x.amt * r.amt > 0})
      facing == {x \in OtherRows(P, kind) : x.amt * r.amt < 0}
      weight == Weight(facing, kind, paid, {section})
  IN IF OtherRows(P, kind) = {} THEN 0
     ELSE IF Source(P) = "opening_balance" THEN IF section = "financing" THEN r.amt ELSE 0
     ELSE (r.amt * Matched(facing, cash, weight)) \div cash
BehindFlow(L, kind, paid, section, s, e) ==
  SumOf({r \in L : r.ref \in Postings(L, s, e) /\ kind[r.acct] \in CashKinds},
        LAMBDA r : RowShare(Posting(L, r.ref), kind, paid, section, r))

(* accountMovement: the change between two periods, by what made it; beyond *)
(* the largest few it folds into Other.                                     *)
Moved(L, kind, a, src, p) ==
  Signed(kind[a], SumOf({r \in L : r.acct = a /\ r.src \in src /\ p[1] <= r.day /\ r.day <= p[2]},
                        LAMBDA r : r.amt))
Movement(L, kind, a, now, before) ==
  LET sources == {r.src : r \in {r \in L : r.acct = a}}
      change(src) == Moved(L, kind, a, {src}, now) - Moved(L, kind, a, {src}, before)
      larger(x, y) == Size({[amt |-> change(x)]}) > Size({[amt |-> change(y)]})
      top == {x \in sources : Cardinality({y \in sources : larger(y, x)}) < TopSources}
  IN [change |-> Moved(L, kind, a, sources, now) - Moved(L, kind, a, sources, before),
      named |-> SumOf(top, change), other |-> SumOf(sources \ top, change)]

-----------------------------------------------------------------------------
(* KPIs (healthInputs, healthKpis): a figure is [status, num, den].         *)

Figure(num, den) ==
  [status |-> IF den = 0 THEN "no_denominator" ELSE "ok",
   num |-> IF den < 0 THEN -num ELSE num, den |-> IF den < 0 THEN -den ELSE den]
OfFlow(num, den) == Figure(num, Positive(den))
Amount(v) == Figure(v, 1)

CurrentAssets == {"cash", "receivable", "inventory"}
Inputs(L, kind, asOf) ==
  LET window == FirstDay(Month(asOf)) - 3 * MonthLength
      flow(K) == Net(L, kind, K, asOf - 3 * MonthLength + 1, asOf)
      bs == BalanceSheet(L, kind, asOf)
  IN [cash |-> Net(L, kind, CashKinds, 0, asOf),
      receivables |-> Net(L, kind, {"receivable"}, 0, asOf),
      inventory |-> Net(L, kind, {"inventory"}, 0, asOf),
      currentAssets |-> Net(L, kind, CurrentAssets, 0, asOf),
      currentLiabilities |-> -Net(L, kind, {"supplier", "payable"}, 0, asOf),
      suppliers |-> -Net(L, kind, {"supplier"}, 0, asOf),
      liabilities |-> bs.liabilities,
      equity |-> bs.equity + bs.retained + bs.current,
      revenue |-> -flow({"income"}), cogs |-> flow({"cogs"}),
      netCash |-> Net(L, kind, CashKinds, window, FirstDay(Month(asOf)) - 1)]

Kpis(i) ==
  LET days(a, flow) == OfFlow(3 * MonthLength * a, flow)
  IN [cashAndBank |-> Amount(i.cash),
      workingCapital |-> Amount(i.currentAssets - i.currentLiabilities),
      currentRatio |-> Figure(i.currentAssets, i.currentLiabilities),
      quickRatio |-> Figure(i.cash + i.receivables, i.currentLiabilities),
      debtToEquity |-> IF i.equity <= 0 THEN [Figure(0, 1) EXCEPT !.status = "negative_equity"]
                       ELSE Figure(i.liabilities, i.equity),
      dso |-> days(i.receivables, i.revenue),
      dpo |-> days(i.suppliers, i.cogs),
      dio |-> days(i.inventory, i.cogs),
      ccc |-> days(i.receivables * i.cogs + (i.inventory - i.suppliers) * i.revenue,
                   Positive(i.revenue) * Positive(i.cogs)),
      runway |-> IF i.netCash >= 0 THEN [Figure(0, 1) EXCEPT !.status = "cash_positive"]
                 ELSE Figure(3 * Positive(i.cash), -i.netCash)]

(* KPI_BENCHMARKS, in tenths; assessKpi. *)
Higher == [currentRatio |-> <<15, 10>>, quickRatio |-> <<10, 7>>, runway |-> <<60, 30>>]
Lower == [debtToEquity |-> <<10, 20>>, dso |-> <<450, 750>>, dio |-> <<600, 1200>>,
          ccc |-> <<600, 1200>>]
Graded(healthy, watch) == IF healthy THEN "healthy" ELSE IF watch THEN "watch" ELSE "risk"
Level(key, f) ==
  LET above(tenths) == 10 * f.num >= tenths * f.den
      below(tenths) == 10 * f.num <= tenths * f.den
  IN IF f.status = "cash_positive" THEN "healthy"
     ELSE IF f.status = "negative_equity" THEN "risk"
     ELSE IF f.status = "no_denominator" THEN "neutral"
     ELSE IF key \in DOMAIN Higher THEN Graded(above(Higher[key][1]), above(Higher[key][2]))
     ELSE IF key \in DOMAIN Lower THEN Graded(below(Lower[key][1]), below(Lower[key][2]))
     ELSE IF key \in {"cashAndBank", "workingCapital"} THEN Graded(f.num > 0, FALSE)
     ELSE "neutral"

-----------------------------------------------------------------------------
(* Budgets: per account and month, against the rows of the calendar year.   *)

MonthsInYear == YearLength \div MonthLength
FirstMonth(y) == y * MonthsInYear + January
MonthsOfYear(y) == FirstMonth(y) .. (FirstMonth(y + 1) - 1)
Actual(L, kind, a, m) == Signed(kind[a], NetOf(L, a, FirstDay(m), LastDay(m)))
ActualOf(L, kind, a, months) == SumOf(months, LAMBDA m : Actual(L, kind, a, m))
(* prefillFromActuals: the year's months that are not negative. *)
Prefilled(L, kind, y) ==
  LET line(a) == [i \in 0 .. (MonthsInYear - 1) |->
                    Positive(Actual(L, kind, a, FirstMonth(y) + i))]
  IN [a \in {a \in DOMAIN kind : IsPnl(kind[a]) /\ \E i \in DOMAIN line(a) : line(a)[i] > 0}
        |-> line(a)]
(* budgetVsActual *)
BudgetVsActual(L, kind, budget, y) ==
  [a \in DOMAIN budget |->
     LET budgeted == SumOf(DOMAIN budget[a], LAMBDA i : budget[a][i])
         actual == ActualOf(L, kind, a, MonthsOfYear(y))
     IN [budgeted |-> budgeted, actual |-> actual, variance |-> budgeted - actual]]

(* getLiability: what is credited to the tax account was collected, what is *)
(* debited was remitted; input tax is recoverable.                          *)
TaxLiability(L, s, e) ==
  LET of(a) == {r \in L : r.acct = a /\ s <= r.day /\ r.day <= e}
  IN [collected |-> Size(Credits(of(TaxPayable))), remitted |-> Size(Debits(of(TaxPayable))),
      recoverable |-> SumOf(of(InputTax), LAMBDA r : r.amt)]
Owed(t) == t.collected - t.remitted - t.recoverable

-----------------------------------------------------------------------------
(* Insights of a period beside the one before (buildBusinessInsights).      *)

Changed(now, then, percent) ==
  /\ then # 0
  /\ 100 * (now - then) >= percent * (IF then < 0 THEN -then ELSE then)
Fell(now, then, percent) ==
  /\ then # 0
  /\ 100 * (then - now) >= percent * (IF then < 0 THEN -then ELSE then)
Say(when, key, tone) == IF when THEN {[key |-> key, tone |-> tone]} ELSE {}

(* now and then: revenue, cogs, net, opex and cash of the periods; k the    *)
(* KPIs; top5 the share of the five largest customers; budget what was      *)
(* spent, allowed, sold and aimed at in its months.                         *)
MarginMoved(now, then) ==
  /\ now.revenue > 0 /\ then.revenue > 0
  /\ LET moved == now.cogs * then.revenue - then.cogs * now.revenue
     IN 100 * (IF moved < 0 THEN -moved ELSE moved) >= 2 * now.revenue * then.revenue
Insights(now, then, k, top5, budget) ==
  LET quiet == now.revenue <= 0 /\ then.revenue <= 0
      runway == Level("runway", k.runway)
      overdrawn == now.cash < 0
      short == ~overdrawn /\ k.runway.status = "ok" /\ runway # "healthy"
      late == Level("dso", k.dso)
  IN Say(quiet, "revenue", "warning")
     \cup Say(~quiet /\ Fell(now.revenue, then.revenue, 5), "revenue",
              IF Fell(now.revenue, then.revenue, 20) THEN "negative" ELSE "warning")
     \cup Say(~quiet /\ ~Fell(now.revenue, then.revenue, 5), "revenue",
              IF Changed(now.revenue, then.revenue, 5) THEN "positive" ELSE "neutral")
     \cup Say(now.net < 0, "netLoss", "negative")
     \cup Say(now.net >= 0 /\ MarginMoved(now, then), "grossMargin",
              IF now.cogs * then.revenue < then.cogs * now.revenue THEN "positive" ELSE "warning")
     \cup Say(now.net > 0 /\ now.revenue > 0 /\ ~MarginMoved(now, then), "margins", "neutral")
     \cup Say(overdrawn, "overdrawn", "negative")
     \cup Say(short, "runway", IF runway = "risk" THEN "negative" ELSE "warning")
     \cup Say(~overdrawn /\ ~short /\ Fell(now.cash, then.cash, 20), "cash", "warning")
     \cup Say(~overdrawn /\ ~short /\ Changed(now.cash, then.cash, 20), "cash", "positive")
     \cup Say(late \in {"watch", "risk"}, "collections",
              IF late = "risk" THEN "negative" ELSE "warning")
     \cup Say(top5 > 50, "concentration", IF top5 > 70 THEN "negative" ELSE "warning")
     \cup Say(then.opex > 0 /\ Changed(now.opex, then.opex, 15), "opex", "warning")
     \cup Say(budget.allowed > 0, "budget",
              IF 100 * (budget.spent - budget.allowed) > 15 * budget.allowed THEN "negative"
              ELSE IF 100 * (budget.spent - budget.allowed) > 5 * budget.allowed THEN "warning"
              ELSE "positive")
     \cup Say(budget.aim > 0 /\ Fell(budget.sold, budget.aim, 10), "revenueBudget", "warning")

(* The six that matter most, in the order of their tone and then of KeyOrder. *)
ToneOrder == <<"negative", "warning", "positive", "neutral">>
KeyOrder == <<"revenue", "netLoss", "grossMargin", "margins", "overdrawn", "runway", "cash",
              "collections", "concentration", "opex", "budget", "revenueBudget">>
PlaceIn(order, x) == CHOOSE i \in DOMAIN order : order[i] = x
Shown(insights) ==
  LET sooner(x, y) ==
        \/ PlaceIn(ToneOrder, x.tone) < PlaceIn(ToneOrder, y.tone)
        \/ x.tone = y.tone /\ PlaceIn(KeyOrder, x.key) < PlaceIn(KeyOrder, y.key)
  IN {y \in insights : Cardinality({x \in insights : sooner(x, y)}) < 6}

Figures(L, kind, s, e) ==
  [revenue |-> -Net(L, kind, Revenue, s, e), cogs |-> Net(L, kind, {"cogs"}, s, e),
   net |-> ProfitLoss(L, kind, s, e).net, cash |-> CashAt(L, kind, e),
   opex |-> Net(L, kind, {"expense", "depreciation"}, s, e)]
(* The months of a budget that the period touches, of both kinds of line.   *)
BudgetFigures(L, kind, budget, y, s, e) ==
  LET covered == {m \in MonthsOfYear(y) : FirstDay(m) <= e /\ LastDay(m) >= s}
      of(K) == {a \in DOMAIN budget : kind[a] \in K}
      planned(K) == SumOf(of(K), LAMBDA a : SumOf(covered, LAMBDA m : budget[a][m - FirstMonth(y)]))
      actual(K) == SumOf(of(K), LAMBDA a : ActualOf(L, kind, a, covered))
  IN [spent |-> actual(Expense), allowed |-> planned(Expense),
      sold |-> actual(Revenue), aim |-> planned(Revenue)]
(* analytics *)
Cockpit(L, kind, s, e, top5, budget, y) ==
  LET before == Preceding(s, e)
  IN Insights(Figures(L, kind, s, e), Figures(L, kind, before[1], before[2]),
              Kpis(Inputs(L, kind, e)), top5, BudgetFigures(L, kind, budget, y, s, e))

-----------------------------------------------------------------------------
(* What the figures of one ledger owe each other. *)
Total(S, f(_)) == SumOf(S, f)
SeriesAddUp(L, kind, s, e) ==
  LET months == Window(s, e, Month(e) + 1)
  IN /\ Total(months, LAMBDA m : PnlOfMonth(L, kind, m, s, e).net) = ProfitLoss(L, kind, s, e).net
     /\ \A paid \in PaidFor(L) :
          Total(months, LAMBDA m : OperatingCashOfMonth(L, kind, paid, m, s, e))
            = Flow(L, kind, paid, "operating", s, e)
     /\ \A m \in Window(s, e, TrendMonths) :
          Trend(L, kind, s, e)[m].ending = CashAt(L, kind, LeastOf(e, LastDay(m)))
DrillDownsAddUp(L, kind, s, e) ==
  /\ \A a \in Accounts :
       LET count == Cardinality({r \in L : r.acct = a /\ s <= r.day /\ r.day <= e})
           pages == 0 .. (count \div PageSize)
       IN /\ Total(pages, LAMBDA n : LineAmount(kind, a, Page(L, a, s, e, n)))
               = Register(L, kind, a, s, e).moved
          /\ Total(pages, LAMBDA n : Cardinality(Page(L, a, s, e, n))) = count
  /\ \A section \in Sections, paid \in PaidFor(L) :
       BehindFlow(L, kind, paid, section, s, e) = Flow(L, kind, paid, section, s, e)
ChangesExplained(L, kind, s, e) ==
  LET before == Preceding(s, e)
  IN \A a \in Accounts :
       LET m == Movement(L, kind, a, <<s, e>>, before)
       IN /\ m.named + m.other = m.change
          /\ m.change = Register(L, kind, a, s, e).moved
                          - Register(L, kind, a, before[1], before[2]).moved
YearAddsUp(L, kind, y) ==
  LET first == FirstDay(FirstMonth(y))
      last == LastDay(FirstMonth(y + 1) - 1)
      every == [a \in {a \in Accounts : IsPnl(kind[a])} |-> [i \in 0 .. (MonthsInYear - 1) |-> 0]]
      actual(a) == BudgetVsActual(L, kind, every, y)[a].actual
      credit(a) == IF DebitNormal(kind[a]) THEN -actual(a) ELSE actual(a)
  IN Total(DOMAIN every, credit) = ProfitLoss(L, kind, first, last).net
CockpitTells(L, kind, s, e) ==
  LET y == (Month(e) - January) \div MonthsInYear
      all == Cockpit(L, kind, s, e, 0, Prefilled(L, kind, y - 1), y)
      i == Inputs(L, kind, e)
      months == {m \in (Month(e) - 3) .. (Month(e) - 1) : m >= 0}
  IN /\ {x \in all : x.tone = "negative"} \subseteq Shown(all)
     /\ i.netCash = Total(months, LAMBDA m : Net(L, kind, CashKinds, FirstDay(m), LastDay(m)))
     /\ i.currentAssets - i.currentLiabilities
          = i.equity + i.liabilities - i.currentLiabilities - Net(L, kind, {"fixed"}, 0, e)

(* The statements agree with each other, and the derived reports are one    *)
(* set of figures with them, in every period: monthly series add up to the statement and each month's running  *)
(* cash is what the accounts held, the pages behind a line make up the line *)
(* with no row twice, the cash rows behind a section make up the section,   *)
(* the contributors of a change make up the change, a year's budget lines   *)
(* cover its profit and loss, tax owed is what the tax accounts hold, the   *)
(* runway's cash burn is the trend's, and no bad news is left out.  The     *)
(* ledger does not change while a request is served.                        *)
ReportsTie ==
  LET L == Ledger
      kind == KindOf(db)
  IN StatementsAgree /\ ((\A r \in Requests : req[r] = Idle) => \A p \in Periods :
       /\ SeriesAddUp(L, kind, p[1], p[2])
       /\ DrillDownsAddUp(L, kind, p[1], p[2])
       /\ ChangesExplained(L, kind, p[1], p[2])
       /\ YearAddsUp(L, kind, FiscalYear(p[1]))
       /\ CockpitTells(L, kind, p[1], p[2])
       /\ Owed(TaxLiability(L, 0, p[1])) + Owed(TaxLiability(L, p[1] + 1, p[2]))
            = -NetOf(L, TaxPayable, 0, p[2]) - NetOf(L, InputTax, 0, p[2]))
=============================================================================
