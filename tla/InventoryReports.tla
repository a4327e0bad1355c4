-------------------------- MODULE InventoryReports --------------------------
(***************************************************************************)
(* The stock reports: what an item sold month by month, by channel and     *)
(* line by line, the performance table of all items, the closings of       *)
(* account 1200, and the health of the stock: its age, dead stock, what to *)
(* reorder and how long it lasts.                                          *)
(*                                                                         *)
(* A sale or a restock of Inventory is one line of an invoice or a credit  *)
(* memo; every unit is sold at SellingPrice.  A month is a day.            *)
(***************************************************************************)
EXTENDS Inventory, Sequences

CONSTANTS SellingPrice,
          MostMonths,                     \* most months an item's chart shows
          PageSize,                       \* lines of a page
          AgeLimits,                      \* upper ends, in days, of the age buckets but the last
          DeadStockDays,
          ReorderPoint, ReorderQuantity

ASSUME InventoryReportsAssumption ==
  /\ {SellingPrice, MostMonths, PageSize} \subseteq Nat \ {0}
  /\ {DeadStockDays, ReorderPoint, ReorderQuantity} \subseteq Nat
  /\ AgeLimits \in Seq(Nat) \ {<<>>}
  /\ \A n, m \in DOMAIN AgeLimits : n < m => AgeLimits[n] < AgeLimits[m]
  /\ DeadStockDays = AgeLimits[Len(AgeLimits)]

Greatest(a, b) == IF a < b THEN b ELSE a
Nothing == -1   \* null

-----------------------------------------------------------------------------
(* What an item sold. *)

(* itemSalesLinesSql: the issued invoices' lines, and the credit memos' with *)
(* their sign turned; what is void is left out.                             *)
Invoiced(d, i) == {k \in Documents : d.doc[k].kind = "sold" /\ d.doc[k].item = i /\ d.doc[k].live}
Credited(d, i) ==
  {k \in Documents : d.doc[k].kind = "restocked" /\ d.doc[k].item = i /\ d.doc[k].live}
InRange(d, lines, s, e) == {k \in lines : s <= d.doc[k].day /\ d.doc[k].day <= e}
Figures(d, lines) ==
  LET units == Sum([k \in Documents |-> -d.doc[k].qty], lines)
      cogs == Sum([k \in Documents |-> -d.doc[k].value], lines)
  IN [units |-> units, revenue |-> units * SellingPrice, cogs |-> cogs,
      profit |-> units * SellingPrice - cogs]
SalesLines(d, i, s, e) == InRange(d, Invoiced(d, i) \cup Credited(d, i), s, e)

(* itemPerformance: a point per month of the window; the channels and the   *)
(* returns are those of the window, not of the range that was asked for.    *)
PointsWindow(s, e) == Greatest(s, e - MostMonths + 1) .. e
Points(d, i, s, e) == [m \in PointsWindow(s, e) |-> Figures(d, SalesLines(d, i, m, m))]
WindowOfRange(s, e) == s
WindowStart(s, e) == Greatest(s, e - MostMonths + 1)
Sold(d, i, s, e) == Figures(d, InRange(d, Invoiced(d, i), WindowStart(s, e), e))
Returns(d, i, s, e) == Figures(d, InRange(d, Credited(d, i), WindowStart(s, e), e))

(* itemSalesEntries: the lines of the whole range, newest first.            *)
Entries(d, i, s, e, n) ==
  LET lines == SalesLines(d, i, s, e)
      newer(j, k) == d.doc[j].day > d.doc[k].day \/ (d.doc[j].day = d.doc[k].day /\ j > k)
  IN {k \in lines : Cardinality({j \in lines : newer(j, k)}) \div PageSize = n}

(* inventoryPerformance *)
LatestOf(days) == IF days = {} THEN Nothing ELSE Max(days)
LastSold(d, i) == LatestOf({d.doc[k].day : k \in Invoiced(d, i)})
Performance(d, s, e) ==
  [i \in Goods |-> [sold |-> Figures(d, SalesLines(d, i, s, e)), worth |-> Worth(d.item[i]),
                    last |-> LastSold(d, i)]]

-----------------------------------------------------------------------------
(* Account 1200 month by month (inventoryClosings). *)

Closings(d, anchor, count) ==
  LET first == anchor - count + 1
      carried == Sum(d.gl, {t \in Days : t < first})
  IN [m \in first .. anchor |-> carried + Sum(d.gl, {t \in Days : first <= t /\ t <= m})]

-----------------------------------------------------------------------------
(* Health of the stock (inventoryHealth). *)

(* On an earlier day, the movement record; today, what is on hand at the    *)
(* average cost.                                                            *)
OnHand(d, i, asOf) ==
  IF asOf < Today THEN UpTo(d, i, asOf)
  ELSE [qty |-> d.item[i].qty, value |-> Worth(d.item[i])]
Stocked(d, asOf) == {i \in Goods : OnHand(d, i, asOf).qty > 0}

(* OUTBOUND_SQL, INBOUND_SQL: of the movements, the day of the last that    *)
(* took stock out, and of the last that brought it in.  Undoing either is a *)
(* movement the other way, dated as the document.                           *)
LastOut(d, i, asOf) ==
  LatestOf({d.doc[k].day : k \in {k \in Documents :
    /\ d.doc[k].kind \in {"sold", "returned"} \/ (d.doc[k].kind = "restocked" /\ ~d.doc[k].live)
    /\ d.doc[k].item = i /\ d.doc[k].day <= asOf}})
LastIn(d, i, asOf) ==
  LatestOf({t \in d.arrived[i] : t <= asOf} \cup
    {d.doc[k].day : k \in {k \in Documents :
       /\ \/ d.doc[k].kind = "restocked"
          \/ d.doc[k].kind \in {"sold", "returned"} /\ ~d.doc[k].live
       /\ d.doc[k].item = i /\ d.doc[k].day <= asOf}})

(* AGE_BUCKETS: the first bucket the age is within; 0 is no movement.       *)
BucketOfAge(age) ==
  CHOOSE b \in 1 .. (Len(AgeLimits) + 1) :
    /\ b \in DOMAIN AgeLimits => age <= AgeLimits[b]
    /\ \A c \in 1 .. (b - 1) : age > AgeLimits[c]
Bucket(last, asOf) == IF last = Nothing THEN 0 ELSE BucketOfAge(asOf - last)
Aged(d, asOf, last) ==
  LET of == [i \in Stocked(d, asOf) |-> Bucket(last[i], asOf)]
  IN  [b \in 0 .. (Len(AgeLimits) + 1) |-> {i \in DOMAIN of : of[i] = b}]
ValueOf(d, S, asOf) == Sum([i \in Goods |-> OnHand(d, i, asOf).value], S)

(* item-stock.ts *)
IsDead(qty, last, asOf) == qty > 0 /\ (last = Nothing \/ asOf - last > DeadStockDays)
DeadItems(d, asOf) == {i \in Goods : IsDead(OnHand(d, i, asOf).qty, LastOut(d, i, asOf), asOf)}
StockStatus(qty) ==
  IF qty <= 0 THEN "out" ELSE IF qty <= ReorderPoint THEN "low" ELSE "ok"
Suggestion(qty) ==
  IF ReorderPoint = 0 \/ qty > ReorderPoint THEN Nothing
  ELSE Greatest(ReorderQuantity, ReorderPoint - qty)
(* How many days the stock lasts at the rate of the period.                 *)
Cover(qty, units, s, e) ==
  LET days == (IF e > Today THEN Today ELSE e) - s + 1
  IN IF qty <= 0 THEN IF units > 0 THEN 0 ELSE Nothing
     ELSE IF days <= 0 \/ units <= 0 THEN Nothing ELSE (qty * days) \div units

-----------------------------------------------------------------------------
(* The stock reports tie to one another and to the stock, on any day and in *)
(* any range: an item's chart, its channels and, where the chart holds the  *)
(* whole range, the pages of its lines and its row in the table are one     *)
(* figure and no line is on two pages; the last closing is the balance of   *)
(* account 1200; either ageing puts each item on hand in one bucket and     *)
(* adds up to the stock, and what it shows beyond the last limit, or never  *)
(* to have moved, is exactly the dead stock; and what is short is what a    *)
(* reorder is suggested for, of enough to leave the reorder point behind.   *)
Whole(figures) == Sum(figures, DOMAIN figures)
SalesTie(d, i, s, e) ==
  LET lines == SalesLines(d, i, s, e)
      points == Points(d, i, s, e)
      chart == Whole([m \in DOMAIN points |-> points[m].profit])
      pages == 0 .. (Cardinality(lines) \div PageSize)
      listed == Whole([n \in pages |-> Figures(d, Entries(d, i, s, e, n)).profit])
      cover == Cover(d.item[i].qty, Figures(d, lines).units, s, e)
  IN /\ chart = Sold(d, i, s, e).profit + Returns(d, i, s, e).profit
     /\ listed = Performance(d, s, e)[i].sold.profit
     /\ Whole([n \in pages |-> Cardinality(Entries(d, i, s, e, n))]) = Cardinality(lines)
     /\ e - s < MostMonths => chart = listed
     /\ cover # Nothing => cover * Figures(d, lines).units <= d.item[i].qty * (e - s + 1)
HealthTies(d, asOf) ==
  LET out == Aged(d, asOf, [i \in Goods |-> LastOut(d, i, asOf)])
      in == Aged(d, asOf, [i \in Goods |-> LastIn(d, i, asOf)])
      all == Stocked(d, asOf)
      total(aged) == Whole([b \in DOMAIN aged |-> ValueOf(d, aged[b], asOf)])
      count(aged) == Whole([b \in DOMAIN aged |-> Cardinality(aged[b])])
  IN /\ count(out) = Cardinality(all) /\ count(in) = Cardinality(all)
     /\ total(out) = ValueOf(d, all, asOf) /\ total(in) = ValueOf(d, all, asOf)
     /\ DeadItems(d, asOf) = out[0] \cup out[Len(AgeLimits) + 1]
     /\ asOf = Today => ValueOf(d, all, asOf) = ClosingOf1200(d, asOf)
StockReportsTie ==
  Alone =>
    /\ \A i \in Goods, s, e \in Days : SalesLines(db, i, s, e) # {} => SalesTie(db, i, s, e)
    /\ \A asOf \in Days, count \in 1 .. Today :
         Closings(db, asOf, count)[asOf] = ClosingOf1200(db, asOf)
    /\ \A asOf \in Days : HealthTies(db, asOf)
    /\ \A i \in Goods :
         LET qty == db.item[i].qty
         IN /\ (Suggestion(qty) # Nothing) = (ReorderPoint > 0 /\ StockStatus(qty) # "ok")
            /\ Suggestion(qty) # Nothing => qty + Suggestion(qty) >= ReorderPoint
=============================================================================
