-------------------------- MODULE MCGeneralLedger --------------------------
(* Instances of GeneralLedger for TLC. *)
EXTENDS LedgerReports, TLC
Line(d, c) == [a \in Accounts |-> IF a = d THEN 1 ELSE IF a = c THEN -1 ELSE 0]

(* Cash, Opening Balance Equity, and an account made and retyped at will. *)
Three == 1 .. 3
CashAndEquity == {1, 2}
Third == {3}
SmallChart == <<"cash", "equity", "cash">>
SmallCatalogue == {Line(1, 2), Line(3, 1), [Line(1, 3) EXCEPT ![1] = 2]}
Symmetric == Permutations(Requests)
TwoDays == {1, 2}
(* 1 cash, 2 equity, 3 a bank, 4 receivables, 5 machines, 6 a loan,         *)
(* 7 income, 8 expenses, 9 depreciation, 10 Retained Earnings, 11 sales tax *)
(* payable, 12 input tax, 13 cost of goods sold, 14 Accounts Payable.       *)
Books == 1 .. 14
BooksChart == <<"cash", "equity", "cash", "receivable", "fixed", "loan", "income",
                "expense", "depreciation", "retained", "payable", "receivable", "cogs",
                "supplier">>
Also(lines, a, amount) == [lines EXCEPT ![a] = @ + amount]
Business == {Line(1, 2),                               \* capital
             Line(1, 3),                               \* a transfer
             Also(Also(Line(1, 7), 4, 1), 7, -1),      \* a sale, half on credit
             Line(1, 4),                               \* a customer pays
             Also(Also(Line(5, 1), 5, 1), 6, -1),      \* a machine, half on loan
             Also(Also(Line(6, 1), 8, 1), 1, -1),      \* a repayment with interest
             Line(9, 5),                               \* depreciation
             Line(8, 2),                               \* the owner pays an expense
             Line(10, 1),                              \* a dividend
             Also(Also(Line(13, 11), 12, 1), 1, -1),   \* goods with input tax, and a tax due
             Also(Also(Line(5, 14), 8, 1), 14, -1),    \* a bill: a machine, and an expense
             Also(Also(Line(14, 1), 14, 1), 1, -1)}    \* a supplier is paid
(* Of two paid to a supplier: bills for a machine, for less than was paid,  *)
(* for a machine and an expense but for more, and bills not posted.         *)
MachineAnd(f, x) == [k \in {"fixed", "expense"} |-> IF k = "fixed" THEN f ELSE x]
BillsPaid == {MachineAnd(2, 0), MachineAnd(1, 0), MachineAnd(2, 2), MachineAnd(0, 0)}
ThreeYears == {2, 3, 9}
TwoSources == {"journal_entry", "opening_balance"}
ThreeSources == TwoSources \cup {"bill_payment"}
NoAccount == {}
=============================================================================
