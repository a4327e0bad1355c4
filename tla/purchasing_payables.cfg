SPECIFICATION Spec
CONSTANTS
  StockLines = {s}
  ExpenseLines = {e}
  Cost = 2
  Tax = 1
  MostOrdered = 2
  Bills = {b1, b2}
  Credits = {c1}
  Proofs = {f1, f2}
  Payments = {p1, p2}
  Amounts <- Few
  HandGrni = FALSE
  Requests = {r1}
  Overlapping = {"pay", "post", "billOrder", "createBill", "createCredit"}
  MaxWrites = 5
SYMMETRY Alike
CHECK_DEADLOCK FALSE
INVARIANT GrniTies
INVARIANT PayablesTie
