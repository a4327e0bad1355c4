SPECIFICATION Spec
CONSTANTS
  Invoices <- Ids
  Amounts <- Ones
  Receipts = {p1, p2}
  Memos = {m1}
  Requests = {r1, r2}
  Overlapping = {"apply", "credit", "deleteReceipt", "settle"}
  Lateness <- Days
  Boundaries <- Asked
  Monthly <- Thirds
  VoidAgain = FALSE
  MaxWrites = 4
SYMMETRY Symmetric
CHECK_DEADLOCK FALSE
INVARIANT ReceivableTies
INVARIANT AnswersAgree
INVARIANT NothingOverspent
