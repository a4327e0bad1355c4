SPECIFICATION Spec
CONSTANTS
  Orders = {o1, o2}
  Estimates = {e1}
  Keys = {k1}
  Approvals = {a1}
  Jobs = {j1, j2}
  Ordered = 2
  Overlapping = {"call"}
  MaxWrites = 5
SYMMETRY Alike
CHECK_DEADLOCK FALSE
INVARIANT KeyedOnce
INVARIANT ApprovedOnce
INVARIANT InvoicedOnce
