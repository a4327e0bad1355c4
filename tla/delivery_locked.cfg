\* Two requests in flight, the operations that lock the delivery before they
\* read it, next to the reviews and the removal that do not.
CONSTANTS
  Deliveries = {d1, d2}
  Items = {i1}
  Requests = {r1, r2}
  Sessions = {s1, s2}
  None = None
  Ops = {"create", "status", "request", "approve", "reject", "remove"}
  LineQty = 2
  OpeningQty = 3
  Lines <- MCLines
  Opening <- MCOpening
  Counts <- WrongCounts
SPECIFICATION Spec
CHECK_DEADLOCK FALSE
SYMMETRY Symmetry
PROPERTY ImplementsConsignment
