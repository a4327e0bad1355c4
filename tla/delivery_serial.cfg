\* One request at a time, every operation.
CONSTANTS
  Deliveries = {d1, d2}
  Items = {i1}
  Requests = {r1, r2}
  Sessions = {s1}
  None = None
  Ops <- OpNames
  LineQty = 2
  OpeningQty = 3
  Lines <- MCLines
  Opening <- MCOpening
  Counts <- HonestCounts
SPECIFICATION Spec
CHECK_DEADLOCK FALSE
INVARIANT StockNeverNegative
INVARIANT SubledgerTies
INVARIANT InTransitExactly
INVARIANT SoldAtMostOnce
