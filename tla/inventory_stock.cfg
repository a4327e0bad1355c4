SPECIFICATION StockSpec
CONSTANTS
  Goods = {a, b}
  Documents <- Few
  Filings = {f}
  Today = 2
  Costs <- Prices
  Quantities <- Units
  Clients = {r1}
  Overlapping = {"approve"}
  Emptying = FALSE
  MaxWrites = 4
  SellingPrice = 15
  MostMonths = 1
  PageSize = 1
  AgeLimits <- SameDay
  DeadStockDays = 0
  ReorderPoint = 1
  ReorderQuantity = 1
  Blank = Blank
  Names = {"old", "new"}
  Shelves <- SomeShelves
  Files <- Uploads
SYMMETRY Alike
CHECK_DEADLOCK FALSE
INVARIANT ValuationsAgree
PROPERTY ApprovalKeepsMeaning
INVARIANT StockReportsTie
INVARIANT ImportHarmless
