SPECIFICATION Spec
CONSTANTS
  YearLength = 2
  MonthLength = 1
  TrendMonths = 1
  PageSize = 1
  TopSources = 1
  January = 0
  TaxPayable = 2
  InputTax = 2
  Accounts <- Three
  System <- CashAndEquity
  Chart <- SmallChart
  Absent <- Third
  OBE = 2
  Catalogue <- SmallCatalogue
  Sources = {"journal_entry"}
  Mixes = {}
  Days <- TwoDays
  KindsTried = {"cash", "loan"}
  Requests = {r1, r2}
  Overlapping = {"create", "post", "reverse", "discard"}
  MaxWrites = 4
  MaxEntries = 3
SYMMETRY Symmetric
CHECK_DEADLOCK FALSE
INVARIANT CachedBalances
INVARIANT LedgerIsTheBook
INVARIANT ReconciliationRollsForward
PROPERTY ClosedBooksKept
