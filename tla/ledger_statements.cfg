SPECIFICATION Spec
CONSTANTS
  YearLength = 4
  MonthLength = 2
  TrendMonths = 2
  PageSize = 1
  TopSources = 1
  January = 1
  TaxPayable = 11
  InputTax = 12
  Accounts <- Books
  System <- Books
  Chart <- BooksChart
  Absent <- NoAccount
  OBE = 2
  Catalogue <- Business
  Sources <- ThreeSources
  Mixes <- BillsPaid
  Days <- ThreeYears
  KindsTried <- NoAccount
  Requests = {r1}
  Overlapping = {}
  MaxWrites = 2
  MaxEntries = 2
CHECK_DEADLOCK FALSE
INVARIANT CashFlowExplained
INVARIANT ReportsTie
