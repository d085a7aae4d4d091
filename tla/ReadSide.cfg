SPECIFICATION MCSpec
CONSTANTS
  Region <- MCRegion
  FamilyOf <- MCFamilyOf
  Price <- MCPrice
  NoRef = "none"
  NoFamily = "nofamily"
  Families <- MCFamilies
  Bases <- MCBases
  Tables <- MCTables
  NoRead = NoRead
  Customers = {"c1", "c2"}
  Suppliers = {"f1", "f2"}
  Periods <- MCPeriods
  Days <- MCDays
  Goal = 200000
  Limit = 100000
  MaxLoads = 1
  NoName = "noname"
  Never <- MCNever
  Articles <- MCArticles
  Stock <- MCStock
  Labels <- MCLabels
  Lots <- MCLots
  LastSale <- MCLastSale
  MoveOrders <- MCMoveOrders
  Retention = 3
  MaxWait = 1
  MaxMissing = 1
  MinuteLen = 2
  HourLen = 4
  DayLen = 4
  MaxTime = 4
  MaxDeposits = 2
  Targets = {2}
  Kinds = {"availability", "catalog", "snapshot", "details", "insights", "compare", "article_detail", "comptes_tiers", "doc_ligne", "doc_entete", "stock_depot", "lot_serie", "reglement", "famille", "collaborateur", "date_range", "dashboard", "top_articles"}
INVARIANTS
  BalanceAddsUp
  CaAgrees
  PartsAddUp
  StockAgrees
  ServedWhole
  ComparisonForward
PROPERTIES
  PastIsFixed
