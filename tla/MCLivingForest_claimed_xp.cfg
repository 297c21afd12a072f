SPECIFICATION Spec
CONSTANTS
  LastDay = 1
  WeekLength = 7
  DayCap <- CodeDayCap
  WeekCap <- CodeWeekCap
  Receipts = {}
  MaxRecords = 1
  Targets = {1}
  Amounts = {1}
  MaxGoals = 0
  MaxContributions = 0
  Items = {}
  MaxPurchases = 0
  MaxCalls = 0
  Screens = {}
  Challenges = {c1}
  xpReward <- CatalogXp
  Taps = {t1}
PROPERTIES
  XpKept
CHECK_DEADLOCK FALSE
