SPECIFICATION Spec
CONSTANTS
  LastDay = 3
  WeekLength = 3
  DayCap <- CodeDayCap
  WeekCap <- LowWeekCap
  Receipts = {}
  MaxRecords = 1
  Targets = {1}
  Amounts = {1}
  MaxGoals = 1
  MaxContributions = 1
  Items = {"protection_leaf"}
  MaxPurchases = 1
  MaxCalls = 1
  Screens = {s1}
  Challenges = {}
  xpReward <- CatalogXp
  Taps = {}
PROPERTIES
  LeafOnlyBridges
CHECK_DEADLOCK FALSE
