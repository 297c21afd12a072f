SPECIFICATION SidesSpec
CONSTANTS
  LastDay = 1
  WeekLength = 7
  DayCap <- CodeDayCap
  WeekCap <- CodeWeekCap
  Receipts = {}
  MaxRecords = 1
  Targets = {1, 2}
  Amounts = {1}
  MaxGoals = 4
  MaxContributions = 2
  Items = {}
  MaxPurchases = 1
  MaxCalls = 1
  Screens = {s1, s2}
  Challenges = {c1}
  xpReward <- CatalogXp
  Taps = {t1, t2}
SYMMETRY ScreenSymmetry
INVARIANTS
  LedgersBacked
  AwardedIsPaid
  OnePrimary
PROPERTIES
  RewardsWait
CHECK_DEADLOCK FALSE
