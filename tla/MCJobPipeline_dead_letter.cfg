SPECIFICATION FairSpec
CONSTANTS
  Jobs = {j1}
  Owners = {o1}
  OwnerOf <- OneOwner
  NoJob = NoJob
  Workers = {w1}
  Dispatchers = {d1}
  Kind = "coach"
  MaxAttempts = 2
  MaxCrashes = 1
  MaxOverruns = 0
PROPERTIES
  FailureIsDeadLettered
