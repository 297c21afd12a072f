SPECIFICATION Spec
CONSTANTS
  Jobs = {j1}
  Owners = {o1}
  OwnerOf <- OneOwner
  NoJob = NoJob
  Workers = {w1, w2}
  Dispatchers = {d1}
  Kind = "coach"
  MaxAttempts = 2
  MaxCrashes = 0
  MaxOverruns = 1
INVARIANTS
  ResultFromWinner
