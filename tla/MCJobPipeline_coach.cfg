SPECIFICATION FairSpec
CONSTANTS
  Jobs = {j1}
  Owners = {o1}
  OwnerOf <- OneOwner
  NoJob = NoJob
  Workers = {w1, w2}
  Dispatchers = {d1}
  Kind = "coach"
  MaxAttempts = 2
  MaxCrashes = 1
  MaxOverruns = 1
INVARIANTS
  NoJobLost
  LeaseExclusive
  SuccessHasResult
  DeadLetterMeansFailed
  AttemptsBounded
PROPERTIES
  LeaseRespected
  LawfulTransitions
  ContractSafe
  EntryDrains
  ContractSpec
