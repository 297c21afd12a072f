SPECIFICATION Spec
CONSTANTS
  Jobs = {j1}
  Owners = {o1}
  OwnerOf <- OneOwner
  NoJob = NoJob
  Workers = {w1, w2}
  Dispatchers = {d1, d2}
  Kind = "receipt"
  MaxAttempts = 2
  MaxCrashes = 1
  MaxOverruns = 1
SYMMETRY PoolSymmetry
INVARIANTS
  SuccessErasesImage
  ResultFromWinner
PROPERTIES
  ReceiptResultOnce
