CONSTANTS
  w1 = w1
  w2 = w2
  Slots = {1, 2, 3, 5}
  PriceWorkers = {w1, w2}
  Swapping = {1, 2}
  QueryMayFail = TRUE
  Parent <- MCParent
  Owners = {pool, user}
  Values = {1, 2, 3, 7}
  MaxNums = 5
  MaxScan = 4
  DexKey = 1
  StepKinds = {"MintToChecked"}
  ParamValues = {"x", "y"}
  AccountKeys = {"j", "k"}
  MaxSets = 3
  MaxBuilt = 2
SPECIFICATION MCDataSpec
INVARIANTS
  PriceTypeOK
  PriceIsNotOfTheFuture
  PriceIsTraceable
  AverageIsTrimmedMean
  PriceIsFirstSwap
  NothingIsMisread
  WholeIsAccepted
  InfoNamesItsAccounts
  BuiltKeepsParams
SYMMETRY MCSymmetry
CHECK_DEADLOCK FALSE
