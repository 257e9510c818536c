CONSTANTS
  Owners = {pool, user}
  Values = {1, 2, 3, 7}
  MaxNums = 5
  MaxScan = 4
  DexKey = 1
SPECIFICATION MathSpec
INVARIANT OwnTransfersPriced
CHECK_DEADLOCK FALSE
