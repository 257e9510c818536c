CONSTANTS
  r1 = r1
  f1 = f1
  RealWorkers = {r1}
  FailedWorkers = {f1}
  Slots <- MCOneSlot
  RealCap = 1
  ErrCap = 1
  MaxRetry = 0
  Margin = 1
  Limit = 1
  StartBlock = 0
  Faults = {}
SPECIFICATION FairSpec
PROPERTY FailedIsRetried
