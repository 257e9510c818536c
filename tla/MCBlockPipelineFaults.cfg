CONSTANTS
  r1 = r1
  f1 = f1
  RealWorkers = {r1}
  FailedWorkers = {f1}
  Slots <- MCOneSlot
  RealCap = 1
  ErrCap = 1
  MaxRetry = 1
  Margin = 1
  Limit = 1
  StartBlock = 0
  Faults <- MCAllFaults
SPECIFICATION Spec
INVARIANTS
  TypeOK
  NoSlotVanishes
  ProcessedWasSaved
  RetriedSlotsFailed
PROPERTIES FirstRowStays KeepsLedger
CHECK_DEADLOCK FALSE
