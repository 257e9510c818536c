CONSTANTS
  r1 = r1
  tok = tok
  p1 = p1
  RealWorkers = {r1}
  FailedWorkers = {}
  Slots <- MCSlots
  RealCap = 1
  ErrCap = 1
  MaxRetry = 0
  Margin = 1
  Limit = 1
  StartBlock = 5
  Faults = {"save", "kill"}
  Swapping = {1}
  Parent <- MCParent
  Pairs = {p1}
  Tokens = {tok}
  TokenOf <- MCTokenOf
  PairsOf <- MCPairsOf
  Token2022 = {tok}
  StoreFaults = {"trades", "kill"}
SPECIFICATION ConsumerSpec
VIEW MCView
INVARIANTS PartsAreReady PricedHasTrades
CHECK_DEADLOCK FALSE
