CONSTANTS
  tok = tok
  w1 = w1
  w2 = w2
  p1 = p1
  p2 = p2
  Slots = {1, 2}
  Workers = {w1}
  Pairs = {p1}
  Tokens = {tok}
  TokenOf <- MCTokenOf
  PairsOf <- MCPairsOf
  Token2022 = {}
  StoreFaults = {}
SPECIFICATION PairSpec
PROPERTY NewerSlotStays
