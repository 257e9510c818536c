CONSTANTS
  tok = tok
  w1 = w1
  w2 = w2
  p1 = p1
  p2 = p2
  Slots = {1, 2}
  Workers = {w1, w2}
  Pairs = {p1}
  Tokens = {tok}
  TokenOf <- MCTokenOf
  PairsOf <- MCPairsOf
  Token2022 = {tok}
  StoreFaults = {"rpc", "find", "write", "kill"}
SPECIFICATION PairSpec
INVARIANTS TokenTypeOK PairTypeOK ReturnedTokenIsStored PairHasToken TradesHavePair
PROPERTIES TokenCreatedOnce PairCreatedOnce
SYMMETRY MCSymmetry
