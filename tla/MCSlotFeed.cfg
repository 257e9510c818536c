CONSTANTS
  tok = tok
  w1 = w1
  w2 = w2
  p1 = p1
  p2 = p2
  Slots = {1}
  Workers = {w1}
  Pairs = {p1, p2}
  Tokens = {tok}
  TokenOf <- MCTokenOf
  PairsOf <- MCPairsOf
  Token2022 = {tok}
  StoreFaults = {"rpc", "find", "write", "trades", "kill", "hang"}
  Links = {1, 2, 3}
  Subscribes = 2
  FailedReads = 2
SPECIFICATION MCLiveSpec
INVARIANTS FeedTypeOK OneFeed
PROPERTIES KeepsTokenStore BlockEnds FeedResumes StoppedFeedEnds
CHECK_DEADLOCK FALSE
