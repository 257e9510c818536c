CONSTANTS
  p1 = p1
  p2 = p2
  b1 = b1
  q1 = q1
  b2 = b2
  q2 = q2
  ub = ub
  uq = uq
  tok = tok
  wsol = wsol
  t22 = t22
  Pools = {p1, p2}
  OldPools = {p1}
  Accounts = {ub, uq, b1, q1, b2, q2}
  Mints = {tok, wsol, t22}
  Wsol = wsol
  SplMints = {tok, wsol}
  Owners = {"o1", "o2"}
  Width = 3
  DecimalsOf <- MCDecimals
  BaseOf <- MCBaseOf
  QuoteOf <- MCQuoteOf
  BaseMint <- MCBaseMint
  QuoteMint <- MCQuoteMint
  BaseVault <- MCBaseVault
  QuoteVault <- MCQuoteVault
  Ledgers <- MCLedgers
  Funds = {1, 5}
  SwapAmounts <- MCSwaps
  KnownTokens = {{tok}}
  MaxTxs = 2
  MaxOps = 3
SPECIFICATION DecodeSpec
INVARIANT HashIdIsUnique
CHECK_DEADLOCK FALSE
