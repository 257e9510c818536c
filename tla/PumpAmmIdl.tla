----------------------------- MODULE PumpAmmIdl -----------------------------
(***************************************************************************)
(* The generated client of the PumpSwap program: the layouts of its        *)
(* accounts and events, its instructions with their accounts, and the      *)
(* parsers. The block decoder parses events with it (PumpAmmDecoder).      *)
(***************************************************************************)
EXTENDS Wire

-----------------------------------------------------------------------------
(* Structs that others contain.                                              *)

Fees == U64(<<"LpFeeBps", "ProtocolFeeBps", "CreatorFeeBps">>)
FeeTier == U128(<<"MarketCapLamportsThreshold">>) \o Field("Fees", Struct(Fees))
OptionBool == Bools(<<"V0">>)

-----------------------------------------------------------------------------
(* Accounts of the program.                                                  *)

BondingCurve ==
  U64(<<"VirtualTokenReserves", "VirtualSolReserves", "RealTokenReserves", "RealSolReserves",
    "TokenTotalSupply">>) \o Bools(<<"Complete">>) \o Keys(<<"Creator">>)
FeeConfig ==
  U8(<<"Bump">>) \o Keys(<<"Admin">>) \o Field("FlatFees", Struct(Fees)) \o Field("FeeTiers",
    Vec(Struct(FeeTier)))
GlobalConfig ==
  Keys(<<"Admin">>) \o U64(<<"LpFeeBasisPoints", "ProtocolFeeBasisPoints">>) \o
    U8(<<"DisableFlags">>) \o Field("ProtocolFeeRecipients", Array(8, Fixed(32))) \o
    U64(<<"CoinCreatorFeeBasisPoints">>) \o Keys(<<"AdminSetCoinCreatorAuthority">>)
GlobalVolumeAccumulator ==
  I64(<<"StartTime", "EndTime", "SecondsInADay">>) \o Keys(<<"Mint">>) \o Field("TotalTokenSupply",
    Array(30, Fixed(8))) \o Field("SolVolumes", Array(30, Fixed(8)))
Pool ==
  U8(<<"PoolBump">>) \o U16(<<"Index">>) \o Keys(<<"Creator", "BaseMint", "QuoteMint", "LpMint",
    "PoolBaseTokenAccount", "PoolQuoteTokenAccount">>) \o U64(<<"LpSupply">>) \o
    Keys(<<"CoinCreator">>)
UserVolumeAccumulator ==
  Keys(<<"User">>) \o Bools(<<"NeedsClaim">>) \o U64(<<"TotalUnclaimedTokens",
    "TotalClaimedTokens", "CurrentSolVolume">>) \o I64(<<"LastUpdateTimestamp">>) \o
    Bools(<<"HasTotalClaimedTokens">>)

-----------------------------------------------------------------------------
(* Events of the program.                                                    *)

AdminSetCoinCreatorEvent ==
  I64(<<"Timestamp">>) \o Keys(<<"AdminSetCoinCreatorAuthority", "BaseMint", "Pool",
    "OldCoinCreator", "NewCoinCreator">>)
AdminUpdateTokenIncentivesEvent ==
  I64(<<"StartTime", "EndTime">>) \o U64(<<"DayNumber", "TokenSupplyPerDay">>) \o Keys(<<"Mint">>)
    \o I64(<<"SecondsInADay", "Timestamp">>)
BuyEvent ==
  I64(<<"Timestamp">>) \o U64(<<"BaseAmountOut", "MaxQuoteAmountIn", "UserBaseTokenReserves",
    "UserQuoteTokenReserves", "PoolBaseTokenReserves", "PoolQuoteTokenReserves", "QuoteAmountIn",
    "LpFeeBasisPoints", "LpFee", "ProtocolFeeBasisPoints", "ProtocolFee", "QuoteAmountInWithLpFee",
    "UserQuoteAmountIn">>) \o Keys(<<"Pool", "User", "UserBaseTokenAccount",
    "UserQuoteTokenAccount", "ProtocolFeeRecipient", "ProtocolFeeRecipientTokenAccount",
    "CoinCreator">>) \o U64(<<"CoinCreatorFeeBasisPoints", "CoinCreatorFee">>) \o
    Bools(<<"TrackVolume">>) \o U64(<<"TotalUnclaimedTokens", "TotalClaimedTokens",
    "CurrentSolVolume">>) \o I64(<<"LastUpdateTimestamp">>)
ClaimTokenIncentivesEvent ==
  Keys(<<"User", "Mint">>) \o U64(<<"Amount">>) \o I64(<<"Timestamp">>) \o
    U64(<<"TotalClaimedTokens", "CurrentSolVolume">>)
CloseUserVolumeAccumulatorEvent ==
  Keys(<<"User">>) \o I64(<<"Timestamp">>) \o U64(<<"TotalUnclaimedTokens", "TotalClaimedTokens",
    "CurrentSolVolume">>) \o I64(<<"LastUpdateTimestamp">>)
CollectCoinCreatorFeeEvent ==
  I64(<<"Timestamp">>) \o Keys(<<"CoinCreator">>) \o U64(<<"CoinCreatorFee">>) \o
    Keys(<<"CoinCreatorVaultAta", "CoinCreatorTokenAccount">>)
CreateConfigEvent ==
  I64(<<"Timestamp">>) \o Keys(<<"Admin">>) \o U64(<<"LpFeeBasisPoints",
    "ProtocolFeeBasisPoints">>) \o Field("ProtocolFeeRecipients", Array(8, Fixed(32))) \o
    U64(<<"CoinCreatorFeeBasisPoints">>) \o Keys(<<"AdminSetCoinCreatorAuthority">>)
CreatePoolEvent ==
  I64(<<"Timestamp">>) \o U16(<<"Index">>) \o Keys(<<"Creator", "BaseMint", "QuoteMint">>) \o
    U8(<<"BaseMintDecimals", "QuoteMintDecimals">>) \o U64(<<"BaseAmountIn", "QuoteAmountIn",
    "PoolBaseAmount", "PoolQuoteAmount", "MinimumLiquidity", "InitialLiquidity",
    "LpTokenAmountOut">>) \o U8(<<"PoolBump">>) \o Keys(<<"Pool", "LpMint", "UserBaseTokenAccount",
    "UserQuoteTokenAccount", "CoinCreator">>)
DepositEvent ==
  I64(<<"Timestamp">>) \o U64(<<"LpTokenAmountOut", "MaxBaseAmountIn", "MaxQuoteAmountIn",
    "UserBaseTokenReserves", "UserQuoteTokenReserves", "PoolBaseTokenReserves",
    "PoolQuoteTokenReserves", "BaseAmountIn", "QuoteAmountIn", "LpMintSupply">>) \o Keys(<<"Pool",
    "User", "UserBaseTokenAccount", "UserQuoteTokenAccount", "UserPoolTokenAccount">>)
DisableEvent ==
  I64(<<"Timestamp">>) \o Keys(<<"Admin">>) \o Bools(<<"DisableCreatePool", "DisableDeposit",
    "DisableWithdraw", "DisableBuy", "DisableSell">>)
ExtendAccountEvent ==
  I64(<<"Timestamp">>) \o Keys(<<"Account", "User">>) \o U64(<<"CurrentSize", "NewSize">>)
InitUserVolumeAccumulatorEvent == Keys(<<"Payer", "User">>) \o I64(<<"Timestamp">>)
SellEvent ==
  I64(<<"Timestamp">>) \o U64(<<"BaseAmountIn", "MinQuoteAmountOut", "UserBaseTokenReserves",
    "UserQuoteTokenReserves", "PoolBaseTokenReserves", "PoolQuoteTokenReserves", "QuoteAmountOut",
    "LpFeeBasisPoints", "LpFee", "ProtocolFeeBasisPoints", "ProtocolFee",
    "QuoteAmountOutWithoutLpFee", "UserQuoteAmountOut">>) \o Keys(<<"Pool", "User",
    "UserBaseTokenAccount", "UserQuoteTokenAccount", "ProtocolFeeRecipient",
    "ProtocolFeeRecipientTokenAccount", "CoinCreator">>) \o U64(<<"CoinCreatorFeeBasisPoints",
    "CoinCreatorFee">>)
SetBondingCurveCoinCreatorEvent ==
  I64(<<"Timestamp">>) \o Keys(<<"BaseMint", "Pool", "BondingCurve", "CoinCreator">>)
SetMetaplexCoinCreatorEvent ==
  I64(<<"Timestamp">>) \o Keys(<<"BaseMint", "Pool", "Metadata", "CoinCreator">>)
SyncUserVolumeAccumulatorEvent ==
  Keys(<<"User">>) \o U64(<<"TotalClaimedTokensBefore", "TotalClaimedTokensAfter">>) \o
    I64(<<"Timestamp">>)
UpdateAdminEvent == I64(<<"Timestamp">>) \o Keys(<<"Admin", "NewAdmin">>)
UpdateFeeConfigEvent ==
  I64(<<"Timestamp">>) \o Keys(<<"Admin">>) \o U64(<<"LpFeeBasisPoints",
    "ProtocolFeeBasisPoints">>) \o Field("ProtocolFeeRecipients", Array(8, Fixed(32))) \o
    U64(<<"CoinCreatorFeeBasisPoints">>) \o Keys(<<"AdminSetCoinCreatorAuthority">>)
WithdrawEvent ==
  I64(<<"Timestamp">>) \o U64(<<"LpTokenAmountIn", "MinBaseAmountOut", "MinQuoteAmountOut",
    "UserBaseTokenReserves", "UserQuoteTokenReserves", "PoolBaseTokenReserves",
    "PoolQuoteTokenReserves", "BaseAmountOut", "QuoteAmountOut", "LpMintSupply">>) \o
    Keys(<<"Pool", "User", "UserBaseTokenAccount", "UserQuoteTokenAccount",
    "UserPoolTokenAccount">>)

-----------------------------------------------------------------------------
(* Instructions of the program: parameters and accounts.                     *)

AdminSetCoinCreator == Instr(
  Keys(<<"coinCreator">>),
  S(<<"adminSetCoinCreatorAuthority">>) \o R(<<"globalConfig">>) \o W(<<"pool">>) \o
    R(<<"eventAuthority", "program">>))
AdminUpdateTokenIncentives == Instr(
  I64(<<"startTime", "endTime", "secondsInADay">>) \o U64(<<"dayNumber", "tokenSupplyPerDay">>),
  WS(<<"admin">>) \o R(<<"globalConfig">>) \o W(<<"globalVolumeAccumulator">>) \o R(<<"mint">>) \o
    W(<<"globalIncentiveTokenAccount">>) \o R(<<"associatedTokenProgram", "systemProgram",
    "tokenProgram", "eventAuthority", "program">>))
Buy == Instr(
  U64(<<"baseAmountOut", "maxQuoteAmountIn">>) \o Field("trackVolume", Struct(OptionBool)),
  R(<<"pool">>) \o WS(<<"user">>) \o R(<<"globalConfig", "baseMint", "quoteMint">>) \o
    W(<<"userBaseTokenAccount", "userQuoteTokenAccount", "poolBaseTokenAccount",
    "poolQuoteTokenAccount">>) \o R(<<"protocolFeeRecipient">>) \o
    W(<<"protocolFeeRecipientTokenAccount">>) \o R(<<"baseTokenProgram", "quoteTokenProgram",
    "systemProgram", "associatedTokenProgram", "eventAuthority", "program">>) \o
    W(<<"coinCreatorVaultAta">>) \o R(<<"coinCreatorVaultAuthority">>) \o
    W(<<"globalVolumeAccumulator", "userVolumeAccumulator">>) \o R(<<"feeConfig", "feeProgram">>))
ClaimTokenIncentives == Instr(
  <<>>,
  R(<<"user">>) \o W(<<"userAta">>) \o R(<<"globalVolumeAccumulator">>) \o
    W(<<"globalIncentiveTokenAccount", "userVolumeAccumulator">>) \o R(<<"mint", "tokenProgram",
    "systemProgram", "associatedTokenProgram", "eventAuthority", "program">>) \o WS(<<"payer">>))
CloseUserVolumeAccumulator == Instr(
  <<>>,
  WS(<<"user">>) \o W(<<"userVolumeAccumulator">>) \o R(<<"eventAuthority", "program">>))
CollectCoinCreatorFee == Instr(
  <<>>,
  R(<<"quoteMint", "quoteTokenProgram", "coinCreator", "coinCreatorVaultAuthority">>) \o
    W(<<"coinCreatorVaultAta", "coinCreatorTokenAccount">>) \o R(<<"eventAuthority", "program">>))
CreateConfig == Instr(
  U64(<<"lpFeeBasisPoints", "protocolFeeBasisPoints">>) \o Field("protocolFeeRecipients", Array(8,
    Fixed(32))) \o U64(<<"coinCreatorFeeBasisPoints">>) \o
    Keys(<<"adminSetCoinCreatorAuthority">>),
  WS(<<"admin">>) \o W(<<"globalConfig">>) \o R(<<"systemProgram", "eventAuthority", "program">>))
CreatePool == Instr(
  U16(<<"index">>) \o U64(<<"baseAmountIn", "quoteAmountIn">>) \o Keys(<<"coinCreator">>),
  W(<<"pool">>) \o R(<<"globalConfig">>) \o WS(<<"creator">>) \o R(<<"baseMint", "quoteMint">>) \o
    W(<<"lpMint", "userBaseTokenAccount", "userQuoteTokenAccount", "userPoolTokenAccount",
    "poolBaseTokenAccount", "poolQuoteTokenAccount">>) \o R(<<"systemProgram", "token2022Program",
    "baseTokenProgram", "quoteTokenProgram", "associatedTokenProgram", "eventAuthority",
    "program">>))
Deposit == Instr(
  U64(<<"lpTokenAmountOut", "maxBaseAmountIn", "maxQuoteAmountIn">>),
  W(<<"pool">>) \o R(<<"globalConfig">>) \o S(<<"user">>) \o R(<<"baseMint", "quoteMint">>) \o
    W(<<"lpMint", "userBaseTokenAccount", "userQuoteTokenAccount", "userPoolTokenAccount",
    "poolBaseTokenAccount", "poolQuoteTokenAccount">>) \o R(<<"tokenProgram", "token2022Program",
    "eventAuthority", "program">>))
Disable == Instr(
  Bools(<<"disableCreatePool", "disableDeposit", "disableWithdraw", "disableBuy", "disableSell">>),
  S(<<"admin">>) \o W(<<"globalConfig">>) \o R(<<"eventAuthority", "program">>))
ExtendAccount == Instr(
  <<>>,
  W(<<"account">>) \o S(<<"user">>) \o R(<<"systemProgram", "eventAuthority", "program">>))
InitUserVolumeAccumulator == Instr(
  <<>>,
  WS(<<"payer">>) \o R(<<"user">>) \o W(<<"userVolumeAccumulator">>) \o R(<<"systemProgram",
    "eventAuthority", "program">>))
Sell == Instr(
  U64(<<"baseAmountIn", "minQuoteAmountOut">>),
  R(<<"pool">>) \o WS(<<"user">>) \o R(<<"globalConfig", "baseMint", "quoteMint">>) \o
    W(<<"userBaseTokenAccount", "userQuoteTokenAccount", "poolBaseTokenAccount",
    "poolQuoteTokenAccount">>) \o R(<<"protocolFeeRecipient">>) \o
    W(<<"protocolFeeRecipientTokenAccount">>) \o R(<<"baseTokenProgram", "quoteTokenProgram",
    "systemProgram", "associatedTokenProgram", "eventAuthority", "program">>) \o
    W(<<"coinCreatorVaultAta">>) \o R(<<"coinCreatorVaultAuthority", "feeConfig", "feeProgram">>))
SetCoinCreator == Instr(
  <<>>,
  W(<<"pool">>) \o R(<<"metadata", "bondingCurve", "eventAuthority", "program">>))
SyncUserVolumeAccumulator == Instr(
  <<>>,
  R(<<"user", "globalVolumeAccumulator">>) \o W(<<"userVolumeAccumulator">>) \o
    R(<<"eventAuthority", "program">>))
UpdateAdmin == Instr(
  <<>>,
  S(<<"admin">>) \o W(<<"globalConfig">>) \o R(<<"newAdmin", "eventAuthority", "program">>))
UpdateFeeConfig == Instr(
  U64(<<"lpFeeBasisPoints", "protocolFeeBasisPoints">>) \o Field("protocolFeeRecipients", Array(8,
    Fixed(32))) \o U64(<<"coinCreatorFeeBasisPoints">>) \o
    Keys(<<"adminSetCoinCreatorAuthority">>),
  S(<<"admin">>) \o W(<<"globalConfig">>) \o R(<<"eventAuthority", "program">>))
Withdraw == Instr(
  U64(<<"lpTokenAmountIn", "minBaseAmountOut", "minQuoteAmountOut">>),
  W(<<"pool">>) \o R(<<"globalConfig">>) \o S(<<"user">>) \o R(<<"baseMint", "quoteMint">>) \o
    W(<<"lpMint", "userBaseTokenAccount", "userQuoteTokenAccount", "userPoolTokenAccount",
    "poolBaseTokenAccount", "poolQuoteTokenAccount">>) \o R(<<"tokenProgram", "token2022Program",
    "eventAuthority", "program">>))

-----------------------------------------------------------------------------
\* The discriminators of each category.
Accounts ==
  [BondingCurve |-> BondingCurve, FeeConfig |-> FeeConfig, GlobalConfig |-> GlobalConfig,
   GlobalVolumeAccumulator |-> GlobalVolumeAccumulator, Pool |-> Pool,
   UserVolumeAccumulator |-> UserVolumeAccumulator]

Events ==
  [AdminSetCoinCreatorEvent |-> AdminSetCoinCreatorEvent,
   AdminUpdateTokenIncentivesEvent |-> AdminUpdateTokenIncentivesEvent, BuyEvent |-> BuyEvent,
   ClaimTokenIncentivesEvent |-> ClaimTokenIncentivesEvent,
   CloseUserVolumeAccumulatorEvent |-> CloseUserVolumeAccumulatorEvent,
   CollectCoinCreatorFeeEvent |-> CollectCoinCreatorFeeEvent,
   CreateConfigEvent |-> CreateConfigEvent, CreatePoolEvent |-> CreatePoolEvent,
   DepositEvent |-> DepositEvent, DisableEvent |-> DisableEvent,
   ExtendAccountEvent |-> ExtendAccountEvent,
   InitUserVolumeAccumulatorEvent |-> InitUserVolumeAccumulatorEvent, SellEvent |-> SellEvent,
   SetBondingCurveCoinCreatorEvent |-> SetBondingCurveCoinCreatorEvent,
   SetMetaplexCoinCreatorEvent |-> SetMetaplexCoinCreatorEvent,
   SyncUserVolumeAccumulatorEvent |-> SyncUserVolumeAccumulatorEvent,
   UpdateAdminEvent |-> UpdateAdminEvent, UpdateFeeConfigEvent |-> UpdateFeeConfigEvent,
   WithdrawEvent |-> WithdrawEvent]

Instructions ==
  [AdminSetCoinCreator |-> AdminSetCoinCreator,
   AdminUpdateTokenIncentives |-> AdminUpdateTokenIncentives, Buy |-> Buy,
   ClaimTokenIncentives |-> ClaimTokenIncentives,
   CloseUserVolumeAccumulator |-> CloseUserVolumeAccumulator,
   CollectCoinCreatorFee |-> CollectCoinCreatorFee, CreateConfig |-> CreateConfig,
   CreatePool |-> CreatePool, Deposit |-> Deposit, Disable |-> Disable,
   ExtendAccount |-> ExtendAccount, InitUserVolumeAccumulator |-> InitUserVolumeAccumulator,
   Sell |-> Sell, SetCoinCreator |-> SetCoinCreator,
   SyncUserVolumeAccumulator |-> SyncUserVolumeAccumulator, UpdateAdmin |-> UpdateAdmin,
   UpdateFeeConfig |-> UpdateFeeConfig, Withdraw |-> Withdraw]

ParseAnyAccount(data)   == ParseAny("account", Accounts, data)
ParseAccount(kind, data) == ParseAs("account", kind, Accounts[kind], data)
ParseAnyEvent(data)     == ParseAny("event", Events, data)
ParseEvent(kind, data)  == ParseAs("event", kind, Events[kind], data)
=============================================================================
