------------------------------ MODULE PumpIdl -------------------------------
(***************************************************************************)
(* The generated client of the pump.fun bonding curve program: the layouts *)
(* of its accounts and events, its instructions with their accounts, and   *)
(* the parsers.                                                            *)
(***************************************************************************)
EXTENDS Wire

-----------------------------------------------------------------------------
(* Structs that others contain.                                              *)

Fees == U64(<<"LpFeeBps", "ProtocolFeeBps", "CreatorFeeBps">>)
FeeTier == U128(<<"MarketCapLamportsThreshold">>) \o Field("Fees", Struct(Fees))
OptionBool == Bools(<<"V0">>)

-----------------------------------------------------------------------------
(* Accounts of the program.                                                  *)

BondingCurve ==
  U64(<<"VirtualTokenReserves", "VirtualSolReserves", "RealTokenReserves", "RealSolReserves",
    "TokenTotalSupply">>) \o Bools(<<"Complete">>) \o Keys(<<"Creator">>)
FeeConfig ==
  U8(<<"Bump">>) \o Keys(<<"Admin">>) \o Field("FlatFees", Struct(Fees)) \o Field("FeeTiers",
    Vec(Struct(FeeTier)))
Global ==
  Bools(<<"Initialized">>) \o Keys(<<"Authority", "FeeRecipient">>) \o
    U64(<<"InitialVirtualTokenReserves", "InitialVirtualSolReserves", "InitialRealTokenReserves",
    "TokenTotalSupply", "FeeBasisPoints">>) \o Keys(<<"WithdrawAuthority">>) \o
    Bools(<<"EnableMigrate">>) \o U64(<<"PoolMigrationFee", "CreatorFeeBasisPoints">>) \o
    Field("FeeRecipients", Array(7, Fixed(32))) \o Keys(<<"SetCreatorAuthority",
    "AdminSetCreatorAuthority">>)
GlobalVolumeAccumulator ==
  I64(<<"StartTime", "EndTime", "SecondsInADay">>) \o Keys(<<"Mint">>) \o Field("TotalTokenSupply",
    Array(30, Fixed(8))) \o Field("SolVolumes", Array(30, Fixed(8)))
UserVolumeAccumulator ==
  Keys(<<"User">>) \o Bools(<<"NeedsClaim">>) \o U64(<<"TotalUnclaimedTokens",
    "TotalClaimedTokens", "CurrentSolVolume">>) \o I64(<<"LastUpdateTimestamp">>) \o
    Bools(<<"HasTotalClaimedTokens">>)

-----------------------------------------------------------------------------
(* Events of the program.                                                    *)

AdminSetCreatorEvent ==
  I64(<<"Timestamp">>) \o Keys(<<"AdminSetCreatorAuthority", "Mint", "BondingCurve", "OldCreator",
    "NewCreator">>)
AdminSetIdlAuthorityEvent == Keys(<<"IdlAuthority">>)
AdminUpdateTokenIncentivesEvent ==
  I64(<<"StartTime", "EndTime">>) \o U64(<<"DayNumber", "TokenSupplyPerDay">>) \o Keys(<<"Mint">>)
    \o I64(<<"SecondsInADay", "Timestamp">>)
ClaimTokenIncentivesEvent ==
  Keys(<<"User", "Mint">>) \o U64(<<"Amount">>) \o I64(<<"Timestamp">>) \o
    U64(<<"TotalClaimedTokens", "CurrentSolVolume">>)
CloseUserVolumeAccumulatorEvent ==
  Keys(<<"User">>) \o I64(<<"Timestamp">>) \o U64(<<"TotalUnclaimedTokens", "TotalClaimedTokens",
    "CurrentSolVolume">>) \o I64(<<"LastUpdateTimestamp">>)
CollectCreatorFeeEvent == I64(<<"Timestamp">>) \o Keys(<<"Creator">>) \o U64(<<"CreatorFee">>)
CompleteEvent == Keys(<<"User", "Mint", "BondingCurve">>) \o I64(<<"Timestamp">>)
CompletePumpAmmMigrationEvent ==
  Keys(<<"User", "Mint">>) \o U64(<<"MintAmount", "SolAmount", "PoolMigrationFee">>) \o
    Keys(<<"BondingCurve">>) \o I64(<<"Timestamp">>) \o Keys(<<"Pool">>)
CreateEvent ==
  Texts(<<"Name", "Symbol", "Uri">>) \o Keys(<<"Mint", "BondingCurve", "User", "Creator">>) \o
    I64(<<"Timestamp">>) \o U64(<<"VirtualTokenReserves", "VirtualSolReserves",
    "RealTokenReserves", "TokenTotalSupply">>)
ExtendAccountEvent ==
  Keys(<<"Account", "User">>) \o U64(<<"CurrentSize", "NewSize">>) \o I64(<<"Timestamp">>)
InitUserVolumeAccumulatorEvent == Keys(<<"Payer", "User">>) \o I64(<<"Timestamp">>)
SetCreatorEvent == I64(<<"Timestamp">>) \o Keys(<<"Mint", "BondingCurve", "Creator">>)
SetMetaplexCreatorEvent ==
  I64(<<"Timestamp">>) \o Keys(<<"Mint", "BondingCurve", "Metadata", "Creator">>)
SetParamsEvent ==
  U64(<<"InitialVirtualTokenReserves", "InitialVirtualSolReserves", "InitialRealTokenReserves",
    "FinalRealSolReserves", "TokenTotalSupply", "FeeBasisPoints">>) \o
    Keys(<<"WithdrawAuthority">>) \o Bools(<<"EnableMigrate">>) \o U64(<<"PoolMigrationFee",
    "CreatorFeeBasisPoints">>) \o Field("FeeRecipients", Array(8, Fixed(32))) \o
    I64(<<"Timestamp">>) \o Keys(<<"SetCreatorAuthority", "AdminSetCreatorAuthority">>)
SyncUserVolumeAccumulatorEvent ==
  Keys(<<"User">>) \o U64(<<"TotalClaimedTokensBefore", "TotalClaimedTokensAfter">>) \o
    I64(<<"Timestamp">>)
TradeEvent ==
  Keys(<<"Mint">>) \o U64(<<"SolAmount", "TokenAmount">>) \o Bools(<<"IsBuy">>) \o Keys(<<"User">>)
    \o I64(<<"Timestamp">>) \o U64(<<"VirtualSolReserves", "VirtualTokenReserves",
    "RealSolReserves", "RealTokenReserves">>) \o Keys(<<"FeeRecipient">>) \o
    U64(<<"FeeBasisPoints", "Fee">>) \o Keys(<<"Creator">>) \o U64(<<"CreatorFeeBasisPoints",
    "CreatorFee">>) \o Bools(<<"TrackVolume">>) \o U64(<<"TotalUnclaimedTokens",
    "TotalClaimedTokens", "CurrentSolVolume">>) \o I64(<<"LastUpdateTimestamp">>) \o
    Texts(<<"IxName">>)
UpdateGlobalAuthorityEvent ==
  Keys(<<"Global", "Authority", "NewAuthority">>) \o I64(<<"Timestamp">>)

-----------------------------------------------------------------------------
(* Instructions of the program: parameters and accounts.                     *)

AdminSetCreator == Instr(
  Keys(<<"creator">>),
  S(<<"adminSetCreatorAuthority">>) \o R(<<"global", "mint">>) \o W(<<"bondingCurve">>) \o
    R(<<"eventAuthority", "program">>))
AdminSetIdlAuthority == Instr(
  Keys(<<"idlAuthority">>),
  S(<<"authority">>) \o R(<<"global">>) \o W(<<"idlAccount">>) \o R(<<"systemProgram",
    "programSigner", "eventAuthority", "program">>))
AdminUpdateTokenIncentives == Instr(
  I64(<<"startTime", "endTime", "secondsInADay">>) \o U64(<<"dayNumber",
    "pumpTokenSupplyPerDay">>),
  WS(<<"authority">>) \o R(<<"global">>) \o W(<<"globalVolumeAccumulator">>) \o R(<<"mint">>) \o
    W(<<"globalIncentiveTokenAccount">>) \o R(<<"associatedTokenProgram", "systemProgram",
    "tokenProgram", "eventAuthority", "program">>))
Buy == Instr(
  U64(<<"amount", "maxSolCost">>) \o Field("trackVolume", Struct(OptionBool)),
  R(<<"global">>) \o W(<<"feeRecipient">>) \o R(<<"mint">>) \o W(<<"bondingCurve",
    "associatedBondingCurve", "associatedUser">>) \o WS(<<"user">>) \o R(<<"systemProgram",
    "tokenProgram">>) \o W(<<"creatorVault">>) \o R(<<"eventAuthority", "program">>) \o
    W(<<"globalVolumeAccumulator", "userVolumeAccumulator">>) \o R(<<"feeConfig", "feeProgram">>))
BuyExactSolIn == Instr(
  U64(<<"spendableSolIn", "minTokensOut">>) \o Field("trackVolume", Struct(OptionBool)),
  R(<<"global">>) \o W(<<"feeRecipient">>) \o R(<<"mint">>) \o W(<<"bondingCurve",
    "associatedBondingCurve", "associatedUser">>) \o WS(<<"user">>) \o R(<<"systemProgram",
    "tokenProgram">>) \o W(<<"creatorVault">>) \o R(<<"eventAuthority", "program">>) \o
    W(<<"globalVolumeAccumulator", "userVolumeAccumulator">>) \o R(<<"feeConfig", "feeProgram">>))
ClaimTokenIncentives == Instr(
  <<>>,
  R(<<"user">>) \o W(<<"userAta">>) \o R(<<"globalVolumeAccumulator">>) \o
    W(<<"globalIncentiveTokenAccount", "userVolumeAccumulator">>) \o R(<<"mint", "tokenProgram",
    "systemProgram", "associatedTokenProgram", "eventAuthority", "program">>) \o WS(<<"payer">>))
CloseUserVolumeAccumulator == Instr(
  <<>>,
  WS(<<"user">>) \o W(<<"userVolumeAccumulator">>) \o R(<<"eventAuthority", "program">>))
CollectCreatorFee == Instr(
  <<>>,
  W(<<"creator", "creatorVault">>) \o R(<<"systemProgram", "eventAuthority", "program">>))
Create == Instr(
  Texts(<<"name", "symbol", "uri">>) \o Keys(<<"creator">>),
  WS(<<"mint">>) \o R(<<"mintAuthority">>) \o W(<<"bondingCurve", "associatedBondingCurve">>) \o
    R(<<"global", "mplTokenMetadata">>) \o W(<<"metadata">>) \o WS(<<"user">>) \o
    R(<<"systemProgram", "tokenProgram", "associatedTokenProgram", "rent", "eventAuthority",
    "program">>))
ExtendAccount == Instr(
  <<>>,
  W(<<"account">>) \o S(<<"user">>) \o R(<<"systemProgram", "eventAuthority", "program">>))
InitUserVolumeAccumulator == Instr(
  <<>>,
  WS(<<"payer">>) \o R(<<"user">>) \o W(<<"userVolumeAccumulator">>) \o R(<<"systemProgram",
    "eventAuthority", "program">>))
Initialize == Instr(<<>>, W(<<"global">>) \o WS(<<"user">>) \o R(<<"systemProgram">>))
Migrate == Instr(
  <<>>,
  R(<<"global">>) \o W(<<"withdrawAuthority">>) \o R(<<"mint">>) \o W(<<"bondingCurve",
    "associatedBondingCurve">>) \o S(<<"user">>) \o R(<<"systemProgram", "tokenProgram",
    "pumpAmm">>) \o W(<<"pool", "poolAuthority", "poolAuthorityMintAccount",
    "poolAuthorityWsolAccount">>) \o R(<<"ammGlobalConfig", "wsolMint">>) \o W(<<"lpMint",
    "userPoolTokenAccount", "poolBaseTokenAccount", "poolQuoteTokenAccount">>) \o
    R(<<"token2022Program", "associatedTokenProgram", "pumpAmmEventAuthority", "eventAuthority",
    "program">>))
Sell == Instr(
  U64(<<"amount", "minSolOutput">>),
  R(<<"global">>) \o W(<<"feeRecipient">>) \o R(<<"mint">>) \o W(<<"bondingCurve",
    "associatedBondingCurve", "associatedUser">>) \o WS(<<"user">>) \o R(<<"systemProgram">>) \o
    W(<<"creatorVault">>) \o R(<<"tokenProgram", "eventAuthority", "program", "feeConfig",
    "feeProgram">>))
SetCreator == Instr(
  Keys(<<"creator">>),
  S(<<"setCreatorAuthority">>) \o R(<<"global", "mint", "metadata">>) \o W(<<"bondingCurve">>) \o
    R(<<"eventAuthority", "program">>))
SetMetaplexCreator == Instr(
  <<>>,
  R(<<"mint", "metadata">>) \o W(<<"bondingCurve">>) \o R(<<"eventAuthority", "program">>))
SetParams == Instr(
  U64(<<"initialVirtualTokenReserves", "initialVirtualSolReserves", "initialRealTokenReserves",
    "tokenTotalSupply", "feeBasisPoints">>) \o Keys(<<"withdrawAuthority">>) \o
    Bools(<<"enableMigrate">>) \o U64(<<"poolMigrationFee", "creatorFeeBasisPoints">>) \o
    Keys(<<"setCreatorAuthority", "adminSetCreatorAuthority">>),
  W(<<"global">>) \o WS(<<"authority">>) \o R(<<"eventAuthority", "program">>))
SyncUserVolumeAccumulator == Instr(
  <<>>,
  R(<<"user", "globalVolumeAccumulator">>) \o W(<<"userVolumeAccumulator">>) \o
    R(<<"eventAuthority", "program">>))
UpdateGlobalAuthority == Instr(
  <<>>,
  W(<<"global">>) \o S(<<"authority">>) \o R(<<"newAuthority", "eventAuthority", "program">>))

-----------------------------------------------------------------------------
\* The discriminators of each category.
Accounts ==
  [BondingCurve |-> BondingCurve, FeeConfig |-> FeeConfig, Global |-> Global,
   GlobalVolumeAccumulator |-> GlobalVolumeAccumulator,
   UserVolumeAccumulator |-> UserVolumeAccumulator]

Events ==
  [AdminSetCreatorEvent |-> AdminSetCreatorEvent,
   AdminSetIdlAuthorityEvent |-> AdminSetIdlAuthorityEvent,
   AdminUpdateTokenIncentivesEvent |-> AdminUpdateTokenIncentivesEvent,
   ClaimTokenIncentivesEvent |-> ClaimTokenIncentivesEvent,
   CloseUserVolumeAccumulatorEvent |-> CloseUserVolumeAccumulatorEvent,
   CollectCreatorFeeEvent |-> CollectCreatorFeeEvent, CompleteEvent |-> CompleteEvent,
   CompletePumpAmmMigrationEvent |-> CompletePumpAmmMigrationEvent, CreateEvent |-> CreateEvent,
   ExtendAccountEvent |-> ExtendAccountEvent,
   InitUserVolumeAccumulatorEvent |-> InitUserVolumeAccumulatorEvent,
   SetCreatorEvent |-> SetCreatorEvent, SetMetaplexCreatorEvent |-> SetMetaplexCreatorEvent,
   SetParamsEvent |-> SetParamsEvent,
   SyncUserVolumeAccumulatorEvent |-> SyncUserVolumeAccumulatorEvent, TradeEvent |-> TradeEvent,
   UpdateGlobalAuthorityEvent |-> UpdateGlobalAuthorityEvent]

Instructions ==
  [AdminSetCreator |-> AdminSetCreator, AdminSetIdlAuthority |-> AdminSetIdlAuthority,
   AdminUpdateTokenIncentives |-> AdminUpdateTokenIncentives, Buy |-> Buy,
   BuyExactSolIn |-> BuyExactSolIn, ClaimTokenIncentives |-> ClaimTokenIncentives,
   CloseUserVolumeAccumulator |-> CloseUserVolumeAccumulator,
   CollectCreatorFee |-> CollectCreatorFee, Create |-> Create, ExtendAccount |-> ExtendAccount,
   InitUserVolumeAccumulator |-> InitUserVolumeAccumulator, Initialize |-> Initialize,
   Migrate |-> Migrate, Sell |-> Sell, SetCreator |-> SetCreator,
   SetMetaplexCreator |-> SetMetaplexCreator, SetParams |-> SetParams,
   SyncUserVolumeAccumulator |-> SyncUserVolumeAccumulator,
   UpdateGlobalAuthority |-> UpdateGlobalAuthority]

ParseAnyAccount(data)   == ParseAny("account", Accounts, data)
ParseAccount(kind, data) == ParseAs("account", kind, Accounts[kind], data)
ParseAnyEvent(data)     == ParseAny("event", Events, data)
ParseEvent(kind, data)  == ParseAs("event", kind, Events[kind], data)
=============================================================================
