---------------------------- MODULE Token2022Idl ----------------------------
(***************************************************************************)
(* The generated client of the Token-2022 program (package spl_token2022): *)
(* the layouts of its accounts and its instructions. Each instruction is a *)
(* struct whose parameters and accounts are set one by one; what a setter, *)
(* Validate and Build do is in Token2022Builder.                           *)
(***************************************************************************)
EXTENDS Layouts

-----------------------------------------------------------------------------
(* Accounts of the program.                                                  *)

Mint ==
  Keys(<<"MintAuthority">>) \o U64(<<"Supply">>) \o U8(<<"Decimals">>) \o
    Bools(<<"IsInitialized">>) \o Keys(<<"FreezeAuthority">>)
Account ==
  Keys(<<"Mint", "Owner">>) \o U64(<<"Amount">>) \o Keys(<<"Delegate">>) \o Field("State",
    Fixed(1)) \o U64(<<"IsNative", "DelegatedAmount">>) \o Keys(<<"CloseAuthority">>)
Multisig == U8(<<"M", "N">>) \o Bools(<<"IsInitialized">>) \o Field("Signers", Array(11, Fixed(32)))

Accounts ==
  [Mint |-> Mint, Account |-> Account, Multisig |-> Multisig]

-----------------------------------------------------------------------------
(* Instructions of the program: parameters and accounts.                     *)

InitializeMint == Instr(
  U8(<<"Decimals">>) \o Keys(<<"MintAuthority", "FreezeAuthority">>),
  W(<<"mint">>) \o R(<<"rent">>))
InitializeAccount == Instr(<<>>, W(<<"account">>) \o R(<<"mint", "owner", "rent">>))
InitializeMultisig == Instr(U8(<<"M">>), W(<<"multisig">>) \o R(<<"rent">>))
Transfer == Instr(U64(<<"Amount">>), W(<<"source", "destination">>) \o S(<<"authority">>))
Approve == Instr(U64(<<"Amount">>), W(<<"source">>) \o R(<<"delegate">>) \o S(<<"owner">>))
Revoke == Instr(<<>>, W(<<"source">>) \o S(<<"owner">>))
SetAuthority == Instr(
  Field("AuthorityType", Fixed(1)) \o Keys(<<"NewAuthority">>),
  W(<<"owned">>) \o S(<<"owner", "signer">>))
MintTo == Instr(U64(<<"Amount">>), W(<<"mint", "account">>) \o S(<<"owner">>))
Burn == Instr(U64(<<"Amount">>), W(<<"account", "mint">>) \o S(<<"authority">>))
CloseAccount == Instr(<<>>, W(<<"account", "destination">>) \o S(<<"owner">>))
FreezeAccount == Instr(<<>>, W(<<"account">>) \o R(<<"mint">>) \o S(<<"owner">>))
ThawAccount == Instr(<<>>, W(<<"account">>) \o R(<<"mint">>) \o S(<<"owner">>))
TransferChecked == Instr(
  U64(<<"Amount">>) \o U8(<<"Decimals">>),
  W(<<"source">>) \o R(<<"mint">>) \o W(<<"destination">>) \o S(<<"authority">>))
ApproveChecked == Instr(
  U64(<<"Amount">>) \o U8(<<"Decimals">>),
  W(<<"source">>) \o R(<<"mint", "delegate">>) \o S(<<"owner">>))
MintToChecked == Instr(
  U64(<<"Amount">>) \o U8(<<"Decimals">>),
  W(<<"mint", "account">>) \o S(<<"owner">>))
BurnChecked == Instr(
  U64(<<"Amount">>) \o U8(<<"Decimals">>),
  W(<<"account", "mint">>) \o S(<<"authority">>))
InitializeAccount2 == Instr(Keys(<<"Owner">>), W(<<"account">>) \o R(<<"mint", "rent">>))
SyncNative == Instr(<<>>, W(<<"account">>))
InitializeAccount3 == Instr(Keys(<<"Owner">>), W(<<"account">>) \o R(<<"mint">>))
InitializeMultisig2 == Instr(U8(<<"M">>), W(<<"multisig">>) \o R(<<"signer">>))
InitializeMint2 == Instr(
  U8(<<"Decimals">>) \o Keys(<<"MintAuthority", "FreezeAuthority">>),
  W(<<"mint">>))
GetAccountDataSize == Instr(Field("ExtensionTypes", Vec(Fixed(1))), R(<<"mint">>))
InitializeImmutableOwner == Instr(<<>>, W(<<"tokenAccount">>))
AmountToUiAmount == Instr(U64(<<"Amount">>), R(<<"mint">>))
UiAmountToAmount == Instr(Texts(<<"UiAmount">>), R(<<"mint">>))
InitializeMintCloseAuthority == Instr(Keys(<<"CloseAuthority">>), W(<<"mint">>))
Reallocate == Instr(
  Field("ExtensionTypes", Vec(Fixed(1))),
  W(<<"account">>) \o WS(<<"payer">>) \o R(<<"systemProgram">>) \o S(<<"owner">>))
CreateNativeMint == Instr(
  <<>>,
  WS(<<"payer">>) \o W(<<"crateNativeMint">>) \o R(<<"systemProgram">>))
InitializeNonTransferableMint == Instr(<<>>, W(<<"mint">>))
InitializePermanentDelegate == Instr(Keys(<<"Delegate">>), W(<<"mint">>))

Instructions ==
  [InitializeMint |-> InitializeMint, InitializeAccount |-> InitializeAccount,
   InitializeMultisig |-> InitializeMultisig, Transfer |-> Transfer, Approve |-> Approve,
   Revoke |-> Revoke, SetAuthority |-> SetAuthority, MintTo |-> MintTo, Burn |-> Burn,
   CloseAccount |-> CloseAccount, FreezeAccount |-> FreezeAccount, ThawAccount |-> ThawAccount,
   TransferChecked |-> TransferChecked, ApproveChecked |-> ApproveChecked,
   MintToChecked |-> MintToChecked, BurnChecked |-> BurnChecked,
   InitializeAccount2 |-> InitializeAccount2, SyncNative |-> SyncNative,
   InitializeAccount3 |-> InitializeAccount3, InitializeMultisig2 |-> InitializeMultisig2,
   InitializeMint2 |-> InitializeMint2, GetAccountDataSize |-> GetAccountDataSize,
   InitializeImmutableOwner |-> InitializeImmutableOwner, AmountToUiAmount |-> AmountToUiAmount,
   UiAmountToAmount |-> UiAmountToAmount,
   InitializeMintCloseAuthority |-> InitializeMintCloseAuthority, Reallocate |-> Reallocate,
   CreateNativeMint |-> CreateNativeMint,
   InitializeNonTransferableMint |-> InitializeNonTransferableMint,
   InitializePermanentDelegate |-> InitializePermanentDelegate]
=============================================================================
