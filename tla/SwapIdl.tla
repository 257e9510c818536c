------------------------------ MODULE SwapIdl ------------------------------
(***************************************************************************)
(* The client generated from the newer IDL of the PumpSwap program, in     *)
(* 09_swap.  It differs from the client the indexer uses in one event and  *)
(* one instruction.                                                        *)
(***************************************************************************)
EXTENDS Wire

Amm == INSTANCE PumpAmmIdl

BuyEvent == Amm!BuyEvent \o U64(<<"MinBaseAmountOut">>) \o Texts(<<"IxName">>)

BuyExactQuoteIn == Instr(
  U64(<<"spendableQuoteIn", "minBaseAmountOut">>) \o Field("trackVolume", Struct(Amm!OptionBool)),
  Amm!Buy.accounts)

Accounts     == Amm!Accounts
Events       == [Amm!Events EXCEPT !.BuyEvent = BuyEvent]
Instructions == ("BuyExactQuoteIn" :> BuyExactQuoteIn) @@ Amm!Instructions

ParseAnyEvent(data) == ParseAny("event", Events, data)
=============================================================================
