----------------------------- MODULE TradeDecode -----------------------------
(***************************************************************************)
(* The trades of a transaction.  Its instructions are `insts`, top level   *)
(* only, each with the pool among its accounts; `events` are what the      *)
(* swaps and the new pools wrote to its logs, in the order of execution,   *)
(* as far as the node kept the logs.                                       *)
(***************************************************************************)
EXTENDS TokenAccounts, Sequences, SequencesExt

CONSTANTS
  Pools,       \* pools of PumpSwap
  BaseOf, QuoteOf \* the user's accounts that a pool's events name

Inst(kind, pool) == [kind |-> kind, pool |-> pool]

\* Outcomes of DecodeInstruction that are no trade: an error, and nil.
NoTrade == [kind |-> "nil"]
Error   == [kind |-> "error"]

\* Zero without decimals or with them: the number that is divided by 10^decimals.
UiAmount(amount, decimals) == IF decimals = 0 THEN amount ELSE ToSigned(amount)

\* The first event of a type in the logs, whatever instruction it belongs to.
HasEvent(tx, type) == \E i \in DOMAIN tx.events : tx.events[i].kind = type
FirstEvent(tx, type) ==
  tx.events[SelectInSeq(tx.events, LAMBDA e : e.kind = type)]

HashId(index) == index

\* newPumpTrade and the fields that the swap decoders set; `info` is the pool
\* whose accounts newPumpAmmInfo takes from the instruction.
NewTrade(event, inst, base, quote, index) ==
  [kind |-> event.kind, pool |-> event.pool,
   tokenAmount |-> UiAmount(event.base, base.decimals), tokenAmountInt |-> ToSigned(event.base),
   baseAmount |-> UiAmount(event.quote, quote.decimals), baseAmountInt |-> ToSigned(event.quote),
   baseToken |-> base.mint, baseDecimals |-> base.decimals,
   token |-> quote.mint, tokenDecimals |-> quote.decimals,
   hashId |-> HashId(index), index |-> index, info |-> inst.pool]

\* Mutant of DecodeSwap: any swap's event will do.
DecodeAnySwap(tx, inst, index, map) ==
  LET event == Head(tx.events)
      base  == map[BaseOf[event.pool]]
      quote == map[QuoteOf[event.pool]]
  IN IF tx.events = <<>> THEN Error
     ELSE IF event.kind = "create" THEN Error
     ELSE IF {BaseOf[event.pool], QuoteOf[event.pool]} \ DOMAIN map # {} THEN NoTrade
     ELSE IF UiAmount(event.base, base.decimals) = 0 THEN NoTrade
     ELSE NewTrade(event, inst, base, quote, index)

\* DecodePumpFunAMMBuyInstruction, DecodePumpFunAMMSellInstruction.
DecodeSwap(tx, inst, index, map) ==
  LET event == FirstEvent(tx, inst.kind)
      base  == map[BaseOf[event.pool]]
      quote == map[QuoteOf[event.pool]]
  IN IF ~HasEvent(tx, inst.kind) THEN Error
     ELSE IF {BaseOf[event.pool], QuoteOf[event.pool]} \ DOMAIN map # {} THEN NoTrade
     ELSE IF UiAmount(event.base, base.decimals) = 0 THEN NoTrade
     ELSE NewTrade(event, inst, base, quote, index)

\* DecodeCreatePoolInstruction: neither SwapName nor HashId is set.
DecodeCreatePool(tx, index) ==
  IF ~HasEvent(tx, "create") THEN Error
  ELSE [kind |-> "create", pool |-> FirstEvent(tx, "create").pool, index |-> index]

\* DecodeInstruction and DecodePumpFunAMMInstruction.  "exact" stands for the
\* instructions of the program that the indexer does not know, "other" for
\* those of other programs.
DecodeInstruction(tx, inst, index, map) ==
  CASE inst.kind = "pumpfun"        -> NoTrade
    [] inst.kind \in {"buy", "sell"} -> DecodeSwap(tx, inst, index, map)
    [] inst.kind = "create"         -> DecodeCreatePool(tx, index)
    [] OTHER                        -> Error

\* The k-th number of a set, and the items of a sequence whose indices are in a
\* set, in order (what SelectSeq does, whose definition the prover has not).
Nth(S, k)   == CHOOSE i \in S : Cardinality({j \in S : j <= i}) = k
Taken(s, S) == [k \in 1 .. Cardinality(S) |-> s[Nth(S, k)]]

\* Mutant of DecodeTx: a failed transaction is decoded like any other.
DecodeFailedTx(tx, index, map) ==
  LET Decoded == [i \in DOMAIN tx.insts |-> DecodeInstruction(tx, tx.insts[i], index, map)]
  IN IF \E i \in DOMAIN Decoded : Decoded[i] = Error THEN <<>>
     ELSE Taken(Decoded, {i \in DOMAIN Decoded : Decoded[i] # NoTrade})

\* DecodeTx, and ProcessBlock's removal of what is nil.
DecodeTx(tx, index, map) ==
  LET Decoded == [i \in DOMAIN tx.insts |-> DecodeInstruction(tx, tx.insts[i], index, map)]
  IN IF tx.failed \/ \E i \in DOMAIN Decoded : Decoded[i] = Error THEN <<>>
     ELSE Taken(Decoded, {i \in DOMAIN Decoded : Decoded[i] # NoTrade})

-----------------------------------------------------------------------------
\* The filter of SaveTrades: swaps with a price in USD.
HasPrice(trade, solPrice) ==
  trade.kind \in {"buy", "sell"} /\ trade.baseAmount # 0 /\ solPrice # 0
=============================================================================
