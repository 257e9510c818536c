------------------------------ MODULE Consumer ------------------------------
(***************************************************************************)
(* The consumer as a whole: BlockPipeline, whose workers take a block as   *)
(* far as two writes that succeed or fail; SolPrice, by which a block gets *)
(* its price before; and PairStore, which is what the first of the two     *)
(* writes consists of.  A worker of the pipeline is one of SolPrice from   *)
(* the step that ends the fetch of its block to the insert of its row, and *)
(* one of the store from the step in which the price is known to the one   *)
(* in which SaveTrades has returned.  A context that is cancelled refuses  *)
(* the writes of its goroutines (their reads may still be answered), and a *)
(* process that ends takes them all.                                       *)
(***************************************************************************)
EXTENDS BlockPipeline

CONSTANTS
  Swapping, Parent,                                       \* see SolPrice
  Pairs, Tokens, TokenOf, Token2022, PairsOf, StoreFaults \* see PairStore

VARIABLES
  solPrice, pricePc, priced,      \* the price of a block, see SolPrice
  token, tpc, tslot, tokenDB,     \* SaveToken, see TokenStore
  pair, trade, savePc, pairAtDB,  \* SaveTrades, see PairStore
  unsaved

priceVars    == <<solPrice, pricePc, priced>>
rowVars      == <<token, pair, trade>>
saverVars    == <<tpc, tslot, tokenDB, savePc, pairAtDB>>
storeVars    == <<rowVars, saverVars, unsaved>>
consumerVars == <<vars, priceVars, storeVars>>

\* The blocks that are there, and of these the ones whose trades are being saved.
Pricing == [w \in Workers |-> IF pricePc[w] = "idle" THEN 0 ELSE job[w]]
Saving  == [w \in Workers |->
              IF "trades" \in running[w] /\ pricePc[w] = "store" THEN job[w] ELSE 0]

Price == INSTANCE SolPrice WITH PriceWorkers <- Workers, pc <- pricePc, job <- Pricing,
           QueryMayFail <- Faults \cap {"find", "shutdown"} # {}
Store == INSTANCE PairStore WITH job <- Saving, pc <- savePc

\* What SolPrice and PairStore assume of their constants; and a failure of the
\* store is one of the pipeline too.
ASSUME RowsAssumption ==
  /\ Swapping \subseteq Slots
  /\ Parent \in [Slots -> Nat] /\ \A s \in Slots : Parent[s] < s
  /\ TokenOf \in [Pairs -> Tokens] /\ Token2022 \subseteq Tokens
  /\ PairsOf \in [Slots -> SUBSET Pairs]
  /\ StoreFaults \subseteq Store!AllStoreFaults

ASSUME ConsumerAssumption ==
  /\ "trades" \in StoreFaults => "save" \in Faults
  /\ "kill" \in Faults <=> "kill" \in StoreFaults

ConsumerInit == Init /\ Price!PriceInit /\ Store!PairInit

-----------------------------------------------------------------------------
\* Steps that neither the price nor SaveTrades has a part in.
Apart ==
  /\ \/ ReaderNext \/ RecoveryNext \/ StopSlotService
     \/ \E w \in Workers :
          \/ StopWorker(w) \/ Receive(w) \/ FetchAgain(w) \/ Exit(w) \/ Panic(w)
          \/ \E v \in Verdicts \ {BlockProcessed} : Fetched(w, v)
          \/ pricePc[w] = "store" /\ \E ok \in BOOLEAN : SaveEnds(w, "pools", ok)
  /\ UNCHANGED <<priceVars, storeVars>>

\* The block is there.  If its own swaps give a price SaveTrades starts.
BlockArrives(w) ==
  /\ Fetched(w, BlockProcessed) /\ Price!FetchBlock(w, job[w])
  /\ IF job[w] \in Swapping THEN Store!BeginBlock(w, job[w], TRUE) ELSE UNCHANGED storeVars

\* The table is asked for a price, then SaveTrades starts.
ReadPrice(w) ==
  /\ UNCHANGED vars
  /\ Price!ReadNear(w) /\ Store!BeginBlock(w, job[w], priced'[w] # 0)

\* A step of the goroutine of a pair.  Its context is its worker's, without
\* which nothing is written.
Save(v) ==
  /\ UNCHANGED <<vars, priceVars>>
  /\ Store!BatchSaveByTrade(v)
  /\ v[1] \in cancelled => UNCHANGED rowVars

\* SaveTrades and SaveTokenAccounts have returned.  A pair whose trades were
\* refused is an error that was logged; there may be others.
SaveTradesEnds(w) ==
  /\ \E ok \in BOOLEAN :
       /\ SaveEnds(w, "trades", ok)
       /\ ok => \A v \in Store!SaversOf(w) : savePc[v] # "failed"
  /\ UNCHANGED priceVars
  /\ Store!EndBlock(w)

\* The row is inserted, with its price, or the insert is refused.
StoreRow(w) ==
  /\ StoreBlock(w)
  /\ Price!FetchFails(w, job[w]) \/ Price!StorePriced(w) \/ Price!GiveUp({w})
  /\ UNCHANGED storeVars

\* The process ends with all of its goroutines.
RestartAll == Restart /\ Price!GiveUp(Workers) /\ Store!Crash

ConsumerNext ==
  \/ Apart
  \/ \E w \in Workers :
       BlockArrives(w) \/ ReadPrice(w) \/ SaveTradesEnds(w) \/ StoreRow(w)
  \/ \E v \in Store!Savers : Save(v)
  \/ RestartAll

ConsumerSpec == ConsumerInit /\ [][ConsumerNext]_consumerVars

-----------------------------------------------------------------------------
\* Within the consumer the price and the store are SolPrice and PairStore: no
\* worker begins to save a block before its last is saved, and none is left
\* behind in the middle of one except by the end of the process.
KeepsSolPrice  == Price!PriceSpec
KeepsPairStore == Store!PairSpec

\* A worker that has fetched its block, or read its price, finds its goroutines
\* of the last one gone, and when it comes to the insert it has a price exactly
\* if it has a block: the other parts do not keep it from a step that the
\* pipeline takes.
PartsAreReady ==
  \A w \in Workers :
    /\ pc[w] = "fetch" => pricePc[w] = "idle"
    /\ pc[w] = "fetch" \/ pricePc[w] = "near" =>
         Saving[w] = 0 /\ \A v \in Store!SaversOf(w) : tpc[v] = "idle"
    /\ pc[w] = "insert" /\ running[w] = {} =>
         pricePc[w] = IF verdict[w] = BlockProcessed THEN "store" ELSE "idle"

\* All trades of a block are in the table, each with its pair unless saving that
\* returned an error, and no pair without its token.
HasTrades(s) ==
  \A p \in PairsOf[s] :
    /\ <<s, p>> \in trade
    /\ Store!HasPair(p) \/ <<s, p>> \in unsaved
    /\ Store!HasPair(p) => Store!HasToken(TokenOf[p])

\* A row with a price means that the trades of the block are in the table with
\* their pairs and tokens, or that an error was logged: whatever retries,
\* repeated slots, workers that have another price for the same block, cancelled
\* contexts and ends of the process were in between.  A row that says processed
\* and has no price means no trades: SaveTrades dropped them all, for good
\* (block.go 162-176, 267-296, db.go 60-124).
PricedHasTrades ==
  \A s \in Slots : solPrice[s] # 0 => HasTrades(s) \/ s \in swallowed
=============================================================================
