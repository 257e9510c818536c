--------------------------- MODULE ConsumerProofs ---------------------------
(***************************************************************************)
(* What holds of the consumer as a whole, for every number of workers and  *)
(* of pairs and every choice of faults.  The consumer implements its three *)
(* parts, so that what is proved of BlockPipeline, SolPrice and PairStore  *)
(* holds of it; what is new is proved from all of them.                    *)
(***************************************************************************)
EXTENDS Consumer, BlockPipelineProofs

StoreProofs == INSTANCE PairStoreProofs WITH job <- Saving, pc <- savePc

-----------------------------------------------------------------------------
(* The consumer implements the pipeline.                                   *)

LEMMA ConsumerStepIsPipelineStep == [ConsumerNext]_consumerVars => [Next]_vars
<1> SUFFICES ASSUME [ConsumerNext]_consumerVars PROVE [Next]_vars
  OBVIOUS
<1> USE DEF Next, WorkerNext, Work
<1>1. CASE Apart
  <2>1. ASSUME NEW w \in Workers, NEW ok \in BOOLEAN, SaveEnds(w, "pools", ok) PROVE Next
    BY <2>1 DEF Branches
  <2>2. QED BY <1>1, <2>1 DEF Apart
<1>2. ASSUME NEW w \in Workers, BlockArrives(w) PROVE Next
  BY <1>2 DEF BlockArrives, Verdicts
<1>3. ASSUME NEW w \in Workers, ReadPrice(w) PROVE UNCHANGED vars
  BY <1>3 DEF ReadPrice
<1>4. ASSUME NEW v \in Store!Savers, Save(v) PROVE UNCHANGED vars
  BY <1>4 DEF Save
<1>5. ASSUME NEW w \in Workers, SaveTradesEnds(w) PROVE Next
  BY <1>5 DEF SaveTradesEnds, Branches
<1>6. ASSUME NEW w \in Workers, StoreRow(w) PROVE Next
  BY <1>6 DEF StoreRow
<1>7. CASE RestartAll
  BY <1>7 DEF RestartAll
<1>8. CASE UNCHANGED consumerVars
  BY <1>8 DEF consumerVars
<1>9. QED BY <1>1, <1>2, <1>3, <1>4, <1>5, <1>6, <1>7, <1>8 DEF ConsumerNext

\* The consumer is a pipeline: how a block gets its price and what saving its
\* trades consists of take nothing from what BlockPipeline allows (block.go 142-299).
THEOREM ConsumerIsPipeline == ConsumerSpec => Spec
<1>1. ConsumerInit => Init
  BY DEF ConsumerInit
<1>2. QED BY <1>1, ConsumerStepIsPipelineStep, PTL DEF ConsumerSpec, Spec

-----------------------------------------------------------------------------
(* A block and its price.  A worker is one of SolPrice exactly while it    *)
(* has a block, and SaveTrades waits for the price.                        *)

HasBlock(w) == pc[w] = "insert" /\ verdict[w] = BlockProcessed

PriceFollows ==
  /\ solPrice \in [Slots -> Slots \cup {0}] /\ priced \in [Workers -> Slots \cup {0}]
  /\ pricePc \in [Workers -> {"idle", "near", "store"}]
  /\ \A w \in Workers : /\ pricePc[w] # "idle" <=> HasBlock(w)
                        /\ pricePc[w] = "near" => "trades" \in running[w]

\* A step that neither the price nor SaveTrades has a part in leaves the blocks
\* of the workers and the writes of trades alone.
LEMMA ApartLeaves ==
  ASSUME TypeOK, Apart
  PROVE  /\ UNCHANGED block /\ swallowed \subseteq swallowed'
         /\ \A w \in Workers :
              /\ "trades" \in running'[w] <=> "trades" \in running[w]
              /\ HasBlock(w)' <=> HasBlock(w)
              /\ HasBlock(w) => job'[w] = job[w]
<1> USE DEF dbVars, workerVars, historyVars, HasBlock
<1> DEFINE Leaves ==
      /\ UNCHANGED block /\ swallowed \subseteq swallowed'
      /\ \A w \in Workers :
           /\ "trades" \in running'[w] <=> "trades" \in running[w]
           /\ HasBlock(w)' <=> HasBlock(w)
           /\ HasBlock(w) => job'[w] = job[w]
<1>1. CASE ReaderNext
  BY <1>1 DEF ReaderNext, Connect, ReadSlot, SendSlot, ReaderStops
<1>2. CASE RecoveryNext
  BY <1>2 DEF RecoveryNext, RecoveryStarts, RecoveryChecks, RecoveryPicks,
              RecoveryPushes, RecoveryStops
<1>3. CASE StopSlotService
  BY <1>3 DEF StopSlotService
<1>4. ASSUME NEW w \in Workers, StopWorker(w) \/ FetchAgain(w) PROVE Leaves
  BY <1>4 DEF StopWorker, FetchAgain
<1>5. ASSUME NEW w \in Workers, Receive(w) \/ Exit(w) PROVE Leaves
  <2>1. /\ pc[w] = "select" /\ \E to \in {"fetch", "exited"} : pc' = [pc EXCEPT ![w] = to]
        /\ UNCHANGED <<verdict, running, block, swallowed>>
        /\ \E s : job' = [job EXCEPT ![w] = s]
    BY <1>5 DEF Receive, Exit, TypeOK, WorkersTypeOK
  <2>2. QED BY <2>1 DEF TypeOK, WorkersTypeOK
<1>6. ASSUME NEW w \in Workers, Panic(w) PROVE Leaves
  <2>1. running[w] = {} /\ pc[w] = "fetch" /\ Finish(w) /\ UNCHANGED <<block, swallowed>>
    BY <1>6 DEF Panic, TypeOK, WorkersTypeOK
  <2>2. QED BY <2>1 DEF Finish, TypeOK, WorkersTypeOK
<1>7. ASSUME NEW w \in Workers, NEW v \in Verdicts \ {BlockProcessed}, Fetched(w, v)
      PROVE  Leaves
  <2>1. running[w] = {} /\ pc[w] = "fetch"
    BY <1>7 DEF Fetched, TypeOK, WorkersTypeOK
  <2>2. QED BY <1>7, <2>1 DEF Fetched, TypeOK, WorkersTypeOK
<1>8. ASSUME NEW w \in Workers, NEW ok \in BOOLEAN, SaveEnds(w, "pools", ok)
      PROVE  Leaves
  BY <1>8 DEF SaveEnds, TypeOK, WorkersTypeOK
<1>9. QED BY <1>1, <1>2, <1>3, <1>4, <1>5, <1>6, <1>7, <1>8 DEF Apart

\* What the two steps before SaveTrades starts do to their worker.
LEMMA BlockArrivesDoes ==
  ASSUME TypeOK, PriceFollows, NEW w \in Workers, BlockArrives(w)
  PROVE  /\ pricePc[w] = "idle" /\ pc[w] = "fetch" /\ running[w] = {} /\ job[w] \in Slots
         /\ pc' = [pc EXCEPT ![w] = "insert"]
         /\ verdict' = [verdict EXCEPT ![w] = BlockProcessed]
         /\ running' = [running EXCEPT ![w] = Branches]
         /\ UNCHANGED <<job, block, saved, swallowed, solPrice>>
         /\ IF job[w] \in Swapping
            THEN /\ pricePc' = [pricePc EXCEPT ![w] = "store"]
                 /\ priced' = [priced EXCEPT ![w] = job[w]]
                 /\ Store!BeginBlock(w, job[w], TRUE)
            ELSE /\ pricePc' = [pricePc EXCEPT ![w] = "near"]
                 /\ UNCHANGED <<priced, storeVars>>
<1>1. Fetched(w, BlockProcessed) /\ Price!FetchBlock(w, job[w])
  BY DEF BlockArrives
<1>2. job[w] \in Slots /\ running[w] = {} /\ pc[w] = "fetch"
  BY <1>1 DEF Fetched, TypeOK, WorkersTypeOK, Busy
<1>3. QED BY <1>1, <1>2 DEF BlockArrives, Fetched, Price!FetchBlock, dbVars, historyVars

LEMMA ReadPriceDoes ==
  ASSUME TypeOK, PriceFollows, NEW w \in Workers, ReadPrice(w)
  PROVE  /\ pricePc[w] = "near" /\ HasBlock(w) /\ "trades" \in running[w]
         /\ job[w] \in Slots
         /\ pricePc' = [pricePc EXCEPT ![w] = "store"]
         /\ \E p \in Slots \cup {0} : priced' = [priced EXCEPT ![w] = p]
         /\ Store!BeginBlock(w, job[w], priced'[w] # 0)
         /\ UNCHANGED <<pc, job, verdict, running, block, saved, swallowed, solPrice>>
<1>1. Price!ReadNear(w) /\ UNCHANGED vars /\ Store!BeginBlock(w, job[w], priced'[w] # 0)
  BY DEF ReadPrice
<1>2. pricePc[w] = "near" /\ HasBlock(w) /\ "trades" \in running[w]
  BY <1>1 DEF Price!ReadNear, PriceFollows
<1>3. job[w] \in Slots
  BY <1>2 DEF HasBlock, TypeOK, WorkersTypeOK, Busy
<1>4. \E p \in Slots \cup {0} : priced' = [priced EXCEPT ![w] = p]
  BY <1>1 DEF Price!ReadNear, Price!NearSlots, PriceFollows
<1>5. QED BY <1>1, <1>2, <1>3, <1>4
          DEF Price!ReadNear, vars, dbVars, workerVars, historyVars

\* What the end of ProcessBlock does.
LEMMA StoreRowDoes ==
  ASSUME TypeOK, PriceFollows, NEW w \in Workers, StoreRow(w)
  PROVE  /\ running[w] = {} /\ pc[w] = "insert" /\ job[w] \in Slots
         /\ Finish(w) /\ UNCHANGED <<saved, swallowed, storeVars>>
         /\ pricePc' = [pricePc EXCEPT ![w] = "idle"]
         /\ \A u \in Workers \ {w} : priced'[u] = priced[u]
         /\ priced' \in [Workers -> Slots \cup {0}]
         /\ \/ UNCHANGED solPrice
            \/ /\ pricePc[w] = "store"
               /\ solPrice' = [solPrice EXCEPT ![job[w]] = priced[w]]
<1>1. /\ StoreBlock(w) /\ UNCHANGED storeVars
      /\ Price!FetchFails(w, job[w]) \/ Price!StorePriced(w) \/ Price!GiveUp({w})
  BY DEF StoreRow
<1>2. running[w] = {} /\ pc[w] = "insert" /\ job[w] \in Slots
  BY <1>1 DEF StoreBlock, TypeOK, WorkersTypeOK, Busy
<1>3. CASE Price!FetchFails(w, job[w])
  BY <1>1, <1>2, <1>3 DEF Price!FetchFails, StoreBlock, PriceFollows
<1>4. CASE Price!StorePriced(w)
  <2>1. pricePc[w] = "store" /\ Pricing[w] = job[w]
    BY <1>4 DEF Price!StorePriced, Pricing
  <2>2. /\ pricePc' = [u \in Workers |-> IF u \in {w} THEN "idle" ELSE pricePc[u]]
        /\ priced' = [u \in Workers |-> IF u \in {w} THEN 0 ELSE priced[u]]
    BY <1>4 DEF Price!StorePriced, Price!Leave
  <2>3. UNCHANGED solPrice \/ solPrice' = [solPrice EXCEPT ![job[w]] = priced[w]]
    BY <1>4, <2>1 DEF Price!StorePriced
  <2>4. Finish(w) /\ UNCHANGED <<saved, swallowed>>
    BY <1>1 DEF StoreBlock
  <2>5. QED BY <1>1, <1>2, <2>1, <2>2, <2>3, <2>4 DEF PriceFollows
<1>5. CASE Price!GiveUp({w})
  BY <1>1, <1>2, <1>5 DEF Price!GiveUp, Price!Leave, StoreBlock, PriceFollows
<1>6. QED BY <1>1, <1>3, <1>4, <1>5

LEMMA PriceFollowsInit == ConsumerInit => PriceFollows
BY DEF ConsumerInit, Init, Price!PriceInit, PriceFollows, HasBlock

LEMMA PriceFollowsStep ==
  TypeOK /\ PriceFollows /\ [ConsumerNext]_consumerVars => PriceFollows'
<1> SUFFICES ASSUME TypeOK, PriceFollows, [ConsumerNext]_consumerVars
             PROVE  PriceFollows'
  OBVIOUS
<1>1. CASE Apart
  <2>1. UNCHANGED <<solPrice, pricePc, priced>>
    BY <1>1 DEF Apart, priceVars
  <2>2. QED BY <1>1, <2>1, ApartLeaves DEF PriceFollows
<1>2. ASSUME NEW w \in Workers, BlockArrives(w) PROVE PriceFollows'
  <2>1. \A u \in Workers : IF u = w THEN HasBlock(u)' ELSE HasBlock(u)' <=> HasBlock(u)
    <3>1. /\ pc' = [pc EXCEPT ![w] = "insert"]
          /\ verdict' = [verdict EXCEPT ![w] = BlockProcessed]
      BY <1>2, BlockArrivesDoes
    <3>2. QED BY <3>1 DEF HasBlock, TypeOK, WorkersTypeOK
  <2>2. \A u \in Workers : running'[u] = IF u = w THEN Branches ELSE running[u]
    <3>1. running' = [running EXCEPT ![w] = Branches]
      BY <1>2, BlockArrivesDoes
    <3>2. DOMAIN running = Workers
      BY DEF TypeOK, WorkersTypeOK
    <3>3. QED BY <3>1, <3>2
  <2>3. QED BY <1>2, <2>1, <2>2, BlockArrivesDoes DEF PriceFollows, Branches
<1>3. ASSUME NEW w \in Workers, ReadPrice(w) PROVE PriceFollows'
  BY <1>3, ReadPriceDoes DEF PriceFollows, HasBlock
<1>4. ASSUME NEW v \in Store!Savers, Save(v) PROVE PriceFollows'
  BY <1>4 DEF Save, vars, workerVars, priceVars, PriceFollows, HasBlock
<1>5. ASSUME NEW w \in Workers, SaveTradesEnds(w) PROVE PriceFollows'
  <2>1. /\ UNCHANGED <<pc, verdict, priceVars>> /\ Saving[w] # 0
        /\ running' = [running EXCEPT ![w] = @ \ {"trades"}]
    BY <1>5 DEF SaveTradesEnds, SaveEnds, Store!EndBlock
  <2>2. pricePc[w] = "store"
    BY <2>1 DEF Saving
  <2>3. QED BY <2>1, <2>2 DEF PriceFollows, HasBlock, priceVars, TypeOK, WorkersTypeOK
<1>6. ASSUME NEW w \in Workers, StoreRow(w) PROVE PriceFollows'
  <2>1. \A u \in Workers : IF u = w THEN ~HasBlock(u)'
                           ELSE (HasBlock(u)' <=> HasBlock(u)) /\ running'[u] = running[u]
    BY <1>6, StoreRowDoes DEF HasBlock, Finish, TypeOK, WorkersTypeOK
  <2>2. QED BY <1>6, <2>1, StoreRowDoes DEF PriceFollows
<1>7. CASE RestartAll
  BY <1>7 DEF RestartAll, Restart, Price!GiveUp, Price!Leave, PriceFollows, HasBlock
<1>8. CASE UNCHANGED consumerVars
  BY <1>8 DEF consumerVars, vars, workerVars, priceVars, PriceFollows, HasBlock
<1>9. QED BY <1>1, <1>2, <1>3, <1>4, <1>5, <1>6, <1>7, <1>8 DEF ConsumerNext

LEMMA PriceFollowsInvariant == ConsumerSpec => [](TypeOK /\ PriceFollows)
<1>1. ConsumerSpec => []TypeOK
  BY ConsumerIsPipeline, TypeCorrect, PTL
<1>2. QED BY <1>1, PriceFollowsInit, PriceFollowsStep, PTL DEF ConsumerSpec

-----------------------------------------------------------------------------
(* The consumer implements SolPrice.                                       *)

LEMMA ConsumerStepIsPriceStep ==
  TypeOK /\ PriceFollows /\ [ConsumerNext]_consumerVars
    => [Price!PriceNext]_(Price!priceVars)
<1> SUFFICES ASSUME TypeOK, PriceFollows, [ConsumerNext]_consumerVars
             PROVE  [Price!PriceNext]_(Price!priceVars)
  OBVIOUS
<1> USE DEF Price!priceVars, priceVars
<1>1. CASE Apart
  <2>1. UNCHANGED <<block, solPrice, pricePc, priced>>
    BY <1>1, ApartLeaves DEF Apart
  <2>2. \A w \in Workers : pricePc[w] # "idle" => job'[w] = job[w]
    BY <1>1, ApartLeaves DEF PriceFollows
  <2>3. Pricing' = Pricing
    BY <2>1, <2>2 DEF Pricing
  <2>4. QED BY <2>1, <2>3
<1>2. ASSUME NEW w \in Workers, BlockArrives(w) PROVE Price!PriceNext
  <2>1. job[w] \in Slots
    BY <1>2, BlockArrivesDoes
  <2>2. QED BY <1>2, <2>1 DEF BlockArrives, Price!PriceNext
<1>3. ASSUME NEW w \in Workers, ReadPrice(w) PROVE Price!PriceNext
  BY <1>3 DEF ReadPrice, Price!PriceNext
<1>4. ASSUME NEW v \in Store!Savers, Save(v) PROVE UNCHANGED Price!priceVars
  BY <1>4 DEF Save, vars, dbVars, workerVars, Pricing
<1>5. ASSUME NEW w \in Workers, SaveTradesEnds(w) PROVE UNCHANGED Price!priceVars
  BY <1>5 DEF SaveTradesEnds, SaveEnds, Pricing
<1>6. ASSUME NEW w \in Workers, StoreRow(w) PROVE Price!PriceNext
  <2>1. job[w] \in Slots /\ {w} \in SUBSET Workers
    BY <1>6, StoreRowDoes
  <2>2. QED BY <1>6, <2>1 DEF StoreRow, Price!PriceNext
<1>7. CASE RestartAll
  BY <1>7 DEF RestartAll, Price!PriceNext
<1>8. CASE UNCHANGED consumerVars
  BY <1>8 DEF consumerVars, vars, dbVars, workerVars, Pricing
<1>9. QED BY <1>1, <1>2, <1>3, <1>4, <1>5, <1>6, <1>7, <1>8 DEF ConsumerNext

\* The consumer implements SolPrice: the steps by which its workers fetch,
\* give up and insert leave blocks with no other prices than SolPrice allows
\* (block.go 139-167).
THEOREM KeepsSolPriceTheorem == ConsumerSpec => KeepsSolPrice
<1>1. ConsumerInit => Price!PriceInit
  BY DEF ConsumerInit
<1>2. QED BY <1>1, PriceFollowsInvariant, ConsumerStepIsPriceStep, PTL
          DEF ConsumerSpec, KeepsSolPrice, Price!PriceSpec

-----------------------------------------------------------------------------
(* The consumer implements the store.                                      *)

\* A step of the consumer is one of the store or leaves its variables.
LEMMA ConsumerStepIsStoreStep ==
  TypeOK /\ PriceFollows /\ [ConsumerNext]_consumerVars
    => [Store!PairNext]_(Store!storeVars)
<1> SUFFICES ASSUME TypeOK, PriceFollows, [ConsumerNext]_consumerVars
             PROVE  [Store!PairNext]_(Store!storeVars)
  OBVIOUS
<1> USE DEF Store!storeVars, Store!tokenVars, Store!pairVars, rowVars, saverVars, storeVars
<1>1. CASE Apart
  <2>1. \A w \in Workers :
          /\ "trades" \in running'[w] <=> "trades" \in running[w]
          /\ pricePc'[w] = pricePc[w] /\ (pricePc[w] = "store" => job'[w] = job[w])
    BY <1>1, ApartLeaves DEF Apart, priceVars, PriceFollows
  <2>2. Saving' = Saving
    BY <2>1 DEF Saving
  <2>3. QED BY <1>1, <2>2 DEF Apart
<1>2. ASSUME NEW w \in Workers, BlockArrives(w) PROVE [Store!PairNext]_(Store!storeVars)
  <2>1. CASE job[w] \in Swapping
    BY <1>2, <2>1, BlockArrivesDoes DEF Store!PairNext
  <2>2. CASE job[w] \notin Swapping
    <3>1. /\ running[w] = {} /\ running' = [running EXCEPT ![w] = Branches]
          /\ pricePc' = [pricePc EXCEPT ![w] = "near"]
          /\ UNCHANGED <<job, storeVars>>
      BY <1>2, <2>2, BlockArrivesDoes
    <3>2. Saving' = Saving
      BY <3>1 DEF Saving, PriceFollows, TypeOK, WorkersTypeOK
    <3>3. QED BY <3>1, <3>2
  <2>3. QED BY <2>1, <2>2
<1>3. ASSUME NEW w \in Workers, ReadPrice(w) PROVE Store!PairNext
  <2>1. (priced'[w] # 0) \in BOOLEAN
    OBVIOUS
  <2>2. QED BY <1>3, <2>1, ReadPriceDoes DEF Store!PairNext
<1>4. ASSUME NEW v \in Store!Savers, Save(v) PROVE Store!PairNext
  BY <1>4 DEF Save, Store!PairNext
<1>5. ASSUME NEW w \in Workers, SaveTradesEnds(w) PROVE Store!PairNext
  BY <1>5 DEF SaveTradesEnds, Store!PairNext
<1>6. ASSUME NEW w \in Workers, StoreRow(w) PROVE UNCHANGED Store!storeVars
  <2>1. \A u \in Workers : Saving'[u] = Saving[u]
    BY <1>6, StoreRowDoes DEF Saving, Finish, PriceFollows, TypeOK, WorkersTypeOK
  <2>2. Saving' = Saving
    BY <2>1 DEF Saving
  <2>3. QED BY <1>6, <2>2, StoreRowDoes
<1>7. CASE RestartAll
  BY <1>7 DEF RestartAll, Store!PairNext
<1>8. CASE UNCHANGED consumerVars
  BY <1>8 DEF consumerVars, vars, workerVars, priceVars, Saving
<1>9. QED BY <1>1, <1>2, <1>3, <1>4, <1>5, <1>6, <1>7, <1>8 DEF ConsumerNext

\* The store of the consumer keeps the protocol of PairStore, whatever price a
\* block has, whatever the workers retry and whenever the process ends (db.go 60-124).
THEOREM KeepsPairStoreTheorem == ConsumerSpec => KeepsPairStore
<1>1. ConsumerInit => Store!PairInit
  BY DEF ConsumerInit
<1>2. QED BY <1>1, PriceFollowsInvariant, ConsumerStepIsStoreStep, PTL
          DEF ConsumerSpec, KeepsPairStore, Store!PairSpec

-----------------------------------------------------------------------------
(* What SolPriceProofs proves, of the prices of the consumer.              *)

PriceProofs == INSTANCE SolPriceProofs
  WITH PriceWorkers <- Workers, pc <- pricePc, job <- Pricing,
       QueryMayFail <- Faults \cap {"find", "shutdown"} # {},
       \* what its part about single blocks has besides
       Owners <- {}, Values <- {}, MaxNums <- 0, MaxScan <- 0, DexKey <- 0,
       nums <- <<>>, list <- <<>>, tx <- 0, average <- 0, price <- 0, prices <- {}, done <- FALSE

LEMMA SamePrice ==
  /\ PriceProofs!SlotsAssumption /\ PriceProofs!SolPriceAssumption
  /\ PriceProofs!PriceMathAssumption
  /\ PriceProofs!PriceIsNotOfTheFuture <=> Price!PriceIsNotOfTheFuture
  /\ PriceProofs!PriceIsTraceable <=> Price!PriceIsTraceable
BY SlotsAssumption, RowsAssumption
   DEF PriceProofs!SlotsAssumption, PriceProofs!SolPriceAssumption,
       PriceProofs!PriceMathAssumption,
       PriceProofs!PriceIsNotOfTheFuture, Price!PriceIsNotOfTheFuture,
       PriceProofs!PriceIsTraceable, Price!PriceIsTraceable,
       PriceProofs!BlockProcessed, Price!BlockProcessed

LEMMA SamePriceSpec == PriceProofs!PriceSpec <=> Price!PriceSpec
BY
   DEF Price!PriceSpec, PriceProofs!PriceSpec, Price!PriceInit,
       PriceProofs!PriceInit, Price!PriceNext, PriceProofs!PriceNext,
       Price!priceVars, PriceProofs!priceVars, Price!FetchBlock,
       PriceProofs!FetchBlock, Price!FetchFails, PriceProofs!FetchFails,
       Price!NearSlots, PriceProofs!NearSlots, Price!ReadNear,
       PriceProofs!ReadNear, Price!Leave, PriceProofs!Leave,
       Price!StorePriced, PriceProofs!StorePriced, Price!GiveUp,
       PriceProofs!GiveUp, Price!Insert, PriceProofs!Insert, Price!HasRow,
       PriceProofs!HasRow, Price!EmptyTable, PriceProofs!EmptyTable,
       Price!BlockProcessed, PriceProofs!BlockProcessed, Price!BlockFailed,
       PriceProofs!BlockFailed, Price!BlockSkipped,
       PriceProofs!BlockSkipped, Price!Absent, PriceProofs!Absent,
       Price!FindOneByNearSlot, PriceProofs!FindOneByNearSlot

\* No block of the consumer is valued with the price of a later one, and every
\* price in the table leads to the processed row whose swaps gave it, whatever the
\* workers retry, are refused, or leave behind when they end (price.go 128).
THEOREM ConsumerPricesTheorem ==
  ConsumerSpec => [](Price!PriceIsNotOfTheFuture /\ Price!PriceIsTraceable)
<1>1. ConsumerSpec => PriceProofs!PriceSpec
  BY KeepsSolPriceTheorem, SamePriceSpec, PTL DEF KeepsSolPrice
<1>2. PriceProofs!PriceSpec => []PriceProofs!PriceIsNotOfTheFuture
  BY SamePrice, PriceProofs!NotOfTheFutureTheorem, PTL
<1>3. PriceProofs!PriceSpec => []PriceProofs!PriceIsTraceable
  BY SamePrice, PriceProofs!TraceableTheorem, PTL
<1>4. QED BY <1>1, <1>2, <1>3, SamePrice, PTL

-----------------------------------------------------------------------------
(* What PairStoreProofs proves, of the store of the consumer.              *)

\* The store that is proved about is the store of the consumer.
LEMMA SameStore ==
  /\ StoreProofs!StoreAssumption /\ StoreProofs!PairsOfAssumption
  /\ StoreProofs!TokenTypeOK <=> Store!TokenTypeOK
  /\ StoreProofs!PairTypeOK <=> Store!PairTypeOK
  /\ StoreProofs!PairHasToken <=> Store!PairHasToken
  /\ StoreProofs!TradesHavePair <=> Store!TradesHavePair
BY SlotsAssumption, RowsAssumption
   DEF Store!AllStoreFaults, StoreProofs!AllStoreFaults, Store!Savers,
       StoreProofs!Savers, Store!TokenAt, StoreProofs!TokenAt,
       Store!Programs, StoreProofs!Programs, Store!TokenRows,
       StoreProofs!TokenRows, Store!NoRow, StoreProofs!NoRow,
       Store!HasToken, StoreProofs!HasToken, Store!Rpc, StoreProofs!Rpc,
       Store!ProgramsFound, StoreProofs!ProgramsFound, Store!NewTokens,
       StoreProofs!NewTokens, Store!Completions, StoreProofs!Completions,
       Store!WritesBack, StoreProofs!WritesBack, Store!TokenInit,
       StoreProofs!TokenInit, Store!Return, StoreProofs!Return,
       Store!StartSavers, StoreProofs!StartSavers, Store!FindToken,
       StoreProofs!FindToken, Store!CompleteToken,
       StoreProofs!CompleteToken, Store!InsertToken,
       StoreProofs!InsertToken, Store!RefindToken, StoreProofs!RefindToken,
       Store!MetadataHangs, StoreProofs!MetadataHangs,
       Store!EndSavers, StoreProofs!EndSavers, Store!KillSavers,
       StoreProofs!KillSavers, Store!SaveToken, StoreProofs!SaveToken,
       Store!tokenVars, StoreProofs!tokenVars, Store!pairVars,
       StoreProofs!pairVars, Store!storeVars, StoreProofs!storeVars,
       Store!PairRows, StoreProofs!PairRows, Store!NoPair,
       StoreProofs!NoPair, Store!HasPair, StoreProofs!HasPair, Store!PairAt,
       StoreProofs!PairAt, Store!SlotAt, StoreProofs!SlotAt, Store!SaversOf,
       StoreProofs!SaversOf, Store!PairInit, StoreProofs!PairInit,
       Store!PairSaved, StoreProofs!PairSaved, Store!BeginBlock,
       StoreProofs!BeginBlock, Store!CallSaveToken,
       StoreProofs!CallSaveToken, Store!TokenFailed,
       StoreProofs!TokenFailed, Store!PairFound, StoreProofs!PairFound,
       Store!FindPair, StoreProofs!FindPair, Store!UpdatePair,
       StoreProofs!UpdatePair, Store!InsertPair, StoreProofs!InsertPair,
       Store!RefindPair, StoreProofs!RefindPair, Store!SaveTradeRows,
       StoreProofs!SaveTradeRows, Store!EndBlock, StoreProofs!EndBlock,
       Store!Crash, StoreProofs!Crash, Store!SavePair, StoreProofs!SavePair,
       Store!BatchSaveByTrade, StoreProofs!BatchSaveByTrade, Store!PairNext,
       StoreProofs!PairNext, Store!PairSpec, StoreProofs!PairSpec,
       Store!TokenTypeOK, StoreProofs!TokenTypeOK, Store!PairTypeOK,
       StoreProofs!PairTypeOK, Store!TradesHavePair,
       StoreProofs!TradesHavePair, Store!PairHasToken,
       StoreProofs!PairHasToken, Store!StoreAssumption,
       StoreProofs!StoreAssumption, Store!PairsOfAssumption,
       StoreProofs!PairsOfAssumption, Store!ValidPairs,
       StoreProofs!ValidPairs

LEMMA SameStoreSpec == StoreProofs!PairSpec <=> Store!PairSpec
BY
   DEF Store!AllStoreFaults, StoreProofs!AllStoreFaults, Store!Savers,
       StoreProofs!Savers, Store!TokenAt, StoreProofs!TokenAt,
       Store!Programs, StoreProofs!Programs, Store!TokenRows,
       StoreProofs!TokenRows, Store!NoRow, StoreProofs!NoRow,
       Store!HasToken, StoreProofs!HasToken, Store!Rpc, StoreProofs!Rpc,
       Store!ProgramsFound, StoreProofs!ProgramsFound, Store!NewTokens,
       StoreProofs!NewTokens, Store!Completions, StoreProofs!Completions,
       Store!WritesBack, StoreProofs!WritesBack, Store!TokenInit,
       StoreProofs!TokenInit, Store!Return, StoreProofs!Return,
       Store!StartSavers, StoreProofs!StartSavers, Store!FindToken,
       StoreProofs!FindToken, Store!CompleteToken,
       StoreProofs!CompleteToken, Store!InsertToken,
       StoreProofs!InsertToken, Store!RefindToken, StoreProofs!RefindToken,
       Store!MetadataHangs, StoreProofs!MetadataHangs,
       Store!EndSavers, StoreProofs!EndSavers, Store!KillSavers,
       StoreProofs!KillSavers, Store!SaveToken, StoreProofs!SaveToken,
       Store!tokenVars, StoreProofs!tokenVars, Store!pairVars,
       StoreProofs!pairVars, Store!storeVars, StoreProofs!storeVars,
       Store!PairRows, StoreProofs!PairRows, Store!NoPair,
       StoreProofs!NoPair, Store!HasPair, StoreProofs!HasPair, Store!PairAt,
       StoreProofs!PairAt, Store!SlotAt, StoreProofs!SlotAt, Store!SaversOf,
       StoreProofs!SaversOf, Store!PairInit, StoreProofs!PairInit,
       Store!PairSaved, StoreProofs!PairSaved, Store!BeginBlock,
       StoreProofs!BeginBlock, Store!CallSaveToken,
       StoreProofs!CallSaveToken, Store!TokenFailed,
       StoreProofs!TokenFailed, Store!PairFound, StoreProofs!PairFound,
       Store!FindPair, StoreProofs!FindPair, Store!UpdatePair,
       StoreProofs!UpdatePair, Store!InsertPair, StoreProofs!InsertPair,
       Store!RefindPair, StoreProofs!RefindPair, Store!SaveTradeRows,
       StoreProofs!SaveTradeRows, Store!EndBlock, StoreProofs!EndBlock,
       Store!Crash, StoreProofs!Crash, Store!SavePair, StoreProofs!SavePair,
       Store!BatchSaveByTrade, StoreProofs!BatchSaveByTrade, Store!PairNext,
       StoreProofs!PairNext, Store!PairSpec, StoreProofs!PairSpec,
       Store!TokenTypeOK, StoreProofs!TokenTypeOK, Store!PairTypeOK,
       StoreProofs!PairTypeOK, Store!TradesHavePair,
       StoreProofs!TradesHavePair, Store!PairHasToken,
       StoreProofs!PairHasToken, Store!StoreAssumption,
       StoreProofs!StoreAssumption, Store!PairsOfAssumption,
       StoreProofs!PairsOfAssumption, Store!ValidPairs,
       StoreProofs!ValidPairs

LEMMA StoreInvariants ==
  ConsumerSpec => [](/\ Store!TokenTypeOK /\ Store!PairTypeOK
                     /\ Store!PairHasToken /\ Store!TradesHavePair)
<1>1. ConsumerSpec => StoreProofs!PairSpec
  BY KeepsPairStoreTheorem, SameStoreSpec, PTL DEF KeepsPairStore
<1>2. StoreProofs!PairSpec => []StoreProofs!TokenTypeOK
  BY SameStore, StoreProofs!KeepsTokenStoreTheorem, StoreProofs!TokenTypeCorrect, PTL
     DEF StoreProofs!KeepsTokenStore
<1>3. StoreProofs!PairSpec => []StoreProofs!PairTypeOK
  BY SameStore, StoreProofs!PairTypeCorrect, PTL
<1>4. StoreProofs!PairSpec => []StoreProofs!PairHasToken
  BY SameStore, StoreProofs!PairHasTokenTheorem, PTL
<1>5. StoreProofs!PairSpec => []StoreProofs!TradesHavePair
  BY SameStore, StoreProofs!TradesHavePairTheorem, PTL
<1>6. QED BY <1>1, <1>2, <1>3, <1>4, <1>5, SameStore, PTL


-----------------------------------------------------------------------------
(* The goroutines of SaveTrades and the step of their worker.  They are    *)
(* there exactly while a worker that knows the price of its block waits    *)
(* for them, one for each pair whose trades are kept; one that ended       *)
(* without an error has inserted them.                                     *)

SaversFollow == \A v \in Store!Savers :
  /\ savePc[v] # "idle" <=> /\ "trades" \in running[v[1]] /\ pricePc[v[1]] = "store"
                            /\ v[2] \in Store!ValidPairs(job[v[1]], priced[v[1]] # 0)
  /\ tpc[v] # "idle" => savePc[v] # "idle"

EndedHasTrades == \A v \in Store!Savers :
  savePc[v] = "ended" => <<job[v[1]], v[2]>> \in trade

TradesOrLogged(s) == s \in swallowed \/ \A p \in PairsOf[s] : <<s, p>> \in trade

\* When a worker is about to insert a row with a price, and when the row is there.
SavedBeforeRow == \A w \in Workers :
  pricePc[w] = "store" /\ priced[w] # 0 /\ "trades" \notin running[w] => TradesOrLogged(job[w])

RowHasTrades == \A s \in Slots : solPrice[s] # 0 => TradesOrLogged(s)

SaversInv == SaversFollow /\ EndedHasTrades /\ SavedBeforeRow /\ RowHasTrades

StoreTypeOK == Store!TokenTypeOK /\ Store!PairTypeOK

LEMMA SaversInitInv == ConsumerInit => SaversInv
BY DEF ConsumerInit, Init, Price!PriceInit, Store!PairInit, Store!TokenInit, Store!Savers,
       SaversInv, SaversFollow, EndedHasTrades, SavedBeforeRow, RowHasTrades

LEMMA PairsOfBlock ==
  ASSUME NEW s \in Slots
  PROVE  PairsOf[s] \subseteq Pairs
BY RowsAssumption

\* SaveTrades starts: the goroutines of its worker were gone, those of the pairs
\* with valid trades are there.
LEMMA StartsInv ==
  ASSUME TypeOK, PriceFollows, StoreTypeOK, SaversInv, NEW w \in Workers,
         pricePc[w] # "store", NEW priced2 \in BOOLEAN, Store!BeginBlock(w, job[w], priced2),
         "trades" \in running'[w], pricePc' = [pricePc EXCEPT ![w] = "store"],
         priced2 <=> priced'[w] # 0,
         \A u \in Workers \ {w} : running'[u] = running[u] /\ priced'[u] = priced[u],
         UNCHANGED <<job, swallowed, solPrice>>
  PROVE  SaversInv'
<1> DEFINE V == {v \in Store!SaversOf(w) : v[2] \in Store!ValidPairs(job[w], priced2)}
<1>1. /\ savePc' = [v \in Store!Savers |-> IF v \in V THEN "token" ELSE savePc[v]]
      /\ tpc' = [v \in Store!Savers |-> IF v \in V THEN "find" ELSE tpc[v]]
      /\ UNCHANGED trade
  BY DEF Store!BeginBlock, Store!StartSavers, Store!PairAt
<1>2. \A v \in Store!Savers : v \in V <=> v[1] = w /\ v[2] \in Store!ValidPairs(job[w], priced2)
  BY DEF Store!SaversOf
<1>3. \A v \in Store!Savers : /\ v[1] \in Workers
                              /\ v[1] = w => savePc[v] = "idle" /\ tpc[v] = "idle"
  BY DEF Store!Savers, SaversInv, SaversFollow
<1>4. /\ pricePc'[w] = "store" /\ \A u \in Workers \ {w} : pricePc'[u] = pricePc[u]
      /\ Store!ValidPairs(job[w], priced2) = Store!ValidPairs(job'[w], priced'[w] # 0)
  BY DEF PriceFollows, Store!ValidPairs
<1>5. SaversFollow'
  <2> SUFFICES ASSUME NEW v \in Store!Savers
      PROVE  /\ savePc'[v] # "idle"
                  <=> /\ "trades" \in running'[v[1]] /\ pricePc'[v[1]] = "store"
                      /\ v[2] \in Store!ValidPairs(job'[v[1]], priced'[v[1]] # 0)
             /\ tpc'[v] # "idle" => savePc'[v] # "idle"
    BY DEF SaversFollow, Store!ValidPairs
  <2>1. CASE v[1] = w
    BY <1>1, <1>2, <1>3, <1>4, <2>1
  <2>2. CASE v[1] # w
    <3>1. savePc'[v] = savePc[v] /\ tpc'[v] = tpc[v]
      BY <1>1, <1>2, <2>2
    <3>2. /\ running'[v[1]] = running[v[1]] /\ priced'[v[1]] = priced[v[1]]
          /\ pricePc'[v[1]] = pricePc[v[1]] /\ job'[v[1]] = job[v[1]]
      BY <1>3, <1>4, <2>2
    <3>3. QED BY <3>1, <3>2 DEF SaversInv, SaversFollow
  <2>3. QED BY <2>1, <2>2
<1>6. EndedHasTrades'
  BY <1>1 DEF SaversInv, EndedHasTrades, Store!Savers
<1>7. SavedBeforeRow' /\ RowHasTrades'
  BY <1>1, <1>4 DEF SaversInv, SavedBeforeRow, RowHasTrades, TradesOrLogged
<1>8. QED BY <1>5, <1>6, <1>7 DEF SaversInv

\* A step that leaves the goroutines, the block and the price of every worker that
\* SaveTrades may have started for.
LEMMA LeftInv ==
  ASSUME TypeOK, PriceFollows, SaversInv, UNCHANGED <<trade, savePc, tpc>>,
         swallowed \subseteq swallowed',
         \A w \in Workers :
           /\ pricePc'[w] = "store" <=> pricePc[w] = "store"
           /\ pricePc[w] = "store" => /\ "trades" \in running'[w] <=> "trades" \in running[w]
                                      /\ job'[w] = job[w] /\ priced'[w] = priced[w],
         UNCHANGED solPrice
  PROVE  SaversInv'
<1>1. \A v \in Store!Savers : v[1] \in Workers
  BY DEF Store!Savers
<1>2. SaversFollow'
  <2> SUFFICES ASSUME NEW v \in Store!Savers
      PROVE  /\ savePc'[v] # "idle"
                  <=> /\ "trades" \in running'[v[1]] /\ pricePc'[v[1]] = "store"
                      /\ v[2] \in Store!ValidPairs(job'[v[1]], priced'[v[1]] # 0)
             /\ tpc'[v] # "idle" => savePc'[v] # "idle"
    BY DEF SaversFollow, Store!ValidPairs
  <2>1. CASE pricePc[v[1]] = "store"
    BY <1>1, <2>1 DEF SaversInv, SaversFollow
  <2>2. CASE pricePc[v[1]] # "store"
    BY <1>1, <2>2 DEF SaversInv, SaversFollow
  <2>3. QED BY <2>1, <2>2
<1>3. EndedHasTrades'
  BY <1>1 DEF SaversInv, EndedHasTrades, SaversFollow
<1>4. SavedBeforeRow' /\ RowHasTrades'
  BY DEF SaversInv, SavedBeforeRow, RowHasTrades, TradesOrLogged
<1>5. QED BY <1>2, <1>3, <1>4 DEF SaversInv

\* A goroutine that ends has inserted the trades of its pair or failed.
LEMMA SaveInv ==
  ASSUME TypeOK, StoreTypeOK, SaversInv, NEW v \in Store!Savers, Save(v)
  PROVE  SaversInv'
<1>1. UNCHANGED <<running, job, swallowed, pricePc, priced, solPrice>>
  BY DEF Save, vars, workerVars, historyVars, priceVars
<1>2. /\ \A u \in Store!Savers \ {v} : savePc'[u] = savePc[u] /\ tpc'[u] = tpc[u]
      /\ savePc[v] # "idle" /\ savePc'[v] # "idle"
      /\ trade \subseteq trade'
      /\ savePc'[v] = "ended" => <<job[v[1]], v[2]>> \in trade'
  <2> USE DEF StoreTypeOK, Store!PairTypeOK, Store!TokenTypeOK, Store!tokenVars,
              Store!pairVars
  <2>1. CASE Store!CallSaveToken(v)
    BY <2>1 DEF Store!CallSaveToken, Store!SaveToken, Store!FindToken,
         Store!CompleteToken, Store!InsertToken, Store!RefindToken, Store!MetadataHangs,
         Store!Return
  <2>2. CASE Store!TokenFailed(v)
    BY <2>2 DEF Store!TokenFailed, Store!PairSaved
  <2>3. CASE Store!FindPair(v)
    BY <2>3 DEF Store!FindPair, Store!PairFound, Store!PairSaved
  <2>4. CASE Store!UpdatePair(v) \/ Store!InsertPair(v) \/ Store!RefindPair(v)
    BY <2>4 DEF Store!UpdatePair, Store!InsertPair, Store!RefindPair, Store!PairSaved
  <2>5. CASE Store!SaveTradeRows(v)
    <3>1. Saving[v[1]] = job[v[1]]
      <4>1. savePc[v] # "idle" /\ v[1] \in Workers
        BY <2>5 DEF Store!SaveTradeRows, Store!Savers
      <4>2. QED BY <4>1 DEF Saving, SaversInv, SaversFollow
    <3>2. QED BY <2>5, <3>1 DEF Store!SaveTradeRows, Store!SlotAt, Store!PairAt
  <2>6. QED BY <2>1, <2>2, <2>3, <2>4, <2>5
            DEF Save, Store!BatchSaveByTrade, Store!SavePair
<1>3. SaversFollow'
  BY <1>1, <1>2 DEF SaversInv, SaversFollow, Store!ValidPairs
<1>4. EndedHasTrades'
  BY <1>1, <1>2 DEF SaversInv, EndedHasTrades
<1>5. SavedBeforeRow' /\ RowHasTrades'
  BY <1>1, <1>2 DEF SaversInv, SavedBeforeRow, RowHasTrades, TradesOrLogged
<1>6. QED BY <1>3, <1>4, <1>5 DEF SaversInv

\* The worker has waited for all of them.
LEMMA SaveTradesEndsInv ==
  ASSUME TypeOK, PriceFollows, StoreTypeOK, SaversInv, NEW w \in Workers, SaveTradesEnds(w)
  PROVE  SaversInv'
<1> DEFINE V == {v \in Store!SaversOf(w) : savePc[v] # "idle"}
<1>1. PICK ok \in BOOLEAN :
        /\ SaveEnds(w, "trades", ok)
        /\ ok => \A v \in Store!SaversOf(w) : savePc[v] # "failed"
  BY DEF SaveTradesEnds
<1>2. /\ \A v \in V : savePc[v] \in {"ended", "failed"}
      /\ savePc' = [v \in Store!Savers |-> IF v \in V THEN "idle" ELSE savePc[v]]
      /\ tpc' = [v \in Store!Savers |-> IF v \in V THEN "idle" ELSE tpc[v]]
      /\ UNCHANGED <<trade, pricePc, priced, solPrice>>
  BY DEF SaveTradesEnds, Store!EndBlock, Store!EndSavers, priceVars
<1>3. /\ "trades" \in running[w] /\ job[w] \in Slots /\ UNCHANGED job
      /\ running' = [running EXCEPT ![w] = @ \ {"trades"}]
      /\ swallowed' = IF ok THEN swallowed ELSE swallowed \cup {job[w]}
  BY <1>1 DEF SaveEnds, TypeOK, WorkersTypeOK, Busy
<1>4. \A v \in Store!Savers : v[1] \in Workers /\ (v[1] = w <=> v \in Store!SaversOf(w))
  BY DEF Store!Savers, Store!SaversOf
<1>5. \A u \in Workers : "trades" \in running'[u] <=> u # w /\ "trades" \in running[u]
  BY <1>3 DEF TypeOK, WorkersTypeOK
<1>6. SaversFollow'
  <2> SUFFICES ASSUME NEW v \in Store!Savers
      PROVE  /\ savePc'[v] # "idle"
                  <=> /\ "trades" \in running'[v[1]] /\ pricePc'[v[1]] = "store"
                      /\ v[2] \in Store!ValidPairs(job'[v[1]], priced'[v[1]] # 0)
             /\ tpc'[v] # "idle" => savePc'[v] # "idle"
    BY DEF SaversFollow, Store!ValidPairs
  <2>1. CASE v[1] = w
    BY <1>2, <1>4, <1>5, <2>1 DEF SaversInv, SaversFollow
  <2>2. CASE v[1] # w
    <3>1. savePc'[v] = savePc[v] /\ tpc'[v] = tpc[v]
      BY <1>2, <1>4, <2>2
    <3>2. QED BY <1>2, <1>3, <1>4, <1>5, <2>2, <3>1 DEF SaversInv, SaversFollow
  <2>3. QED BY <2>1, <2>2
<1>7. EndedHasTrades'
  BY <1>2, <1>3 DEF SaversInv, EndedHasTrades
<1>8. SavedBeforeRow'
  <2>1. ASSUME pricePc[w] = "store", priced[w] # 0, ok PROVE TradesOrLogged(job[w])'
    <3>1. SUFFICES ASSUME NEW p \in PairsOf[job[w]] PROVE <<job[w], p>> \in trade
      BY <1>2, <1>3 DEF TradesOrLogged
    <3>2. <<w, p>> \in Store!Savers
      BY <1>3, <3>1, PairsOfBlock DEF Store!Savers
    <3>3. savePc[<<w, p>>] # "idle"
      BY <1>3, <2>1, <3>1, <3>2 DEF SaversInv, SaversFollow, Store!ValidPairs
    <3>4. savePc[<<w, p>>] = "ended"
      BY <1>1, <1>2, <1>4, <2>1, <3>2, <3>3
    <3>5. QED BY <3>2, <3>4 DEF SaversInv, EndedHasTrades
  <2>2. ASSUME ~ok PROVE TradesOrLogged(job[w])'
    BY <1>3, <2>2 DEF TradesOrLogged
  <2>3. ASSUME NEW u \in Workers \ {w}, TradesOrLogged(job[u]) PROVE TradesOrLogged(job[u])'
    BY <1>2, <1>3, <2>3 DEF TradesOrLogged
  <2>4. SUFFICES ASSUME NEW u \in Workers, pricePc[u] = "store", priced[u] # 0,
                        "trades" \notin running'[u]
                 PROVE  TradesOrLogged(job[u])'
    BY <1>2 DEF SavedBeforeRow, TradesOrLogged
  <2>5. QED BY <1>5, <2>1, <2>2, <2>3, <2>4 DEF SaversInv, SavedBeforeRow
<1>9. RowHasTrades'
  BY <1>2, <1>3 DEF SaversInv, RowHasTrades, TradesOrLogged
<1>10. QED BY <1>6, <1>7, <1>8, <1>9 DEF SaversInv

\* The row that is inserted with a price is that of a block whose trades are saved.
LEMMA StoreRowInv ==
  ASSUME TypeOK, PriceFollows, SaversInv, NEW w \in Workers, StoreRow(w)
  PROVE  SaversInv'
<1>1. /\ running[w] = {} /\ job[w] \in Slots
      /\ UNCHANGED <<swallowed, trade, savePc, tpc>>
  BY StoreRowDoes DEF storeVars, rowVars, saverVars
<1>2. /\ pricePc' = [pricePc EXCEPT ![w] = "idle"]
      /\ \A u \in Workers \ {w} : /\ running'[u] = running[u] /\ job'[u] = job[u]
                                  /\ priced'[u] = priced[u]
  BY StoreRowDoes DEF Finish, TypeOK, WorkersTypeOK
<1>3. \A v \in Store!Savers : /\ v[1] \in Workers
                              /\ v[1] = w => savePc[v] = "idle" /\ tpc[v] = "idle"
  BY <1>1 DEF Store!Savers, SaversInv, SaversFollow
<1>4. pricePc'[w] = "idle" /\ \A u \in Workers \ {w} : pricePc'[u] = pricePc[u]
  BY <1>2 DEF PriceFollows
<1>5. SaversFollow'
  <2> SUFFICES ASSUME NEW v \in Store!Savers
      PROVE  /\ savePc'[v] # "idle"
                  <=> /\ "trades" \in running'[v[1]] /\ pricePc'[v[1]] = "store"
                      /\ v[2] \in Store!ValidPairs(job'[v[1]], priced'[v[1]] # 0)
             /\ tpc'[v] # "idle" => savePc'[v] # "idle"
    BY DEF SaversFollow, Store!ValidPairs
  <2>1. CASE v[1] = w
    BY <1>1, <1>3, <1>4, <2>1
  <2>2. CASE v[1] # w
    BY <1>1, <1>2, <1>3, <1>4, <2>2 DEF SaversInv, SaversFollow
  <2>3. QED BY <2>1, <2>2
<1>6. EndedHasTrades'
  BY <1>1, <1>2, <1>3 DEF SaversInv, EndedHasTrades
<1>7. SavedBeforeRow'
  BY <1>1, <1>2, <1>4 DEF SaversInv, SavedBeforeRow, TradesOrLogged
<1>8. RowHasTrades'
  <2>1. \A s \in Slots : TradesOrLogged(s)' <=> TradesOrLogged(s)
    BY <1>1 DEF TradesOrLogged
  <2>2. CASE UNCHANGED solPrice
    BY <2>1, <2>2 DEF SaversInv, RowHasTrades, TradesOrLogged
  <2>3. CASE pricePc[w] = "store" /\ solPrice' = [solPrice EXCEPT ![job[w]] = priced[w]]
    <3>1. priced[w] # 0 => TradesOrLogged(job[w])
      BY <1>1, <2>3 DEF SaversInv, SavedBeforeRow
    <3>2. \A s \in Slots : solPrice'[s] # 0 => TradesOrLogged(s)
      BY <1>1, <2>3, <3>1 DEF SaversInv, RowHasTrades, PriceFollows
    <3>3. QED BY <2>1, <3>2 DEF RowHasTrades
  <2>4. QED BY <2>2, <2>3, StoreRowDoes
<1>9. QED BY <1>5, <1>6, <1>7, <1>8 DEF SaversInv

LEMMA SaversStepInv ==
  TypeOK /\ PriceFollows /\ StoreTypeOK /\ SaversInv /\ [ConsumerNext]_consumerVars
    => SaversInv'
<1> SUFFICES ASSUME TypeOK, PriceFollows, StoreTypeOK, SaversInv,
                    [ConsumerNext]_consumerVars
             PROVE  SaversInv'
  OBVIOUS
<1>1. CASE Apart
  <2>1. UNCHANGED <<trade, savePc, tpc, solPrice, pricePc, priced>>
    BY <1>1 DEF Apart, storeVars, rowVars, saverVars, priceVars
  <2>2. QED BY <1>1, <2>1, ApartLeaves, LeftInv DEF PriceFollows
<1>2. ASSUME NEW w \in Workers, BlockArrives(w) PROVE SaversInv'
  <2>1. /\ pricePc[w] = "idle" /\ job[w] \in Slots /\ job[w] # 0
        /\ running'[w] = Branches /\ \A u \in Workers \ {w} : running'[u] = running[u]
        /\ UNCHANGED <<job, swallowed, solPrice>>
    BY <1>2, BlockArrivesDoes, SlotsAssumption DEF TypeOK, WorkersTypeOK
  <2>2. CASE job[w] \in Swapping
    <3>1. /\ Store!BeginBlock(w, job[w], TRUE)
          /\ pricePc' = [pricePc EXCEPT ![w] = "store"]
          /\ priced' = [priced EXCEPT ![w] = job[w]]
      BY <1>2, <2>2, BlockArrivesDoes
    <3>2. priced'[w] # 0 /\ \A u \in Workers \ {w} : priced'[u] = priced[u]
      BY <2>1, <3>1 DEF PriceFollows
    <3>3. QED BY <2>1, <3>1, <3>2, StartsInv DEF Branches
  <2>3. CASE job[w] \notin Swapping
    <3>1. /\ pricePc' = [pricePc EXCEPT ![w] = "near"]
          /\ UNCHANGED <<priced, trade, savePc, tpc>>
      BY <1>2, <2>3, BlockArrivesDoes DEF storeVars, rowVars, saverVars
    <3>2. \A u \in Workers : pricePc'[u] = IF u = w THEN "near" ELSE pricePc[u]
      BY <3>1 DEF PriceFollows
    <3>3. QED BY <2>1, <3>1, <3>2, LeftInv
  <2>4. QED BY <2>2, <2>3
<1>3. ASSUME NEW w \in Workers, ReadPrice(w) PROVE SaversInv'
  <2>1. /\ pricePc[w] = "near" /\ "trades" \in running'[w]
        /\ pricePc' = [pricePc EXCEPT ![w] = "store"]
        /\ Store!BeginBlock(w, job[w], priced'[w] # 0)
        /\ UNCHANGED <<running, job, swallowed, solPrice>>
        /\ \E p : priced' = [priced EXCEPT ![w] = p]
    BY <1>3, ReadPriceDoes
  <2>2. \A u \in Workers \ {w} : running'[u] = running[u] /\ priced'[u] = priced[u]
    BY <2>1 DEF PriceFollows
  <2>3. (priced'[w] # 0) \in BOOLEAN
    OBVIOUS
  <2>4. QED BY <2>1, <2>2, <2>3, StartsInv
<1>4. ASSUME NEW v \in Store!Savers, Save(v) PROVE SaversInv'
  BY <1>4, SaveInv
<1>5. ASSUME NEW w \in Workers, SaveTradesEnds(w) PROVE SaversInv'
  BY <1>5, SaveTradesEndsInv
<1>6. ASSUME NEW w \in Workers, StoreRow(w) PROVE SaversInv'
  BY <1>6, StoreRowInv
<1>7. CASE RestartAll
  <2>1. \A v \in Store!Savers : /\ savePc'[v] = "idle" /\ tpc'[v] = "idle"
                                /\ running'[v[1]] = {}
    BY <1>7 DEF RestartAll, Restart, Store!Crash, Store!KillSavers, Store!Savers
  <2>2. UNCHANGED <<trade, swallowed, solPrice>> /\ \A w \in Workers : pricePc'[w] = "idle"
    BY <1>7 DEF RestartAll, Restart, Store!Crash, Price!GiveUp, Price!Leave
  <2>3. QED BY <2>1, <2>2 DEF SaversInv, SaversFollow, EndedHasTrades, SavedBeforeRow,
                              RowHasTrades, TradesOrLogged
<1>8. CASE UNCHANGED consumerVars
  BY <1>8, LeftInv
  DEF consumerVars, vars, workerVars, historyVars, priceVars, storeVars, rowVars, saverVars
<1>9. QED BY <1>1, <1>2, <1>3, <1>4, <1>5, <1>6, <1>7, <1>8 DEF ConsumerNext

THEOREM SaversInvariant == ConsumerSpec => []SaversInv
<1>1. ConsumerSpec => []StoreTypeOK
  BY StoreInvariants, PTL DEF StoreTypeOK
<1>2. QED BY <1>1, PriceFollowsInvariant, SaversInitInv, SaversStepInv, PTL DEF ConsumerSpec

\* The price and the store never hold a worker up: when it has fetched its block,
\* or read its price, its goroutines of the last one are gone, and at the insert it
\* has a price exactly if it has a block.  So what the consumer does with them is
\* all that the pipeline does.
THEOREM PartsAreReadyTheorem == ConsumerSpec => []PartsAreReady
<1>1. ASSUME TypeOK, PriceFollows, SaversInv PROVE PartsAreReady
  <2>1. SUFFICES ASSUME NEW w \in Workers
        PROVE  /\ pc[w] = "fetch" => pricePc[w] = "idle"
               /\ pc[w] = "fetch" \/ pricePc[w] = "near" =>
                    Saving[w] = 0 /\ \A v \in Store!SaversOf(w) : tpc[v] = "idle"
               /\ pc[w] = "insert" /\ running[w] = {} =>
                    pricePc[w] = IF verdict[w] = BlockProcessed THEN "store" ELSE "idle"
    BY DEF PartsAreReady
  <2>2. pc[w] = "fetch" => pricePc[w] = "idle"
    BY <1>1 DEF PriceFollows, HasBlock
  <2>3. pricePc[w] # "store" =>
          Saving[w] = 0 /\ \A v \in Store!SaversOf(w) : tpc[v] = "idle"
    BY <1>1 DEF SaversInv, SaversFollow, Saving, Store!SaversOf
  <2>4. pc[w] = "insert" /\ running[w] = {} =>
          pricePc[w] = IF verdict[w] = BlockProcessed THEN "store" ELSE "idle"
    <3>1. pricePc[w] \in {"idle", "near", "store"}
      BY <1>1 DEF PriceFollows
    <3>2. QED BY <1>1, <3>1 DEF PriceFollows, HasBlock
  <2>5. QED BY <2>2, <2>3, <2>4
<1>2. QED BY <1>1, PriceFollowsInvariant, SaversInvariant, PTL

\* A row with a price stands for trades that are in the table, with their pairs and
\* tokens, or for an error that was logged: any number of workers, pairs and blocks,
\* any prices, repeated slots, retries, cancelled contexts, ends of the process.
THEOREM PricedHasTradesTheorem == ConsumerSpec => []PricedHasTrades
<1>1. ASSUME SaversInv, Store!PairHasToken, Store!TradesHavePair
      PROVE  PricedHasTrades
  <2>1. SUFFICES ASSUME NEW s \in Slots, solPrice[s] # 0, s \notin swallowed
                 PROVE  HasTrades(s)
    BY DEF PricedHasTrades
  <2>2. SUFFICES ASSUME NEW p \in PairsOf[s]
                 PROVE  /\ <<s, p>> \in trade
                        /\ Store!HasPair(p) \/ <<s, p>> \in unsaved
                        /\ Store!HasPair(p) => Store!HasToken(TokenOf[p])
    BY DEF HasTrades
  <2>3. p \in Pairs /\ <<s, p>> \in trade
    BY <1>1, <2>1, <2>2, PairsOfBlock DEF SaversInv, RowHasTrades, TradesOrLogged
  <2>4. Store!HasPair(p) \/ <<s, p>> \in unsaved
    BY <1>1, <2>3 DEF Store!TradesHavePair
  <2>5. QED BY <1>1, <2>3, <2>4 DEF Store!PairHasToken
<1>2. QED BY <1>1, SaversInvariant, StoreInvariants, PTL
=============================================================================
