# Verification of the dex_amm consumer

`src/rc_dex/consumer` is a Go service that follows the Solana chain: it hears of new slots on a websocket, fetches the
block of each slot over HTTP, decodes the trades of the PumpSwap AMM, prices them in USD, and keeps trades, pairs,
tokens, pools and token accounts in MySQL (`src/rc_dex/model/solmodel`). This directory holds TLA+ models of that
service and of the clients it decodes with, the TLC runs that check them and TLAPS proofs about them.

## 1. Inventory

| component | state it keeps | operations | interacts with |
|---|---|---|---|
| start-up and shutdown (`consumer.go`, go-zero `ServiceGroup`) | the two channels (`slotChannel`, 50; `errChannel`, 1), one goroutine per service | `main`, `Stop` of every service | all others |
| slot reader (`slot/websocket.go`, `slot/slot.go`) | websocket connection, `maxSlot`, context | `MustConnect`, `ReadSlotMessage`, `Stop` | feeds `slotChannel` |
| recovery (`slot/not_complete.go`) | start slot, the list being walked | `RecoverFailedBlock` | reads `block`, feeds `errChannel` |
| block workers (`block/block.go`, `block/price.go`) | the slot being processed | `GetBlockFromHttp`, `ProcessBlock`, `GetSolBlockInfo`, `Stop` | consume a channel, write every table |
| block table (`blockmodel*.go`, `sol.sql`) | one row per slot | `Insert`, `FindFirstFailBlock`, `FindProcessingSlots`, `FindOneByNearSlot` | workers, recovery |
| SOL price (`price.go`, `util.go`) | none (the previous row of `block`) | `GetBlockSolPrice`, averaging | inside `ProcessBlock` |
| transaction decoding (`block.go`, `pump_amm.go`, `pump.go`) | token account map of the block | `DecodeTx`, `FillTokenAccountMap`, `DecodePumpFunAMMInstruction` | inside `ProcessBlock` |
| pair store (`pair.go`, `db.go`, `pairmodel*.go`) | one row per (chain, pair) | `SavePairInfo`, `SavePair` | one goroutine per pair and block |
| token store (`token.go`, `db.go`, `tokenmodel*.go`) | one row per (chain, token) | `SaveToken`, `UpdateTokenMints`, `UpdateTokenBurns` | the goroutines of several pairs and workers |
| trade, pool and token account stores (`db.go`) | rows with unique keys | `BatchSaveTrade`, `SavePumpSwapPoolInfo`, `SaveTokenAccounts` | `ProcessBlock` |
| RPC clients (`svc/servicecontext.go`) | round-robin index under a lock | `GetSolClient` | workers |
| generated IDL clients (`pkg/pumpfun/generated/pump_amm`, `.../pump`, `generated/token_2022`; `09_swap/.../pump_amm`) | none; a builder holds pointers to its parameters | parse an event or account, build an instruction | the decoder parses logs with one of them |
| the rest: `gateway`, `hello_server`, the script of `09_swap`, `11_go-zero`, goctl templates | - | - | not part of the consumer |

Hard behaviour: two bounded channels with blocking sends that ignore the context; goroutines that end for good; rows
that are inserted once and never updated; a websocket that breaks at any point and is replaced without a look at the
context; one token account map for all transactions of a block; events found by their type in logs that the node may
cut, written by a program newer than the parser; whole-row read-modify-write of pairs and tokens by several goroutines;
errors that are only logged; shutdown, panics and restarts between any two steps. PROJECT.json lists each hazard at its
line.

What makes each component correct: the pipeline loses no slot it heard of without a cause, keeps the first row of a
slot, retries failed slots only, and never blocks for good; the block table keeps one row per slot; a price comes from
the block's own swaps or from an older block; tokens and pairs are created once and keep their identity under concurrent
whole-row writes, no pair is without its token and no trade without its pair; one subscribed connection is there again
and again; the trades, pool rows and token accounts of a block are those the chain executed; a parser accepts only what
was written for it; the algorithms compute what their names say.

## 2. Modules

| module | models | used by |
|---|---|---|
| `BlockTable` | the table `block`: insert under the unique key, the three queries | `BlockPipeline`, `SolPrice`, `SlotLedger` |
| `SlotLedger` | abstract: what is promised about a slot (owed, settled once, given up by a fault) | refined by `BlockPipeline` |
| `BlockPipeline` | reader, recovery, workers, both channels, contexts, restart | `BlockPipelineProofs`, `MCBlockPipeline`, `Consumer` |
| `TokenStore` | the table `token` and `SaveToken` of any set of goroutines | extended and refined by `PairStore` |
| `PairStore` | `SaveTrades`: blocks, pairs, `SavePair`, trade batches | `PairStoreProofs`, `MCPairStore`, `Consumer` |
| `Consumer` | the composition: the workers of `BlockPipeline` price their blocks by the steps of `SolPrice` and save them by those of `PairStore` | `ConsumerProofs`, `MCConsumer` |
| `SolPrice` | the price a block takes over from an older row | `SolPriceProofs`, `MCData`, `Consumer` |
| `PriceMath` | transfer scan, choice of instructions, trimmed mean | `SolPriceProofs`, `MCData`, a run of its own |
| `SlotFeed` | the reader's websocket: dial, subscribe, read, reconnect, `Stop` | `SlotFeedProofs`, `MCSlotFeed` |
| `TokenAccounts` | `FillTokenAccountMap`, the rows of `SaveTokenAccounts` | `TradeDecode`, `BlockDecodeProofs` |
| `TradeDecode` | `DecodeTx`, the PumpSwap decoders, the filter of `SaveTrades` | `BlockDecode` |
| `BlockDecode` | the chain that makes a block, `ProcessBlock` over it, the pool rows | `BlockDecodeProofs`, `BlockTradesProofs`, `MCBlockDecode` |
| `Layouts` | what a struct's fields and an instruction's accounts are written in | the seven modules below |
| `Wire` | Borsh, and the shape of the generated parsers and builders | `IdlWire` and the clients with parsers |
| `PumpAmmIdl`, `PumpIdl`, `Token2022Idl`, `SwapIdl` | the layouts and account lists of the four clients | `IdlWire`, `Token2022Builder` |
| `IdlWire` | a message from the program that writes it to every parser that may get it | `MCData` |
| `Token2022Builder` | a builder, its setters, its copies | `Token2022BuilderProofs`, `MCData` |

`MCData` puts four modules that share nothing into one run (`SolPrice`, `PriceMath`, `IdlWire`, `Token2022Builder`), and
`MCSlotFeed` two (`SlotFeed`, `PairStore`): a behaviour is one of one of them, chosen by its first step.

### BlockPipeline

One action is one step of one goroutine between two points at which another can run. State and code:

| variables | code |
|---|---|
| `block`, `saved` | the table `block`; which of the two goroutines of `ProcessBlock` (`trades`: SaveTrades and SaveTokenAccounts, `pools`: SavePumpSwapPoolInfo) wrote a slot |
| `realtimeChannel`, `errChannel` | `slotChannel` and `errChannel` of `main` |
| `readerPc`, `readerSlot` | the reader goroutine: connecting, in `ReadMessage`, in the channel send, gone |
| `recPc`, `recFrom`, `recTodo`, `recSlot` | `RecoverFailedBlock`: its start slot, the list of the last query, the slot it pushes |
| `pc`, `job`, `tries`, `verdict`, `running` | a `BlockService`: select, fetching, writing; the slot, the retries of `GetSolBlockInfo`, `block.Status`, the goroutines of the routine group that still run |
| `slotCancelled`, `cancelled` | the contexts of the slot service and of each worker |
| `announced`, `dropped`, `swallowed` | history only: slots heard, slots given up by a fault, slots one of whose write errors was only logged |

`Connect`, `ReadSlot`, `SendSlot`, `ReaderStops` are the reader; `RecoveryStarts`, `RecoveryChecks`, `RecoveryPicks`,
`RecoveryPushes`, `RecoveryStops` the recovery; `Receive`, `FetchAgain`, `Fetched`, `SaveEnds`, `StoreBlock`, `Panic`,
`Exit` a worker; `StopSlotService`, `StopWorker`, `Restart` the process. `Faults` chooses which of panic, refused
insert, failed write, failed query, shutdown and kill a run has.

### TokenStore and PairStore

One saver is one goroutine of `SaveTrades`, named by its worker and its pair. A token's row is the slot it was first
seen in, its program, and whether supply and symbol are filled; a pair's row is the slot whose trade gave the columns
that only the insert writes and the one whose trade gave the others. `FindToken`, `CompleteToken`, `InsertToken` and
`RefindToken` are the code of `SaveToken` between two accesses to the table; `MetadataHangs` is the request for the
token's metadata, at its own address and without a timeout, that never returns (`sol.go:255`); `FindPair`, `UpdatePair`,
`InsertPair` and `RefindPair` the same of `SavePair`; `TokenFailed` is the early return of `SavePairInfo`,
`SaveTradeRows` is `BatchSaveTrade`; `BeginBlock` and `EndBlock` are the two ends of `SaveTrades`. Without a SOL price
the trades of a block have the price 0 in USD and its filter drops them all (`ValidPairs`). `unsaved` is history: the
batches for which `SavePairInfo` returned an error. A batch that the database refuses ends its goroutine with an error
(`failed`) and leaves the rows of the pair and the token where they are; `Crash` ends the process in the middle of
everything: the goroutines are gone, the rows stay. `TokenStore` is also the abstract view of `PairStore`: its
`TokenSpec` lets any set of savers start, end and die at any time (`KillSavers`), and `PairStore` implements it with the
identity as refinement mapping.

### Consumer

`BlockPipeline` knows of a block only that it is fetched and that its two writes end well or not; in `SolPrice` and
`PairStore` a worker takes any block at any time. `Consumer` is the three together: `INSTANCE SolPrice` with `Pricing`
for its `job`, the block of a worker that has one, and `INSTANCE PairStore` with `Saving`, the block of a worker whose
routine group still runs `trades` and whose price is known. `Apart` is everything of the pipeline in which neither the
price nor `SaveTrades` has a part. `BlockArrives` is the end of a successful fetch: with a swap of its own the block has
its price and `SaveTrades` starts in the same step; otherwise `ReadPrice`, the query of the table, comes between, and
there another worker can insert the row that the price is taken from. `Save` is a step of the goroutine of one pair,
`SaveTradesEnds` the return of `group.Wait` and of the goroutine around it, `StoreRow` the insert of the row with its
price, or its refusal; `RestartAll` is the end of the process with all its goroutines. A goroutine whose worker is
cancelled has a cancelled context, with which the database refuses every write. The end of `trades` is reported as
successful only if no pair failed; it may fail for other reasons, since `SaveTokenAccounts` is in the same goroutine.
The pipeline has both writes running from the end of the fetch; neither may end before the price is known. A composition
could be vacuous because one part forbids what another does: that the price and the store never keep a worker from its
next step is `PartsAreReady`.

### SolPrice and PriceMath

In `SolPrice` a price is named by the slot whose swaps gave it. A worker takes any slot at any time, so all orders in
which workers store blocks, and repeated slots, are behaviours; `GiveUp` is a worker that ends without a row, with all
that it held. `PriceMath` evaluates the code on one input per behaviour and the properties compare the result with a
definition that does not follow the loops: prices are pairs of amounts and means are a sum and a count, so that no
division is rounded. `AverageIsTrimmedMean` compares two means by cross multiplication. Amounts that divide by zero are
left out.

### SlotFeed

`BlockPipeline` has the reader on a connection that works; `SlotFeed` has the connection. `StartFeed`, `Dial`,
`Subscribe` and `SubscribeFails` are `SlotWsServiceStart` and `MustConnect`; `ReadNewSlot`, `SlotSent`, `ReadOther`,
`ReadEnded`, `ReadFails` and `ReadPanics` are `ReadSlotMessage` and the loop around it; `Cancel` and `CloseConn` are the
two steps of `Stop`, between which the reader may dial again; `Break` is the network. `link` is the state of every
connection ever made (a dead one stands for a new one), `conn` is `s.Conn`. An error is "ended" when its text has
`close` or `broken pipe` in it, which is what the code looks for, "both" when it has the two (the reason in a close
frame is any text), and "reset" otherwise. For "both" the code calls `MustConnect` twice (`websocket.go:83` and `:86`):
`again` says that the second call is still to come, and `spare`, which is history, remembers the connections of the
first, which nobody closes or reads. So `Links` bounds the connections that are alive at once, and a break of kind
"both" needs one to spare. That a read after an error fails again, and that the library panics in the end, is how
gorilla/websocket is used here; it is not in the repository.

### TokenAccounts, TradeDecode and BlockDecode

The first half of `BlockDecode` is the chain: a ledger of token accounts, instructions that swap, create a pool, open,
close, fill or give away an account (`Swap`, `CreatePool`, `Open`, `Close`, `Move`, `SetOwner`, `Call`), and `EndTx`,
which fails the transaction or not and reports it the way a node does, with a prefix of its logs. The second half is
`ProcessBlock` over the finished block: `FillTx` for every transaction, then `DecodeNextTx` for every transaction, then
`SaveTokenAccounts` in one goroutine and `FindPool`, `InsertPool`, `PoolQueryFails` in the other, with another worker
that inserts a row for the same pool in between, whatever its block made of it (`OtherRow`). So the properties compare
what is recorded with what was executed, not with what the decoder sees, and `RowsAreTheChains` the rows in the end.
`AccountsAreTheChains`, `RowsAreTheChains` and `SwapIsSavedOrExcused` list in their text every case in which the two
differ (`Renewed`, `Dropped`, `Repeated`, `Lost`, `Remade`, `Odd`, and an account that only an instruction told of); a
case that is not listed fails the run. `TokenAccounts` and `TradeDecode` are operators only. An address is a model
value, an amount a number of `Width` bits whose conversions to int64 are those of the code (`ToSigned`, `ParseInt`).
`Taken` is the filter that drops what is nil and keeps the order; it is written with the position of each item because
the prover knows no definition of `SelectSeq`.

### The IDL modules

`Wire` writes and reads values byte by byte, but a byte is known by the field it belongs to, so a value read from the
wrong place is always another value. The four client modules hold nothing but layouts in the order in which
`MarshalWithEncoder` and `UnmarshalWithDecoder` take the fields, and the accounts of each instruction in their order.
`IdlWire` lets each program write each of its events and accounts, cuts or lengthens the bytes, and gives them to all
parsers that could meet them, `parsePumpAmmEvents` among them; and it builds each instruction and lets the indexer find
its accounts by position. `Token2022Builder` has the pointers of a builder explicitly (`heap`), because what is shared
between a builder and what it built is the question; for that a value is a name. Nothing in the repository calls these
builders: the module says what the generated code promises to a caller that keeps a builder.

## 3. Runs

| run | instance | states | shows |
|---|---|---|---|
| `pipeline_faults` | 1 slot, 1 real and 1 failed worker, capacities 1, 1 retry, every fault | 1.7M | types and capacities; nothing vanishes without a cause; a processed row follows its writes; the first row stays; only failed slots are retried; the pipeline implements `SlotLedger` |
| `pipeline_live` | 1 slot, shutdown at any moment, fair | 115k | slots heard are stored; the recovery never stays blocked; reader and workers end when stopped |
| `pair_store` | 2 workers, 2 slots, 1 pair, blocks with and without a SOL price, failing RPC calls, reads and writes, the process ends at any step | 1.9M | one row per token and pair whose identity stays; pair has token; trades have pair; no deadlock |
| `consumer` | 1 worker, a block that swaps SOL and a later one of 1 pair that does not, refused trades, failed writes, the process ends at any step | 1.5M | a row with a price has its trades, pairs and tokens or an error was logged; neither the price nor a goroutine of the last block keeps a worker from its next step |
| `pair_live` | 1 worker, a block with 2 pairs of one token, every fault; or 3 connections, 2 subscribe attempts, 2 failed reads; fair | 202k | the save of a block ends unless the process does or a metadata server never answers; `PairStore` implements `TokenStore`; only `s.Conn` is alive but for the extra connection of an error with both texts, a broken one is replaced, a stopped reader ends or stays in its send |
| `data` | 4 slots of which 2 swap, 2 workers, failing queries; or lists of up to 5 of 4 prices, up to 4 instructions, transactions of up to 2 instructions; or all events, accounts and instructions of four clients, every cut; or one Token-2022 builder with 3 set and 2 build calls | 280k | no price of a later block; every price is traceable; the mean drops one lowest and one highest; the scan finds the first swap; a parser accepts only what was written for it, and all of it; accounts are found at their positions; what was built keeps its parameters |
| `block_decode` | 2 pools of 1 token pair, 1 user, a third token, 2 transactions with 3 steps between them, 3-bit integers, the third token known or not | 2.8M | accounts, trades, pool rows and account rows are those of the chain, with the exceptions that the properties name |
| `retry_row`, `failed_retried`, `pair_older`, `price_own`, `hash_unique` | the smallest instance | - | the findings of section 6 |

Why these bounds are enough to show something. One slot that the feed repeats without end gives every race between
workers for the same row, and a channel of capacity 1 is full with one element; what needs a second slot (the order of
two slots in a channel, an element that waits behind another) is covered by the proofs of section 5, which are for any
set of slots. Two workers are the smallest number that race, and a third finds only what the second left: a row that is
there or is not. Two slots are what "older" and "newer" need in `pair_store`. In `consumer` one worker gets two slots in
any order and again and again, so the later block finds a price or none, and keeps its trades in one attempt and drops
them in the next; failed writes, a refused insert and the end of the process fall between. `MCView` leaves out two
histories that no guard and neither invariant reads. Races of several workers for one row are left to the proofs, which
are for any number of workers, and to `pipeline_faults` and `pair_store`; two real workers on these two slots, with the
end of the process and no failed writes, were run once (2.0M states up to symmetry, too long to keep beside the others).
In `data` four slots allow a priced row, a row without a price, a parent that is missing and a block above; three prices
are the smallest list that is trimmed, and five have ties at both ends; four instructions contain a swap, something
before and something after it. In `block_decode` two transactions give every order of an account's states across a
transaction boundary, and three steps give a swap after an account was opened in the transaction before, two swaps in
one transaction and a swap at each pool; the user's account of the base token begins open in one initial state and
closed in the other; 5 of 3 bits is above the sign bit. For more transactions, instructions and pools all six properties
of the run are proved. In `pair_live` three connections are `s.Conn`, one that an error with both texts left behind, and
one to dial; the proof is for any number. The bounds of 2 stand for 10 and 1000: one below the last attempt and the
last. The clients in `data` are complete but for the lists, which have 0 to 2 members: the layouts are constants and
every message is cut at every byte. Retries are bounded by `MaxRetry` in the code too (10 there). `MaxTxs`, `MaxOps`,
`MaxSets`, `MaxBuilt`, `MaxNums`, `MaxScan` and `MaxLength` bound inputs; no other counter is bounded.

`pipeline_faults`, `pipeline_live`, `pair_live`, `data`, `block_decode`, `consumer`, `price_own` and `hash_unique` turn
the deadlock check off: a stopped process or reader stands still, a saved block and an evaluated input are the end.

## 4. Fairness

`FairSpec` assumes that a goroutine which can take a step does (the Go scheduler, and database or RPC calls that
return): weak fairness of the reader's connect, send and exit, of the recovery, and of each worker. `Exit` has strong
fairness because `select` chooses at random among its ready cases, so a cancelled context that is ready again and again
is taken. Nothing is assumed of the feed, of what the node answers, or of any fault; a stop of the process excuses
`AnnouncedIsStored` and `RecoveryUnblocks`, since a stopped worker leaves what is in its channel. One call of a save
need not return, the `http.Get` for the metadata of a token (`sol.go:255`), which has neither a timeout nor a context.
`PairStore` has that case, and `BlockEnds` excuses it. The pipeline assumes of `Work` that it does not happen:
`AnnouncedIsStored`, `RecoveryUnblocks` and `WorkersExit` hold as far as the metadata servers answer in the end.
`FairPairSpec` assumes the same of each saver and of `group.Wait`.

`FeedFairness` assumes the same of the reader's own steps, and three things of the rest of the world: a dial succeeds
some time, a connection that could again and again be subscribed on before it breaks is (strong fairness of `Subscribe`
on an open connection), and the workers make room in the channel until `Stop` (a shutdown stops them too, and the send
looks at no context, so nothing is assumed of the send after that). Without the second a node that drops every
connection before the request keeps the reader dialling for ever, as the code would. Nothing is assumed of `Break`, of
messages, or that a stop comes.

## 5. Proofs

All theorems hold for every value of the constants that satisfies the named assumptions: slots are positive naturals,
capacities are positive, real and failed workers are different, every pair has a token, every parent is below its slot.

`BlockPipelineProofs`. `TypeOK` is inductive as it stands. `FirstRowStays` follows from what `Insert` does to a row that
is there. `RetriedSlotsFailed` is inductive with `TypeOK`: a slot enters the recovery path only from a query for failed
rows, and a failed row stays failed. `ProcessedWasSaved` is not: a worker that has ended one of its two writes says
nothing about the table yet, so `SavedInv` adds `EndedWasSaved`, which ties the goroutines that ended to what is saved
or logged. `NoSlotVanishes` needs that each step keeps a slot in flight, stores it or drops it (`InFlightStep`), one
case per action. `KeepsLedgerTheorem` says that every step of the pipeline is a step of `SlotLedger` or a stutter: the
lemmas `ReaderLedger`, `RecoveryLedger`, `ReceiveLedger` and `WorkerLedger` name the step of the ledger for each action.

`PairStoreProofs`. `RowsKept` and `ReturnedTokenIsStored` rest on `TokenInv`: a saver between its read and its whole-row
write holds a copy whose slot and program are still those of the table (`CopyAgrees`), because no step changes them; and
a saver that was told "duplicate" finds a row (`DuplicateIsThere`). That every step of `PairStore` is a step of
`TokenStore` or a stutter is `KeepsTokenStoreTheorem`, by which `TokenInv` holds of `PairStore` too. `PairInv` says the
same of a pair's copy (`PairCopyAgrees`) and that a saver past `SaveToken` has its token stored (`KnownPairHasToken`).
`TradesInv` adds that a saver which comes to `BatchSaveTrade` has its pair stored or reported (`SavedOrReported`).

`ConsumerProofs`. Every step of `Consumer` is a step of `BlockPipeline` or a stutter (`ConsumerIsPipeline`), one of
`SolPrice` under the mapping of `Pricing` (`KeepsSolPriceTheorem`) and one of `PairStore` under that of `Saving`
(`KeepsPairStoreTheorem`), so every theorem about any of the three holds of the whole. The last two need that a step one
of them does not see leaves its jobs alone: a worker is one of `SolPrice` exactly while it has a block, and one that
still asks for its price has not ended `trades` (`PriceFollows`, inductive with `TypeOK`). `SolPriceProofs` and
`PairStoreProofs` are instantiated with the mappings and their theorems carried over from there; `ConsumerPricesTheorem`
says so of the prices. `PricedHasTrades` relates two tables that no transaction joins, and is not inductive; `SaversInv`
is: the goroutines of a worker are those of the pairs its block and its price leave (`SaversFollow`); one that ended
without an error has its trades in the table (`EndedHasTrades`); a worker whose `trades` are done and that holds a price
has all trades of its block in the table, or an error was logged (`SavedBeforeRow`); and so has every row with a price
(`RowHasTrades`), since only the insert of a new row writes a price and no step deletes a trade. `TradesHavePair` and
`PairHasToken` of `PairStore` do the rest. Assumed of the constants besides what the parts assume: a write that the
store may refuse is a failed save of the pipeline, and the process may end in both or in neither.

`SolPriceProofs`. `SolPriceInv` adds `HeldPrice`, what a worker holds between reading a price and storing it, and
`PriceNeedsRow`, that a slot without a row has no price; without the latter an insert could change the price of a slot
that other rows have already taken over.

`SlotFeedProofs`. `OneFeed` is not inductive: a dial could meet a living connection. `FeedInv` adds that what is alive
is `s.Conn` or a spare one, and that nothing but spare ones is alive while the reader dials (`LiveIsConn`). Every way to
a dial is behind an error of `s.Conn` (`FailedIsDead`), save the second of the two calls for one error, and there the
connection left behind becomes a spare one in the same step; and a connection is asked for the feed once (`AskedOnce`).

`BlockDecodeProofs` begins with one lemma per pass of `FillTokenAccountMap`; `FilledMapTheorem` joins them, for any map
and any transaction. The rest carries it through a block of any length: `ChainInv` says that an account which the
running transaction did not touch is as it was, and that the last balance reported of an account is what the ledger had
when the last transaction ended (`Reported`); `FilledInv` says that after m transactions the map has each account as the
last of the m that reported it (`FilledTo`). Together they give `BalancesTheorem`, for any chain, failed transactions
included. `AccountsTheorem` needs more: `OpensInv`, that an account which was closed before a transaction and is open
after it is among those that the transaction opens, with its token; and `EntriesInv`, that after m transactions the
token and owner of each entry are among the things the transactions told of that account (`Traced`), that the decimals
are those of the entry's token when all that was told agrees on the token and no opening was undone (`Decided`), and
that the entry of an account which was not renewed is what its last transaction left (`FollowedTo`). Assumed besides
types: an account is opened at most once in a transaction, by the model of the chain.

`BlockTradesProofs` goes from the chain to the trades. `ExecInv`: the events of a transaction come from different
instructions of it, each of its kind and pool, and every swap and new pool wrote one; what the node kept is a prefix.
`TradesInv`: the trades so far come from different instructions, each is what `DecodeInstruction` gives for its
instruction, and every instruction that yields a trade gave one (`Collected`). The decoder takes the first event of its
kind, which one of these instructions wrote, and that is `SavedWasExecutedTheorem`. `PoolsInv` says what the pool
goroutine has done with the trades before the one it is at, from which `PoolRowTheorem` follows: a row is what another
worker wrote, or the pool's own, or that of a pool which a transaction of the block swaps at in the same way (`Mixed`),
since the second such swap is recorded with the event of the first and its own accounts. `SwapTheorem` is the converse,
from what was executed to what is saved. It needs the tokens and decimals of a pool's accounts in the map, and for them
`VaultsInv`, that everything told of a pool's accounts has the pool's tokens and that a transaction with a swap reports
them as open (nobody but the pool opens them and their addresses are its own, which `BlockAssumption` says);
`PresentInv`, that what a transaction reports is in the map; and `TokensKnown`, by which `Decided` applies to them
unless their opening was undone (`Remade`). That exactly one trade tells the swap is what `~Repeated` is for.
`RowsTheorem` carries the entries to the rows: `RowsMade` says that the rows are those of the final map for some set of
tokens, and `RowsFollow` that this map, by `EntriesInv` and `PresentInv`, has the accounts as the chain left them.

`SolPriceProofs` has the loops of `PriceMath` too, which are recursive functions. That a recursive function exists and
what it is takes an induction, and the induction here is over a given set of numbers: `SetInduction`, from the least
element of what is missing in the set. With it `Recursion` gives a loop its course, and `SumCourse` and `ScanEnds` say
that the model's functions are that course. `MeanTheorem`: a sum without two positions misses exactly what stands there
(`SumWithout`); one position is both the lowest and the highest only if all values are equal, and then one value is left
out but the mean is the same (`SumOfEquals`). `FirstSwapTheorem`: until the first swap the scan remembers the last
instruction only, and from then on that swap (`Scanned`), which is what one iteration keeps (`ScanStep`).

`Token2022BuilderProofs`. `BuiltKeepsParams` needs that a setter never writes where a pointer of a built instruction
points: `BuilderInv` says that all pointers, those of what was built and those of the builder, are nil or addresses that
are in use, and a setter takes the next one. Its start is a fact of the 30 layouts, that the parameters of each are a
sequence (`ParamsAreSequences`).

Only model-checked: everything under fairness (`AnnouncedIsStored`, `RecoveryUnblocks`, `ReaderExits`, `WorkersExit`,
`BlockEnds`, `FeedResumes`, `StoppedFeedEnds`), which the prover does not reach; and what is read back from bytes
(`NothingIsMisread`, `WholeIsAccepted`, `InfoNamesItsAccounts`), because `Wire` is recursive over types.
The layouts of these three are constants, so a proof would add longer lists and nothing else to the run.

## 6. Where the code and its words disagree

1. `retry_row`: the outcome of a retried block is stored by a plain insert, which the row of the first attempt refuses;
   the row says failed for ever (`block.go:296`).
2. `failed_retried`: the recovery ends for good at its first check of a table without failed rows (`not_complete.go:54`).
3. `pair_older`: an older block overwrites the figures of a newer one; the guard that its comment speaks of is on a
   branch where the slots are always equal (`pair.go:153`, `:180`).
4. `price_own`: inner instructions are looked up by the program's account index instead of the instruction's number
   (`price.go:101`).
5. `hash_unique`: all trades of one transaction have one `hash_id`, on which the trade table has a unique key
   (`pump_amm.go:352`).

Seen in the code while modelling, without a run of their own.

Pipeline and stores. The status says processed before any write, and a failed write is only logged (`block.go:162`; the
state `swallowed` in which `ProcessedWasSaved` excuses a row); the stale whole-row write of a token can empty a column
that another goroutine filled (`token.go:187`, a step of `CompleteToken`); an RPC error when a token is created stores
the wrong program for good (`token.go:216`); the error of `SavePairInfo` is overwritten (`db.go:113`, the state in which
`TradesHavePair` needs `unsaved`); a trade that loses the race to create its pair keeps its own market cap
(`pair.go:137`); a block without a swap takes over the price 0 of the row below it although older rows have a price
(`price.go:128`); a block without a price keeps none of its trades (`db.go:77`) and its row, processed with the price 0,
is never repaired, since the recovery looks for failed rows and a second insert is refused (which is why
`PricedHasTrades` speaks of rows with a price). `SaveToken` asks for the metadata of a token at the address that the
token gives, by an `http.Get` without a timeout (`sol.go:255`, from `:168` and `:307`): a server that accepts and never
answers keeps the goroutine, with it `group.Wait` (`db.go:104`) and the worker, for ever (`MetadataHangs`, the exception
in `BlockEnds`).

Feed. With the real workers gone, a reader that holds a slot for a full channel stays there, stopped or not
(`websocket.go:107`, which is why `ReaderExits` asks for a running worker and `StoppedFeedEnds` allows the reader to
stay in the send). The close in `Stop` is a read error like any other, so the reader dials and subscribes once more
before it looks at the context, and nobody closes that connection (`StoppedFeedEnds` says the reader ends, not that its
connection does). A connection that fails with another text than `close` or `broken pipe` is replaced only because the
library panics after its last failed read (`ReadPanics`); one whose text has both (a close reason that speaks of a
broken pipe) is replaced twice, and the first replacement stays subscribed, neither read nor closed
(`websocket.go:83-88`; the exception in `OneFeed`, as `spare`). Slots announced while there is no connection are never
heard of, and the recovery looks for failed rows, not for missing ones.

Decoding. A transaction loses all its trades when one top-level instruction is of another program, a compute budget
instruction for example (`Dropped`); so does one with `buy_exact_quote_in`, which the decoder does not know. A second
buy, or a second sell, of a transaction is recorded as a copy of the first (`Repeated`), and if it was at another pool,
the copy names the first pool with the accounts of the second, which the first pool's row gets when its own insert did
not come about (`SwapBoth`, the exception in `PoolRowIsThePools`). An account that was opened by an instruction that
failed or was undone stays in the map as open, and is written as such (the accounts which no balance told of, in
`RowsAreTheChains`), and one opened again keeps its old owner (`Renewed`); its decimals may stay 0 (`FillDecimals`). So
the trades at a pool that was created once in a transaction that failed and then again are recorded with decimals 0,
although the balances of the block have them (`Remade`, `block.go:441`); the first version of `SwapIsSavedOrExcused` did
not know this case, and the proof of it was how it was found. An amount from 2^63 on is negative, and `ParseInt` stops
such a balance at the largest int64 (`Odd`).

Clients. Builders of instructions without parameters give no data, not even the discriminator. The built instructions of
Token-2022 share their accounts with the builder, so a later setter changes them (the note at `BuiltKeepsParams`).
`ExtendAccountEvent` has one discriminator and two layouts in the two programs, so the bytes do not tell them apart;
neither does the indexer need to.

## 7. What is not modelled

Floating-point arithmetic: prices in USD are present or not, and a transfer of 0 lamports, whose price is an infinity
that passes `price > 0` (`price.go:181`), is left out of the inputs. Malformed transactions, whose indices are out of
range. `UpdateTokenMints` and `UpdateTokenBurns`, which never get a trade because no decoder makes one; the update of a
pair behind `trade.Slot > pairAtDB.Slot`, which is unreachable. The round robin of RPC clients; configuration, the gRPC
server and the programs beside the consumer; the text printers of the Token-2022 client and the JSON the clients were
generated from. `BatchInsertTrades`, `BatchInsertTokenAccounts` and `pkg/constrants` are called but have no body in the
repository; a call is one write that succeeds or fails, and what it does with a repeated key is not known. Slots keep no
width: they are uint64 in the code and the one conversion to int64 (`not_complete.go:51`) gives back the intended
negative number.

## 8. Plan

1. `BlockDecode` in the place of the block that `Consumer` saves, so that a processed row is related to what the chain
   executed; and `SlotFeed` in the place of the reader, so that a slot announced while the connection is down is a fault
   of its own in `SlotLedger`.
2. Theorems: what the compositions of 1 promise, and the safety half of the liveness properties as invariants (who a
   blocked goroutine waits for, so that no circle of them can wait).
3. The price of a block from its transactions, by joining `PriceMath`'s choice of instructions with the account map of
   `TokenAccounts`, whose entries say who the owners of a transfer are.
