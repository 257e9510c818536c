----------------------------- MODULE PairStore ------------------------------
(***************************************************************************)
(* SaveTrades: how a block's trades reach the tables `token`, `pair` and   *)
(* `trade`.  A worker starts one goroutine for each pair of its block and  *)
(* waits for all of them; each runs BatchSaveByTrade, which is SaveToken   *)
(* (TokenStore), SavePair and BatchSaveTrade in that order.  Two workers   *)
(* hold blocks of the same pair at the same time: neighbouring slots, a    *)
(* slot the feed repeats, or a slot that is processed again.               *)
(*                                                                         *)
(* A pair's row is written whole, from the last trade of the batch, so a   *)
(* trade stands for the slot of its block: `created` is the trade that     *)
(* gave the columns only the insert writes (MktCap, BlockNum, the pool's   *)
(* initial amounts, the Pump columns), `current` the one that gave those   *)
(* every save writes (Slot, prices, amounts, Fdv, Liquidity, BlockTime).   *)
(* The part of SavePair after the insert, the call of UpdatePairDBPoint    *)
(* with it, is not in the model: it runs when trade.Slot > pairAtDB.Slot,  *)
(* and the row just inserted has Slot = trade.Slot.                        *)
(***************************************************************************)
EXTENDS TokenStore

CONSTANT PairsOf   \* the pairs of which a block holds a valid buy or sell if it has a price

ASSUME PairsOfAssumption == PairsOf \in [Slots -> SUBSET Pairs]

VARIABLES
  pair,      \* the table `pair`
  trade,     \* the batches of `trade` rows, <<slot, pair>>, that were inserted
  job,       \* the slot of the block a worker saves, 0 when it saves none
  pc,        \* where a saver is in BatchSaveByTrade
  pairAtDB,  \* the row the saver read
  unsaved    \* history: the batches for which SavePairInfo returned an error

pairVars == <<pair, trade, job, pc, pairAtDB, unsaved>>
storeVars == <<tokenVars, pairVars>>

-----------------------------------------------------------------------------
PairRows == [created : Slots, current : Slots]
NoPair   == [created |-> 0, current |-> 0]
HasPair(p) == pair[p] # NoPair

PairAt(v) == v[2]
SlotAt(v) == job[v[1]]
SaversOf(w) == {v \in Savers : v[1] = w}

PairInit ==
  /\ TokenInit
  /\ pair = [p \in Pairs |-> NoPair] /\ trade = {}
  /\ job = [w \in Workers |-> 0]
  /\ pc = [v \in Savers |-> "idle"]
  /\ pairAtDB = [v \in Savers |-> NoPair]
  /\ unsaved = {}

\* SavePairInfo returns and BatchSaveTrade is next, whatever it returned.
PairSaved(v, failed) ==
  /\ pc' = [pc EXCEPT ![v] = "trades"]
  /\ unsaved' = IF failed THEN unsaved \cup {<<SlotAt(v), PairAt(v)>>} ELSE unsaved

-----------------------------------------------------------------------------
\* The pairs whose trades SaveTrades keeps.  A trade is valued in USD with the
\* SOL price of its block; without one its price is 0 and it is dropped.
ValidPairs(s, priced) == IF priced THEN PairsOf[s] ELSE {}

\* Mutant of BeginBlock: the worker takes a block before the last is saved.
BeginBlockEarly(w, s, priced) ==
  /\ LET V == {v \in SaversOf(w) : PairAt(v) \in ValidPairs(s, priced)} IN
       /\ tpc'   = [v \in Savers |-> IF v \in V THEN "find" ELSE tpc[v]]
       /\ tslot' = [v \in Savers |-> IF v \in V THEN s ELSE tslot[v]]
       /\ pc' = [v \in Savers |-> IF v \in V THEN "token" ELSE pc[v]]
  /\ job' = [job EXCEPT ![w] = s]
  /\ UNCHANGED <<token, tokenDB, pair, trade, pairAtDB, unsaved>>

\* SaveTrades: a worker begins to save a block, of any slot and at any time.
\* Pairs without a valid trade have a goroutine that does nothing.
BeginBlock(w, s, priced) ==
  /\ job[w] = 0 /\ job' = [job EXCEPT ![w] = s]
  /\ LET V == {v \in SaversOf(w) : PairAt(v) \in ValidPairs(s, priced)} IN
       /\ StartSavers(V, s)
       /\ pc' = [v \in Savers |-> IF v \in V THEN "token" ELSE pc[v]]
  /\ UNCHANGED <<pair, trade, pairAtDB, unsaved>>

\* SavePairInfo calls SaveToken.
CallSaveToken(v) ==
  /\ pc[v] = "token" /\ SaveToken(v)
  /\ UNCHANGED pairVars

\* SaveToken returned no token: the pair is not looked at.
TokenFailed(v) ==
  /\ pc[v] = "token" /\ tpc[v] = "ended" /\ tokenDB[v] = NoRow
  /\ PairSaved(v, TRUE)
  /\ UNCHANGED <<tokenVars, pair, trade, job, pairAtDB>>

\* SavePair's FindOneByChainIdAddress, and the switch on what it returned.
PairFound(v) ==
  \/ /\ HasPair(PairAt(v))
     /\ pairAtDB' = [pairAtDB EXCEPT ![v] = pair[PairAt(v)]]
     /\ pc' = [pc EXCEPT ![v] = "update"] /\ UNCHANGED unsaved
  \/ /\ ~HasPair(PairAt(v))
     /\ pc' = [pc EXCEPT ![v] = "insert"] /\ UNCHANGED <<pairAtDB, unsaved>>
  \/ "find" \in StoreFaults /\ PairSaved(v, TRUE) /\ UNCHANGED pairAtDB

\* Mutant of FindPair: the result of SaveToken is not looked at.
FindPairAnyway(v) ==
  /\ pc[v] = "token" /\ tpc[v] = "ended"
  /\ PairFound(v)
  /\ UNCHANGED <<tokenVars, pair, trade, job>>

FindPair(v) ==
  /\ pc[v] = "token" /\ tpc[v] = "ended" /\ tokenDB[v] # NoRow
  /\ PairFound(v)
  /\ UNCHANGED <<tokenVars, pair, trade, job>>

\* The pair is known: its current columns are overwritten with this trade's.
UpdatePair(v) ==
  /\ pc[v] = "update"
  /\ \/ /\ pair' = [pair EXCEPT ![PairAt(v)] =
                      [pairAtDB[v] EXCEPT !.current = SlotAt(v)]]
        /\ PairSaved(v, FALSE)
     \/ "write" \in StoreFaults /\ PairSaved(v, TRUE) /\ UNCHANGED pair
  /\ UNCHANGED <<tokenVars, trade, job, pairAtDB>>

\* Mutant of InsertPair: the insert replaces a row it collides with.
InsertPairUpserts(v) ==
  /\ pc[v] = "insert"
  /\ pair' = [pair EXCEPT ![PairAt(v)] = [created |-> SlotAt(v), current |-> SlotAt(v)]]
  /\ PairSaved(v, FALSE)
  /\ UNCHANGED <<tokenVars, trade, job, pairAtDB>>

\* Mutant of InsertPair: the struct is built without its Slot.
InsertPairNoSlot(v) ==
  /\ pc[v] = "insert"
  /\ IF HasPair(PairAt(v))
       THEN pc' = [pc EXCEPT ![v] = "refind"] /\ UNCHANGED <<pair, unsaved>>
       ELSE /\ pair' = [pair EXCEPT ![PairAt(v)] = [created |-> SlotAt(v), current |-> 0]]
            /\ PairSaved(v, FALSE)
  /\ UNCHANGED <<tokenVars, trade, job, pairAtDB>>

\* Mutant of InsertPair: every refusal counts as a duplicate that is saved.
InsertPairForgives(v) ==
  /\ pc[v] = "insert"
  /\ \/ /\ ~HasPair(PairAt(v))
        /\ pair' = [pair EXCEPT ![PairAt(v)] =
                      [created |-> SlotAt(v), current |-> SlotAt(v)]]
     \/ /\ HasPair(PairAt(v)) \/ "write" \in StoreFaults
        /\ UNCHANGED pair
  /\ PairSaved(v, FALSE)
  /\ UNCHANGED <<tokenVars, trade, job, pairAtDB>>

\* The pair is new.  When another goroutine inserted it in between, this
\* trade is not applied to its row.
InsertPair(v) ==
  /\ pc[v] = "insert"
  /\ \/ /\ ~HasPair(PairAt(v))
        /\ pair' = [pair EXCEPT ![PairAt(v)] =
                      [created |-> SlotAt(v), current |-> SlotAt(v)]]
        /\ PairSaved(v, FALSE)
     \/ /\ HasPair(PairAt(v))
        /\ pc' = [pc EXCEPT ![v] = "refind"] /\ UNCHANGED <<pair, unsaved>>
     \/ "write" \in StoreFaults /\ PairSaved(v, TRUE) /\ UNCHANGED pair
  /\ UNCHANGED <<tokenVars, trade, job, pairAtDB>>

\* After "Duplicate entry" the row is read and returned.
RefindPair(v) ==
  /\ pc[v] = "refind"
  /\ \E failed \in BOOLEAN :
       /\ failed => "find" \in StoreFaults
       /\ PairSaved(v, failed)
  /\ UNCHANGED <<tokenVars, pair, trade, job, pairAtDB>>

\* Mutant of SaveTradeRows: the error of BatchSaveTrade is not returned.
SaveTradeRowsForgives(v) ==
  /\ pc[v] = "trades" /\ pc' = [pc EXCEPT ![v] = "ended"]
  /\ \/ trade' = trade \cup {<<SlotAt(v), PairAt(v)>>}
     \/ "trades" \in StoreFaults /\ UNCHANGED trade
  /\ UNCHANGED <<tokenVars, pair, job, pairAtDB, unsaved>>

\* BatchSaveTrade runs whether or not the pair was saved, and its error is what
\* BatchSaveByTrade returns.
SaveTradeRows(v) ==
  /\ pc[v] = "trades"
  /\ \/ /\ trade' = trade \cup {<<SlotAt(v), PairAt(v)>>}
        /\ pc' = [pc EXCEPT ![v] = "ended"]
     \/ /\ "trades" \in StoreFaults
        /\ pc' = [pc EXCEPT ![v] = "failed"] /\ UNCHANGED trade
  /\ UNCHANGED <<tokenVars, pair, job, pairAtDB, unsaved>>

\* group.Wait returns: the goroutines of the block are gone, their errors logged.
EndBlock(w) ==
  LET V == {v \in SaversOf(w) : pc[v] # "idle"} IN
  /\ job[w] # 0 /\ \A v \in V : pc[v] \in {"ended", "failed"}
  /\ EndSavers(V)
  /\ job'      = [job EXCEPT ![w] = 0]
  /\ pc'       = [v \in Savers |-> IF v \in V THEN "idle" ELSE pc[v]]
  /\ pairAtDB' = [v \in Savers |-> IF v \in V THEN NoPair ELSE pairAtDB[v]]
  /\ UNCHANGED <<pair, trade, unsaved>>

\* The process ends.  What its goroutines wrote so far stays: a token without
\* its pair, a pair without its trades.
Crash ==
  /\ KillSavers
  /\ job'      = [w \in Workers |-> 0]
  /\ pc'       = [v \in Savers |-> "idle"]
  /\ pairAtDB' = [v \in Savers |-> NoPair]
  /\ UNCHANGED <<pair, trade, unsaved>>

SavePair(v) == FindPair(v) \/ UpdatePair(v) \/ InsertPair(v) \/ RefindPair(v)

BatchSaveByTrade(v) ==
  CallSaveToken(v) \/ TokenFailed(v) \/ SavePair(v) \/ SaveTradeRows(v)

PairNext ==
  \/ \E w \in Workers, s \in Slots, priced \in BOOLEAN : BeginBlock(w, s, priced)
  \/ \E v \in Savers : BatchSaveByTrade(v)
  \/ \E w \in Workers : EndBlock(w)
  \/ Crash

PairSpec == PairInit /\ [][PairNext]_storeVars

\* A runnable goroutine runs, and its calls of the database and of the RPC node
\* return; the request for a token's metadata need not (MetadataHangs).
PairFairness ==
  /\ \A v \in Savers : WF_storeVars(BatchSaveByTrade(v))
  /\ \A w \in Workers : WF_storeVars(EndBlock(w))

FairPairSpec == PairSpec /\ PairFairness

-----------------------------------------------------------------------------
\* Types of the variables, and the saver's struct is of its worker's block.
PairTypeOK ==
  /\ pair \in [Pairs -> PairRows \cup {NoPair}]
  /\ trade \subseteq Slots \X Pairs
  /\ job \in [Workers -> Slots \cup {0}]
  /\ pc \in [Savers -> {"idle", "token", "update", "insert", "refind", "trades", "ended", "failed"}]
  /\ pairAtDB \in [Savers -> PairRows \cup {NoPair}]
  /\ unsaved \subseteq Slots \X Pairs

\* A pair in the table has its token in the table, also when several pairs
\* and blocks create that token at once and some of the writes fail: SavePair
\* runs only with the token that SaveToken returned (db.go 137-153).
PairHasToken == \A p \in Pairs : HasPair(p) => HasToken(TokenOf[p])

\* A batch of trades in the table has its pair in the table, unless saving the
\* pair returned an error, which SaveTrades does not see (db.go 108-117): the
\* goroutines that lose a race, and those that write over one another, do not
\* leave trades of an unknown pair behind.
TradesHavePair ==
  \A batch \in trade : HasPair(batch[2]) \/ batch \in unsaved

\* A step leaves what the insert wrote in the rows of the pair table.
PairsKept ==
  \A p \in Pairs : HasPair(p) => pair'[p].created = pair[p].created

\* Goroutines that race to create a pair leave the first row, and no later
\* whole-row write changes what that insert wrote, though each writes a row
\* that it read some time before (pair.go 129-137, 159).
PairCreatedOnce == [][PairsKept]_storeVars

\* The saver tables follow SaveToken's own protocol: no goroutine of a block
\* is started over one that still runs, and the rest of BatchSaveByTrade
\* leaves the token table alone (TokenStore implements this).
KeepsTokenStore == TokenSpec

\* group.Wait returns: whatever fails, the save of a block comes to an end and
\* the worker goes on to the next slot (db.go 104), unless one of its goroutines
\* waits for a metadata server that never answers (sol.go 255).
BlockEnds == \A w \in Workers :
  job[w] # 0 ~> job[w] = 0 \/ \E v \in SaversOf(w) : tpc[v] = "hung"

\* What the comment in SavePair says: "only a higher slot refreshes the
\* figures, so that old data does not overwrite a new state" (pair.go 180).
NewerSlotStays ==
  [][\A p \in Pairs : HasPair(p) => pair'[p].current >= pair[p].current]_storeVars
=============================================================================
