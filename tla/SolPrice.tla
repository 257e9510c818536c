------------------------------ MODULE SolPrice ------------------------------
(***************************************************************************)
(* The price of SOL across blocks.  A block whose own swaps give a price   *)
(* (PriceMath) takes it; any other block takes over the price of an older  *)
(* row of `block`, which several workers fill in whatever order they are   *)
(* done.  A price is named by the slot whose swaps gave it, 0 is no price. *)
(* A worker stands here for its part in prices only: it may end without a  *)
(* row at any time, for whatever reason, and take any slot next.           *)
(* The worker's field solPrice, which would come before the table, is      *)
(* never assigned in the code and stays 0, so it is not in the model.      *)
(***************************************************************************)
EXTENDS BlockTable

CONSTANTS
  PriceWorkers,  \* the workers that run ProcessBlock
  Swapping,      \* the slots whose blocks hold a swap that gives a price
  Parent,        \* ParentSlot of the block of a slot
  QueryMayFail   \* the database may refuse a query

ASSUME SolPriceAssumption ==
  /\ Swapping \subseteq Slots /\ QueryMayFail \in BOOLEAN
  /\ Parent \in [Slots -> Nat] /\ \A s \in Slots : Parent[s] < s

VARIABLES
  block,      \* the table `block`
  solPrice,   \* its column sol_price
  pc, job,    \* what a worker does, and the slot it does it for
  priced      \* block.SolPrice of the block a worker holds

priceVars == <<block, solPrice, pc, job, priced>>

Prices == Slots \cup {0}

PriceInit ==
  /\ block = EmptyTable
  /\ solPrice = [s \in Slots |-> 0]
  /\ pc = [w \in PriceWorkers |-> "idle"]
  /\ job = [w \in PriceWorkers |-> 0]
  /\ priced = [w \in PriceWorkers |-> 0]

\* A worker takes a slot, any and any number of times; the block is fetched
\* and its swaps give a price, or the table is asked.
FetchBlock(w, s) ==
  /\ pc[w] = "idle"
  /\ IF s \in Swapping
     THEN pc' = [pc EXCEPT ![w] = "store"] /\ priced' = [priced EXCEPT ![w] = s]
     ELSE pc' = [pc EXCEPT ![w] = "near"] /\ UNCHANGED priced
  /\ job' = [job EXCEPT ![w] = s]
  /\ UNCHANGED <<block, solPrice>>

\* Mutant of FetchFails: the status is set in the branch of a skipped block only.
FetchFailsNoStatus(w, s) ==
  /\ pc[w] = "idle"
  /\ \E verdict \in {"", BlockSkipped} : block' = Insert(block, s, verdict)
  /\ UNCHANGED <<solPrice, pc, job, priced>>

\* The block cannot be fetched or was skipped: the row has the price 0.
FetchFails(w, s) ==
  /\ pc[w] = "idle"
  /\ \E verdict \in {BlockFailed, BlockSkipped} : block' = Insert(block, s, verdict)
  /\ UNCHANGED <<solPrice, pc, job, priced>>

\* FindOneByNearSlot(ParentSlot): the nearest processed row below the parent,
\* whatever its price, or no price when there is none or the query fails.
NearSlots(s) == {t \in Slots : FindOneByNearSlot(block, Parent[s], t)}

\* Mutant of ReadNear: the row's slot is taken for the price.
ReadNearSlot(w) ==
  /\ pc[w] = "near" /\ pc' = [pc EXCEPT ![w] = "store"]
  /\ \/ \E s \in NearSlots(job[w]) : priced' = [priced EXCEPT ![w] = s]
     \/ /\ NearSlots(job[w]) = {} \/ QueryMayFail
        /\ priced' = [priced EXCEPT ![w] = 0]
  /\ UNCHANGED <<block, solPrice, job>>

ReadNear(w) ==
  /\ pc[w] = "near" /\ pc' = [pc EXCEPT ![w] = "store"]
  /\ \/ \E s \in NearSlots(job[w]) : priced' = [priced EXCEPT ![w] = solPrice[s]]
     \/ /\ NearSlots(job[w]) = {} \/ QueryMayFail
        /\ priced' = [priced EXCEPT ![w] = 0]
  /\ UNCHANGED <<block, solPrice, job>>

\* ProcessBlock returns or dies: its locals are gone.
Leave(W) ==
  /\ pc'     = [w \in PriceWorkers |-> IF w \in W THEN "idle" ELSE pc[w]]
  /\ job'    = [w \in PriceWorkers |-> IF w \in W THEN 0 ELSE job[w]]
  /\ priced' = [w \in PriceWorkers |-> IF w \in W THEN 0 ELSE priced[w]]

\* The row is inserted with the price.
StorePriced(w) ==
  /\ pc[w] = "store"
  /\ block' = Insert(block, job[w], BlockProcessed)
  /\ solPrice' = IF HasRow(block, job[w]) THEN solPrice
                 ELSE [solPrice EXCEPT ![job[w]] = priced[w]]
  /\ Leave({w})

\* The insert fails, or the process ends.
GiveUp(W) == Leave(W) /\ UNCHANGED <<block, solPrice>>

PriceNext ==
  \/ \E w \in PriceWorkers :
       \/ \E s \in Slots : FetchBlock(w, s) \/ FetchFails(w, s)
       \/ ReadNear(w) \/ StorePriced(w)
  \/ \E W \in SUBSET PriceWorkers : GiveUp(W)

PriceSpec == PriceInit /\ [][PriceNext]_priceVars

-----------------------------------------------------------------------------
\* Types of the variables.
PriceTypeOK ==
  /\ block \in Tables
  /\ solPrice \in [Slots -> Prices]
  /\ pc \in [PriceWorkers -> {"idle", "near", "store"}]
  /\ job \in [PriceWorkers -> Prices]
  /\ priced \in [PriceWorkers -> Prices]

\* No block is valued with a price of a later block, however the workers are
\* ordered: the price of a row comes from its own swaps, or from a block below
\* its parent (price.go 128, blockmodel.go 60).
PriceIsNotOfTheFuture ==
  \A s \in Slots : solPrice[s] # 0 =>
    \/ solPrice[s] = s
    \/ solPrice[s] < Parent[s]

\* A price that is passed on can be traced: the block whose swaps gave it is in
\* the table as processed, with that price, although rows are inserted in any
\* order and a slot may be refused its second row.
PriceIsTraceable ==
  \A s \in Slots : LET o == solPrice[s] IN
    o # 0 => o \in Swapping /\ block.status[o] = BlockProcessed /\ solPrice[o] = o
=============================================================================
