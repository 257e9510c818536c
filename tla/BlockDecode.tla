----------------------------- MODULE BlockDecode -----------------------------
(***************************************************************************)
(* One block, from the chain that makes it to the rows that ProcessBlock   *)
(* writes of it.  The chain executes transactions on a ledger of token     *)
(* accounts; each instruction runs in a transaction, which in the end      *)
(* fails or not and is reported by the node: its instructions, its logs    *)
(* (which the node may cut), its balances before and after.  ProcessBlock  *)
(* then goes over all transactions for the token accounts, over all of     *)
(* them again for the trades, and saves in two goroutines.                 *)
(***************************************************************************)
EXTENDS TradeDecode

CONSTANTS
  BaseMint, QuoteMint,    \* the tokens of a pool
  BaseVault, QuoteVault,  \* its token accounts
  OldPools,               \* the pools there are before the block
  Ledgers,                \* the user's accounts before the block
  Funds,                  \* what an account may be left with
  SwapAmounts,            \* the pairs of amounts of a swap, base and quote
  KnownTokens,            \* the sets of tokens that may have a row when the block is saved
  MaxTxs, MaxOps          \* transactions of the block; steps of all of them

Closed       == [mint |-> "none", owner |-> "none", amount |-> 0]
UserAccounts == {BaseOf[p] : p \in Pools} \cup {QuoteOf[p] : p \in Pools}
VaultsOf(p)  == {BaseVault[p], QuoteVault[p]}

\* What a pool's row may hold but the accounts of a pool of this block: nothing,
\* or whatever another worker made of its own block.
NoRow    == "no row"
OtherRow == "other row"

\* The addresses of a pool's token accounts are derived from the pool and the
\* mint, so they are its own.
ASSUME BlockAssumption ==
  /\ OldPools \subseteq Pools
  /\ {BaseOf, QuoteOf, BaseVault, QuoteVault} \subseteq [Pools -> Accounts]
  /\ {BaseMint, QuoteMint} \subseteq [Pools -> Mints]
  /\ Ledgers \subseteq [UserAccounts -> Balance \cup {Closed}]
  /\ {0, 1} \cup Funds \subseteq Amounts /\ Owners # {}
  /\ KnownTokens \subseteq SUBSET Mints
  /\ \A p \in Pools :
       /\ BaseVault[p] # QuoteVault[p] /\ VaultsOf(p) \cap UserAccounts = {}
       /\ \A q \in Pools \ {p} : VaultsOf(p) \cap VaultsOf(q) = {}
  /\ {NoRow, OtherRow} \cap Pools = {}
  /\ MaxTxs \in Nat /\ MaxOps \in Nat

VARIABLES
  ledger,    \* the chain's token accounts
  start,     \* the ledger when the transaction began
  cur,       \* the transaction that runs
  ops,       \* steps so far
  blk,       \* the block: its transactions in order
  phase, n,  \* what ProcessBlock is at, and the transaction it is at
  map,       \* tokenAccountMap
  solPrice,  \* block.SolPrice, 0 or not
  trades,    \* the trades decoded
  rows,      \* the rows of sol_token_account written
  poolRows,  \* the table pump_amm_info: whose accounts a pool's row holds
  at, found, \* the pool goroutine: the trade it is at, and that it found no row
  refused    \* a query for a pool row failed

chainVars == <<ledger, start, cur, ops, blk>>
saveVars  == <<rows, poolRows, at, found, refused>>
decodeVars == <<ledger, start, cur, ops, blk, phase, n, map, solPrice, trades,
                rows, poolRows, at, found, refused>>

Nothing == [a \in {} |-> Closed]

EmptyTx == [insts |-> <<>>, events |-> <<>>, opens |-> Nothing, touched |-> {}]

\* f, and g where f is not defined (as @@ in TLC.tla, unknown to the prover).
Over(f, g) == [a \in DOMAIN f \cup DOMAIN g |-> IF a \in DOMAIN f THEN f[a] ELSE g[a]]

Holds(l, a, mint) == l[a] # Closed /\ l[a].mint = mint

\* The accounts of a pool, with something in them.
Vaults(pool) ==
  LET Vault(mint) == [mint |-> mint, owner |-> CHOOSE o \in Owners : TRUE, amount |-> 1]
  IN [a \in VaultsOf(pool) |->
        Vault(IF a = BaseVault[pool] THEN BaseMint[pool] ELSE QuoteMint[pool])]

DecodeInit ==
  /\ \E users \in Ledgers :
       ledger = [a \in Accounts |->
         IF a \in UserAccounts THEN users[a]
         ELSE LET Of == {p \in OldPools : a \in DOMAIN Vaults(p)}
              IN IF Of = {} THEN Closed ELSE Vaults(CHOOSE p \in Of : TRUE)[a]]
  /\ start = ledger /\ cur = EmptyTx /\ ops = 0 /\ blk = <<>>
  /\ phase = "chain" /\ n = 1
  /\ map = EmptyMap /\ solPrice = 0 /\ trades = <<>>
  /\ rows = EmptyMap /\ poolRows = [p \in Pools |-> NoRow]
  /\ at = 1 /\ found = FALSE /\ refused = FALSE

-----------------------------------------------------------------------------
(* The chain.                                                               *)

Step == /\ phase = "chain" /\ Len(blk) < MaxTxs
        /\ ops < MaxOps /\ ops' = ops + 1
        /\ UNCHANGED <<start, blk, phase, n, map, solPrice, trades, saveVars>>

\* An instruction of another program, or of PumpFun, at the top level.  Those
\* that only run the token operations below are left out of transactions
\* without a swap.
Call(kind) ==
  /\ Step
  /\ cur' = [cur EXCEPT !.insts = Append(@, Inst(kind, "none"))]
  /\ UNCHANGED ledger

\* A swap; it needs the user's accounts and writes its event.
Swap(kind, pool, base, quote) ==
  LET type == IF kind = "exact" THEN "buy" ELSE kind
  IN /\ Step
     /\ Holds(ledger, BaseOf[pool], BaseMint[pool]) /\ Holds(ledger, QuoteOf[pool], QuoteMint[pool])
     /\ ledger[BaseVault[pool]] # Closed
     /\ cur' = [cur EXCEPT
          !.insts   = Append(@, Inst(kind, pool)),
          !.events  = Append(@, [kind |-> type, pool |-> pool, base |-> base,
                                 quote |-> quote]),
          !.touched = @ \cup {BaseOf[pool], QuoteOf[pool]} \cup DOMAIN Vaults(pool)]
     /\ UNCHANGED ledger

\* A new pool: its accounts are opened and filled.
CreatePool(pool) ==
  /\ Step
  /\ Holds(ledger, BaseOf[pool], BaseMint[pool]) /\ Holds(ledger, QuoteOf[pool], QuoteMint[pool])
  /\ ledger[BaseVault[pool]] = Closed
  /\ ledger' = Over(Vaults(pool), ledger)
  /\ cur' = [cur EXCEPT
       !.insts   = Append(@, Inst("create", pool)),
       !.events  = Append(@, [kind |-> "create", pool |-> pool]),
       !.opens   = Over(Vaults(pool), @),
       !.touched = @ \cup {BaseOf[pool], QuoteOf[pool]} \cup DOMAIN Vaults(pool)]

\* What an instruction does to a token account of the user; an account is
\* opened at most once in a transaction.
Open(a, mint, owner) ==
  /\ Step
  /\ ledger[a] = Closed /\ a \notin DOMAIN cur.opens
  /\ ledger' = [ledger EXCEPT ![a] = [mint |-> mint, owner |-> owner, amount |-> 0]]
  /\ cur' = [cur EXCEPT
       !.opens   = Over([b \in {a} |-> [mint |-> mint, owner |-> owner]], @),
       !.touched = @ \cup {a}]

Close(a) ==
  /\ Step
  /\ ledger[a] # Closed
  /\ ledger' = [ledger EXCEPT ![a] = Closed]
  /\ cur' = [cur EXCEPT !.touched = @ \cup {a}]

Move(a, amount) ==
  /\ Step
  /\ ledger[a] # Closed /\ ledger[a].amount # amount
  /\ ledger' = [ledger EXCEPT ![a].amount = amount]
  /\ cur' = [cur EXCEPT !.touched = @ \cup {a}]

SetOwner(a, owner) ==
  /\ Step
  /\ ledger[a] # Closed /\ ledger[a].owner # owner
  /\ ledger' = [ledger EXCEPT ![a].owner = owner]
  /\ cur' = [cur EXCEPT !.touched = @ \cup {a}]

Held(l, accounts) == [a \in {b \in accounts : l[b] # Closed} |-> l[a]]

\* The transaction ends; a failed one changes nothing.  The logs kept are a
\* prefix of what was written.
EndTx(failed, kept) ==
  /\ phase = "chain" /\ cur # EmptyTx
  /\ kept <= Len(cur.events)
  /\ LET after == IF failed THEN start ELSE ledger
     IN /\ blk' = Append(blk, [failed |-> failed, insts |-> cur.insts,
                               events |-> SubSeq(cur.events, 1, kept), wrote |-> cur.events,
                               opens |-> cur.opens,
                               pre  |-> Held(start, cur.touched),
                               post |-> Held(after, cur.touched)])
        /\ ledger' = after /\ start' = after
  /\ cur' = EmptyTx
  /\ UNCHANGED <<ops, phase, n, map, solPrice, trades, saveVars>>

-----------------------------------------------------------------------------
(* ProcessBlock.                                                            *)

\* GetBlockSolPrice begins.
BlockFetched ==
  /\ phase = "chain" /\ cur = EmptyTx /\ blk # <<>>
  /\ phase' = "fill"
  /\ UNCHANGED <<chainVars, n, map, solPrice, trades, saveVars>>

\* A transaction of GetBlockSolPrice; the price that is known after the last
\* one is in SolPrice and PriceMath.
FillTx ==
  /\ phase = "fill"
  /\ map' = FillTokenAccountMap(map, blk[n])
  /\ IF n < Len(blk) THEN n' = n + 1 /\ UNCHANGED <<phase, solPrice>>
     ELSE n' = 1 /\ phase' = "decode" /\ solPrice' \in {0, 1}
  /\ UNCHANGED <<chainVars, trades, saveVars>>

DecodeNextTx ==
  /\ phase = "decode"
  /\ trades' = trades \o DecodeTx(blk[n], n, map)
  /\ IF n < Len(blk) THEN n' = n + 1 /\ UNCHANGED phase
     ELSE n' = 1 /\ phase' = "accounts"
  /\ UNCHANGED <<chainVars, map, solPrice, saveVars>>

Saving == phase \in {"accounts", "saved"}

\* SaveTrades is in PairStore; then SaveTokenAccounts, given the tokens that
\* have a row.  An error of the insert is logged and the rows are lost.
SaveTokenAccounts(tokens, stored) ==
  /\ phase = "accounts" /\ phase' = "saved"
  /\ rows' = IF stored THEN TokenAccountRows(map, tokens) ELSE EmptyMap
  /\ UNCHANGED <<chainVars, n, map, solPrice, trades, poolRows, at, found, refused>>

\* SavePumpSwapPoolInfo of one trade: the row is looked up, and inserted when
\* there is none.  A failed query is dropped; a failed insert is logged, unless
\* it says that the row is there.
Skipped == trades[at].kind = "create"
FindPool ==
  /\ Saving /\ at <= Len(trades) /\ ~found
  /\ IF Skipped \/ poolRows[trades[at].pool] # NoRow
     THEN at' = at + 1 /\ UNCHANGED found ELSE found' = TRUE /\ UNCHANGED at
  /\ UNCHANGED <<chainVars, phase, n, map, solPrice, trades, rows, poolRows, refused>>

InsertPool ==
  /\ Saving /\ found
  /\ found' = FALSE /\ at' = at + 1
  /\ poolRows' = [poolRows EXCEPT ![trades[at].pool] = IF @ = NoRow THEN trades[at].info ELSE @]
  /\ UNCHANGED <<chainVars, phase, n, map, solPrice, trades, rows, refused>>

PoolQueryFails ==
  /\ Saving /\ at <= Len(trades) /\ ~Skipped
  /\ found' = FALSE /\ at' = at + 1 /\ refused' = TRUE
  /\ UNCHANGED <<chainVars, phase, n, map, solPrice, trades, rows, poolRows>>

\* Another worker inserts the row of a pool that it saw in its block.
OtherWorkerInserts(pool) ==
  /\ Saving /\ found /\ pool = trades[at].pool /\ poolRows[pool] = NoRow
  /\ poolRows' = [poolRows EXCEPT ![pool] = OtherRow]
  /\ UNCHANGED <<chainVars, phase, n, map, solPrice, trades, rows, at, found, refused>>

DecodeNext ==
  \/ \E kind \in {"other", "pumpfun"} : Call(kind)
  \/ \E kind \in {"buy", "sell", "exact"}, pool \in Pools, amounts \in SwapAmounts :
       Swap(kind, pool, amounts[1], amounts[2])
  \/ \E pool \in Pools : CreatePool(pool)
  \/ \E a \in UserAccounts, mint \in Mints, owner \in Owners : Open(a, mint, owner)
  \/ \E a \in UserAccounts : Close(a)
  \/ \E a \in UserAccounts, x \in Funds : Move(a, x)
  \/ \E a \in UserAccounts, owner \in Owners : SetOwner(a, owner)
  \/ \E failed \in BOOLEAN, kept \in 0 .. Len(cur.events) : EndTx(failed, kept)
  \/ BlockFetched \/ FillTx \/ DecodeNextTx
  \/ \E tokens \in KnownTokens, stored \in BOOLEAN : SaveTokenAccounts(tokens, stored)
  \/ FindPool \/ InsertPool \/ PoolQueryFails
  \/ \E pool \in Pools : OtherWorkerInserts(pool)

DecodeSpec == DecodeInit /\ [][DecodeNext]_decodeVars

-----------------------------------------------------------------------------
Seen(a, i)  == a \in DOMAIN blk[i].pre \cup DOMAIN blk[i].post
LastSeen(a) == CHOOSE i \in DOMAIN blk : Seen(a, i) /\ \A j \in DOMAIN blk : Seen(a, j) => j <= i
Opens(a, i) == a \in DOMAIN blk[i].opens /\ blk[i].opens[a].mint \in SplMints

Same(x, y) == x.mint = y.mint /\ x.owner = y.owner

\* What the first m transactions tell of an account: its balances, and with what
\* token and owner it is opened.
Told(a, m) == {blk[i].pre[a]   : i \in {j \in 1 .. m : a \in DOMAIN blk[j].pre}}
         \cup {blk[i].post[a]  : i \in {j \in 1 .. m : a \in DOMAIN blk[j].post}}
         \cup {blk[i].opens[a] : i \in {j \in 1 .. m : Opens(a, j)}}

\* The instruction that opens the account failed, or was undone.
Undone(a, i) == Opens(a, i) /\ a \notin DOMAIN blk[i].post

\* The account changed its token or owner between the entry that the map has of
\* it and the last balance reported, of the k-th transaction of m: a new owner
\* (SetAuthority), an account opened again as another, or an opening undone.
RenewedIn(a, k, m) ==
  LET tx == blk[k]
  IN \/ \E i \in 1 .. m : i > k /\ Opens(a, i)
     \/ a \in DOMAIN tx.pre \cap DOMAIN tx.post /\ ~Same(tx.pre[a], tx.post[a])
     \/ a \in DOMAIN tx.pre /\ Opens(a, k) /\ tx.opens[a].mint # tx.pre[a].mint
     \/ a \notin DOMAIN tx.pre /\ \E b \in Told(a, k - 1) : ~Same(b, tx.post[a])
     \/ a \notin DOMAIN tx.pre /\ \E i \in 1 .. k - 1 : Undone(a, i)

Renewed(a) == RenewedIn(a, LastSeen(a), Len(blk))

\* When the block is done with, the map has each account that was touched as the
\* chain left it: closed or open, its token, its owner, its balance (as far as an
\* int64 holds it) and the decimals; save the accounts renewed in the block
\* (FillTokenAccountMap, block.go 376-457).
AccountsAreTheChains ==
  phase \in {"decode", "accounts", "saved"} =>
    \A a \in Accounts :
      (\E i \in DOMAIN blk : Seen(a, i)) =>
        \/ /\ a \in DOMAIN map
           /\ (map[a].closed <=> ledger[a] = Closed)
           /\ ledger[a] # Closed =>
                /\ Same(map[a], ledger[a])
                /\ map[a].value = ParseInt(ledger[a].amount)
                /\ map[a].decimals = DecimalsOf[ledger[a].mint]
        \/ Renewed(a)

\* The same without exception of the balance and of whether the account is open,
\* unless its last transaction, or a later one, has an instruction that opens it.
BalancesAreTheChains ==
  phase \in {"decode", "accounts", "saved"} =>
    \A a \in Accounts, k \in DOMAIN blk :
      Seen(a, k) /\ (\A i \in DOMAIN blk : i > k => ~Seen(a, i))
                 /\ (\A i \in DOMAIN blk : i >= k => ~Opens(a, i)) =>
        /\ a \in DOMAIN map
        /\ (map[a].closed <=> ledger[a] = Closed)
        /\ ledger[a] # Closed => map[a].value = ParseInt(ledger[a].amount)

Decoded == phase \in {"accounts", "saved"}
Saved(t) == HasPrice(t, solPrice)

\* The trade says what the event says, with the tokens and decimals of its pool,
\* and takes the pool's accounts from an instruction of that pool.
Tells(t, i, e) ==
  /\ t.index = i /\ t.kind = e.kind /\ t.pool = e.pool /\ t.info = e.pool
  /\ t.tokenAmountInt = e.base /\ t.tokenAmount = e.base
  /\ t.baseAmountInt = e.quote /\ t.baseAmount = e.quote
  /\ t.baseToken = BaseMint[e.pool] /\ t.baseDecimals = DecimalsOf[BaseMint[e.pool]]
  /\ t.token = QuoteMint[e.pool] /\ t.tokenDecimals = DecimalsOf[QuoteMint[e.pool]]

\* A transaction no swap of which is recorded: another program's instruction or
\* an unknown one in it, or logs that were cut before an event.
Dropped(tx) == \/ \E j \in DOMAIN tx.insts : tx.insts[j].kind \in {"other", "exact"}
               \/ tx.events # tx.wrote
Repeated(tx, kind) == \E j, k \in DOMAIN tx.insts : j # k /\ tx.insts[j].kind = kind
                                                  /\ tx.insts[k].kind = kind
\* The map has an account of the swap as another token's, or not at all.
Lost(e) == \/ ~(BaseOf[e.pool] \in DOMAIN map /\ map[BaseOf[e.pool]].mint = BaseMint[e.pool])
           \/ ~(QuoteOf[e.pool] \in DOMAIN map /\ map[QuoteOf[e.pool]].mint = QuoteMint[e.pool])
\* The pool was created before in a transaction that failed: the map keeps the
\* accounts as that opened them, without decimals (block.go 441).
Remade(e) == \E i \in DOMAIN blk, a \in VaultsOf(e.pool) : Undone(a, i)
Odd(e) == \E x \in {e.base, e.quote} : x = 0 \/ x > MaxSigned

\* Each swap of a successful transaction is saved, once, as its event tells it;
\* the exceptions are those named here (DecodeTx, the decoders, SaveTrades).
SwapIsSavedOrExcused ==
  Decoded /\ solPrice # 0 =>
    \A i \in DOMAIN blk : ~blk[i].failed /\ ~Dropped(blk[i]) =>
      \A k \in DOMAIN blk[i].wrote :
        LET e == blk[i].wrote[k]
        IN (/\ e.kind \in {"buy", "sell"} /\ ~Repeated(blk[i], e.kind)
            /\ ~Lost(e) /\ ~Remade(e) /\ ~Odd(e)) =>
             Cardinality({j \in DOMAIN trades : Saved(trades[j]) /\ Tells(trades[j], i, e)}) = 1

\* No trade without a swap: what is saved was executed in a transaction that did
\* not fail, at that pool, and with that amount up to the sign bit (block.go 310).
SavedWasExecuted ==
  Decoded => \A j \in DOMAIN trades : Saved(trades[j]) =>
    LET t == trades[j] IN
    /\ ~blk[t.index].failed
    /\ \E k \in DOMAIN blk[t.index].wrote :
         LET e == blk[t.index].wrote[k]
         IN e.kind = t.kind /\ e.pool = t.pool /\ t.tokenAmountInt = ToSigned(e.base)

\* A transaction with a swap at one pool and a swap of the same kind at the other.
SwapBoth(tx, p, q) ==
  /\ ~tx.failed
  /\ \E j, k \in DOMAIN tx.insts :
       /\ tx.insts[j].kind \in {"buy", "sell"} /\ tx.insts[k].kind = tx.insts[j].kind
       /\ tx.insts[j].pool = p /\ tx.insts[k].pool = q

\* A pool's row that this block made holds the accounts of that pool, or of one
\* that the same transaction swaps at in the same way; and when the goroutine is
\* done every pool traded has a row, whoever inserted it, if no query failed
\* (db.go 272-298).
PoolRowIsThePools ==
  \A p \in Pools :
    /\ poolRows[p] \in {NoRow, OtherRow, p} \/ \E i \in DOMAIN blk : SwapBoth(blk[i], p, poolRows[p])
    /\ /\ Decoded /\ at > Len(trades) /\ ~refused
       /\ \E j \in DOMAIN trades : trades[j].kind # "create" /\ trades[j].pool = p
       => poolRows[p] # NoRow

\* What is written of the token accounts is what the chain left them, each account
\* in its row, save the accounts renewed in the block and those that no balance
\* told of, but an instruction that opens them (it failed, or they were closed
\* again); and of a token all accounts that the block touched are written or none,
\* closed ones too, if the token they are of is not in doubt (db.go 301-361).
RowsAreTheChains ==
  phase = "saved" =>
    \A a \in Accounts :
      IF \E i \in DOMAIN blk : Seen(a, i)
      THEN /\ a \in DOMAIN rows /\ ~Renewed(a) =>
                /\ rows[a].closed <=> ledger[a] = Closed
                /\ ledger[a] # Closed =>
                     /\ Same(rows[a], ledger[a]) /\ rows[a].value = ParseInt(ledger[a].amount)
                     /\ rows[a].decimals = DecimalsOf[ledger[a].mint]
           /\ \A b \in DOMAIN rows :
                (\A t \in Told(a, Len(blk)) : t.mint = rows[b].mint) => a \in DOMAIN rows
      ELSE a \in DOMAIN rows => \E i \in DOMAIN blk : Opens(a, i)

\* What the table's UNIQUE KEY hash_id_index says: a trade's hash_id is its own.
HashIdIsUnique ==
  Decoded => \A j, k \in DOMAIN trades :
    j # k /\ Saved(trades[j]) /\ Saved(trades[k]) => trades[j].hashId # trades[k].hashId
=============================================================================
