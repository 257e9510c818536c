------------------------- MODULE BlockTradesProofs -------------------------
(***************************************************************************)
(* The trades of a block and the pool rows made of them, proved for any    *)
(* pools, accounts, amounts and any number of transactions.  ExecInv ties  *)
(* the instructions of a transaction to what they wrote to its logs;       *)
(* Collected says which instructions the trades were decoded from, and     *)
(* VaultsInv what is told of the accounts of a pool.                       *)
(***************************************************************************)
EXTENDS BlockDecodeProofs

EventKinds == {"buy", "sell", "create"}
InstKinds  == EventKinds \cup {"pumpfun", "other", "exact"}

\* What instructions wrote to the logs: each event is of one of them, of its pool,
\* no two of the same one, and each known swap or new pool has its event.
WroteFrom(g, insts, events) ==
  /\ g \in [1 .. Len(events) -> 1 .. Len(insts)]
  /\ \A k, h \in 1 .. Len(events) : g[k] = g[h] => k = h
  /\ \A k \in 1 .. Len(events) :
       /\ insts[g[k]].pool = events[k].pool
       /\ insts[g[k]].kind \in {events[k].kind, "exact"}
  /\ \A q \in 1 .. Len(insts) : insts[q].kind \in EventKinds =>
       \E k \in 1 .. Len(events) : g[k] = q

Executed(insts, events) ==
  /\ \E S : insts \in Seq(S)
  /\ \E S : events \in Seq(S)
  /\ \A q \in 1 .. Len(insts) : insts[q].kind \in InstKinds
  /\ \A k \in 1 .. Len(events) : events[k].kind \in EventKinds /\ events[k].pool \in Pools
  /\ \E g : WroteFrom(g, insts, events)

\* The logs that the node kept of what was written.
Kept(tx) == \E kept \in 0 .. Len(tx.wrote) : tx.events = SubSeq(tx.wrote, 1, kept)

ExecInv ==
  /\ Executed(cur.insts, cur.events)
  /\ \A i \in 1 .. Len(blk) : Executed(blk[i].insts, blk[i].wrote) /\ Kept(blk[i])

\* What an instruction of the block is decoded to, and that it makes a trade.
TradeAt(i, q) == DecodeInstruction(blk[i], blk[i].insts[q], i, map)
Yields(i, q) == /\ ~blk[i].failed /\ q \in DOMAIN blk[i].insts /\ TradeAt(i, q) # NoTrade
                /\ \A r \in DOMAIN blk[i].insts : TradeAt(i, r) # Error

\* The trades are those of the first m transactions, each once: the j-th comes
\* from instruction in[j] of transaction tx[j].
Sourced(s, tx, in, m) ==
  /\ \A j \in 1 .. Len(s) : /\ tx[j] \in 1 .. m /\ Yields(tx[j], in[j])
                            /\ s[j] = TradeAt(tx[j], in[j])
  /\ \A j, k \in 1 .. Len(s) : tx[j] = tx[k] /\ in[j] = in[k] => j = k
  /\ \A i \in 1 .. m : \A q : Yields(i, q) => \E j \in 1 .. Len(s) : tx[j] = i /\ in[j] = q

Collected(m) == /\ \E S : trades \in Seq(S)
                /\ \E tx, in : Sourced(trades, tx, in, m)

TradesInv ==
  /\ phase \in {"chain", "fill"} => trades = <<>>
  /\ phase = "decode" => n \in 1 .. Len(blk) /\ Collected(n - 1)
  /\ Decoded => Collected(Len(blk))

-----------------------------------------------------------------------------
(* The chain.                                                               *)

LEMMA NothingExecuted == Executed(<<>>, <<>>)
<1>1. <<>> \in Seq({}) /\ Len(<<>>) = 0
  BY EmptySeq
<1>2. 1 .. Len(<<>>) = {}
  BY <1>1
<1>3. WroteFrom([k \in {} |-> 0], <<>>, <<>>)
  BY <1>2 DEF WroteFrom
<1> QED
  BY <1>1, <1>2, <1>3 DEF Executed

\* An instruction that writes nothing, and that has nothing to write.
LEMMA SilentInst ==
  ASSUME NEW insts, NEW events, Executed(insts, events),
         NEW inst, inst.kind \in InstKinds \ EventKinds
  PROVE  Executed(Append(insts, inst), events)
<1>1. PICK S, g : insts \in Seq(S) /\ WroteFrom(g, insts, events)
  BY DEF Executed
<1>2. insts \in Seq(S \cup {inst})
  BY <1>1, SeqMonotonic
<1> DEFINE more == Append(insts, inst)
<1>3. /\ more \in Seq(S \cup {inst}) /\ Len(insts) \in Nat /\ Len(more) = Len(insts) + 1
      /\ more[Len(insts) + 1] = inst /\ \A q \in 1 .. Len(insts) : more[q] = insts[q]
  BY <1>2, AppendProperties
<1> HIDE DEF more
<1>4. \A q \in 1 .. Len(more) : q \in 1 .. Len(insts) \/ q = Len(insts) + 1
  BY <1>3
<1>5. 1 .. Len(insts) \subseteq 1 .. Len(more)
  BY <1>3
<1>6. WroteFrom(g, more, events)
  BY <1>1, <1>3, <1>4, <1>5 DEF WroteFrom
<1>7. \A q \in 1 .. Len(more) : more[q].kind \in InstKinds
  BY <1>3, <1>4 DEF Executed
<1> QED
  BY <1>3, <1>6, <1>7 DEF Executed, more

\* A swap or a new pool, with the event that it writes.
LEMMA WritingInst ==
  ASSUME NEW insts, NEW events, Executed(insts, events), NEW inst, NEW event,
         inst.kind \in EventKinds \cup {"exact"}, event.kind \in EventKinds,
         inst.kind \in {event.kind, "exact"}, event.pool \in Pools, inst.pool = event.pool
  PROVE  Executed(Append(insts, inst), Append(events, event))
<1>1. PICK S, T, g : insts \in Seq(S) /\ events \in Seq(T) /\ WroteFrom(g, insts, events)
  BY DEF Executed
<1> DEFINE insts1 == Append(insts, inst)
           events1 == Append(events, event)
           x == Len(insts) + 1
           y == Len(events) + 1
           g1 == [k \in 1 .. Len(events1) |-> IF k = y THEN x ELSE g[k]]
<1>2. /\ insts1 \in Seq(S \cup {inst}) /\ Len(insts) \in Nat /\ Len(insts1) = x
      /\ insts1[x] = inst /\ \A q \in 1 .. Len(insts) : insts1[q] = insts[q]
  <2>1. insts \in Seq(S \cup {inst})
    BY <1>1, SeqMonotonic
  <2> QED
    BY <2>1, AppendProperties
<1>3. /\ events1 \in Seq(T \cup {event}) /\ Len(events) \in Nat /\ Len(events1) = y
      /\ events1[y] = event /\ \A k \in 1 .. Len(events) : events1[k] = events[k]
  <2>1. events \in Seq(T \cup {event})
    BY <1>1, SeqMonotonic
  <2> QED
    BY <2>1, AppendProperties
<1> HIDE DEF insts1, events1
<1>4. /\ \A q \in 1 .. Len(insts1) : q \in 1 .. Len(insts) \/ q = x
      /\ \A k \in 1 .. Len(events1) : (k \in 1 .. Len(events) /\ k # y) \/ k = y
      /\ x \in 1 .. Len(insts1) /\ y \in 1 .. Len(events1) /\ x \notin 1 .. Len(insts) /\ y \notin 1 .. Len(events)
      /\ 1 .. Len(insts) \subseteq 1 .. Len(insts1) /\ 1 .. Len(events) \subseteq 1 .. Len(events1)
  BY <1>2, <1>3
<1>5. g1 = [k \in 1 .. Len(events1) |-> IF k = y THEN x ELSE g[k]]
  OBVIOUS
<1> HIDE DEF x, y, g1
<1>6. g1[y] = x /\ \A k \in 1 .. Len(events) : g1[k] = g[k] /\ g[k] \in 1 .. Len(insts)
  BY <1>1, <1>4, <1>5 DEF WroteFrom
<1>7. g1 \in [1 .. Len(events1) -> 1 .. Len(insts1)]
  BY <1>4, <1>5, <1>6
<1>8. \A k, h \in 1 .. Len(events1) : g1[k] = g1[h] => k = h
  BY <1>1, <1>4, <1>6 DEF WroteFrom
<1>9. ASSUME NEW k \in 1 .. Len(events1)
      PROVE  insts1[g1[k]].pool = events1[k].pool /\ insts1[g1[k]].kind \in {events1[k].kind, "exact"}
  <2>1. CASE k = y
    <3>1. insts1[g1[k]] = inst /\ events1[k] = event
      BY <1>2, <1>3, <1>6, <2>1
    <3> QED
      BY <3>1
  <2>2. CASE k \in 1 .. Len(events)
    <3>1. insts1[g1[k]] = insts[g[k]] /\ events1[k] = events[k]
      BY <1>2, <1>3, <1>6, <2>2
    <3> QED
      BY <1>1, <2>2, <3>1 DEF WroteFrom
  <2> QED
    BY <1>4, <2>1, <2>2
<1>10. ASSUME NEW q \in 1 .. Len(insts1), insts1[q].kind \in EventKinds
       PROVE  \E k \in 1 .. Len(events1) : g1[k] = q
  <2>1. CASE q = x
    BY <1>4, <1>6, <2>1
  <2>2. CASE q \in 1 .. Len(insts)
    <3>1. PICK k \in 1 .. Len(events) : g[k] = q
      BY <1>1, <1>2, <1>10, <2>2 DEF WroteFrom
    <3> QED
      BY <1>4, <1>6, <3>1
  <2> QED
    BY <1>4, <2>1, <2>2
<1>11. WroteFrom(g1, insts1, events1)
  BY <1>7, <1>8, <1>9, <1>10 DEF WroteFrom
<1>12. /\ \A q \in 1 .. Len(insts1) : insts1[q].kind \in InstKinds
       /\ \A k \in 1 .. Len(events1) : events1[k].kind \in EventKinds /\ events1[k].pool \in Pools
  BY <1>2, <1>3, <1>4 DEF Executed, InstKinds
<1> QED
  BY <1>2, <1>3, <1>11, <1>12 DEF Executed, insts1, events1


LEMMA ExecEndTx ==
  ASSUME BlkInv, ExecInv, NEW failed, NEW kept \in 0 .. Len(cur.events), EndTx(failed, kept)
  PROVE  ExecInv'
<1> DEFINE after == IF failed THEN start ELSE ledger
           tx == [failed |-> failed, insts |-> cur.insts,
                  events |-> SubSeq(cur.events, 1, kept), wrote |-> cur.events,
                  opens |-> cur.opens,
                  pre  |-> Held(start, cur.touched),
                  post |-> Held(after, cur.touched)]
<1>1. blk' = Append(blk, tx) /\ cur' = EmptyTx
  BY DEF EndTx
<1>2. Executed(tx.insts, tx.wrote) /\ Kept(tx)
  BY DEF ExecInv, Kept
<1> HIDE DEF after, tx
<1>3. /\ Len(blk') = Len(blk) + 1 /\ Len(blk) \in Nat /\ blk'[Len(blk) + 1] = tx
      /\ \A i \in 1 .. Len(blk) : blk'[i] = blk[i]
  <2>1. PICK S : blk \in Seq(S)
    BY DEF BlkInv
  <2>2. blk \in Seq(S \cup {tx})
    BY <2>1, SeqMonotonic
  <2> QED
    BY <1>1, <2>2, AppendProperties
<1>4. ASSUME NEW i \in 1 .. Len(blk') PROVE Executed(blk'[i].insts, blk'[i].wrote) /\ Kept(blk'[i])
  <2>1. CASE i = Len(blk) + 1
    BY <1>2, <1>3, <2>1
  <2>2. CASE i \in 1 .. Len(blk)
    BY <1>3, <2>2 DEF ExecInv
  <2> QED
    BY <1>3, <2>1, <2>2
<1>5. Executed(cur'.insts, cur'.events)
  BY <1>1, NothingExecuted DEF EmptyTx
<1> QED
  BY <1>4, <1>5 DEF ExecInv

\* ExecInv speaks of blk, and of the instructions and logs of the transaction.
LEMMA SameExec ==
  ASSUME ExecInv, blk' = blk, Executed(cur'.insts, cur'.events) PROVE ExecInv'
BY DEF ExecInv

LEMMA ExecStep ==
  ASSUME ChainInv, ExecInv, [DecodeNext]_decodeVars PROVE ExecInv'
<1>1. ASSUME NEW kind \in {"other", "pumpfun"}, Call(kind) PROVE ExecInv'
  <2>1. cur'.insts = Append(cur.insts, Inst(kind, "none")) /\ cur'.events = cur.events /\ blk' = blk
    BY <1>1 DEF Call, Step, ChainInv, CurInv
  <2>2. Inst(kind, "none").kind \in InstKinds \ EventKinds
    BY DEF Inst, InstKinds, EventKinds
  <2>3. Executed(cur'.insts, cur'.events)
    BY <2>1, <2>2, SilentInst DEF ExecInv
  <2> QED
    BY <2>1, <2>3, SameExec
<1>2. ASSUME NEW kind \in {"buy", "sell", "exact"}, NEW pool \in Pools, NEW base, NEW quote,
             Swap(kind, pool, base, quote)
      PROVE  ExecInv'
  <2> DEFINE type == IF kind = "exact" THEN "buy" ELSE kind
             inst == Inst(kind, pool)
             event == [kind |-> type, pool |-> pool, base |-> base, quote |-> quote]
  <2>1. /\ cur'.insts = Append(cur.insts, inst) /\ cur'.events = Append(cur.events, event)
        /\ blk' = blk
    BY <1>2 DEF Swap, Step, ChainInv, CurInv
  <2>2. /\ inst.kind \in EventKinds \cup {"exact"} /\ event.kind \in EventKinds
        /\ inst.kind \in {event.kind, "exact"} /\ event.pool \in Pools /\ inst.pool = event.pool
    BY DEF Inst, EventKinds
  <2> HIDE DEF inst, event
  <2>3. Executed(cur'.insts, cur'.events)
    BY <2>1, <2>2, WritingInst DEF ExecInv
  <2> QED
    BY <2>1, <2>3, SameExec
<1>3. ASSUME NEW pool \in Pools, CreatePool(pool) PROVE ExecInv'
  <2> DEFINE inst == Inst("create", pool)
             event == [kind |-> "create", pool |-> pool]
  <2>1. /\ cur'.insts = Append(cur.insts, inst) /\ cur'.events = Append(cur.events, event)
        /\ blk' = blk
    BY <1>3 DEF CreatePool, Step, ChainInv, CurInv
  <2>2. /\ inst.kind \in EventKinds \cup {"exact"} /\ event.kind \in EventKinds
        /\ inst.kind \in {event.kind, "exact"} /\ event.pool \in Pools /\ inst.pool = event.pool
    BY DEF Inst, EventKinds
  <2> HIDE DEF inst, event
  <2>3. Executed(cur'.insts, cur'.events)
    BY <2>1, <2>2, WritingInst DEF ExecInv
  <2> QED
    BY <2>1, <2>3, SameExec
<1>4. ASSUME cur'.insts = cur.insts, cur'.events = cur.events, blk' = blk PROVE ExecInv'
  BY <1>4, SameExec DEF ExecInv
<1>5. ASSUME NEW a, NEW mint, NEW owner, Open(a, mint, owner) PROVE ExecInv'
  BY <1>4, <1>5 DEF Open, Step, ChainInv, CurInv
<1>6. ASSUME NEW a, Close(a) \/ (\E x \in Funds : Move(a, x))
                             \/ (\E owner \in Owners : SetOwner(a, owner))
      PROVE  ExecInv'
  BY <1>4, <1>6 DEF Close, Move, SetOwner, Step, ChainInv, CurInv
<1>7. ASSUME NEW failed, NEW kept \in 0 .. Len(cur.events), EndTx(failed, kept) PROVE ExecInv'
  BY <1>7, ExecEndTx DEF ChainInv
<1>8. CASE BlockFetched \/ FillTx \/ DecodeNextTx \/ FindPool \/ InsertPool \/ PoolQueryFails
  BY <1>4, <1>8 DEF BlockFetched, FillTx, DecodeNextTx, FindPool, InsertPool, PoolQueryFails,
                    chainVars
<1>9. ASSUME NEW tokens, NEW stored, SaveTokenAccounts(tokens, stored) PROVE ExecInv'
  BY <1>4, <1>9 DEF SaveTokenAccounts, chainVars
<1>10. ASSUME NEW pool, OtherWorkerInserts(pool) PROVE ExecInv'
  BY <1>4, <1>10 DEF OtherWorkerInserts, chainVars
<1>11. CASE UNCHANGED decodeVars
  BY <1>4, <1>11 DEF decodeVars
<1> QED
  BY <1>1, <1>2, <1>3, <1>5, <1>6, <1>7, <1>8, <1>9, <1>10, <1>11 DEF DecodeNext


-----------------------------------------------------------------------------
(* The trades.                                                              *)

\* The first event of a type is one of the events, and of that type.
LEMMA FirstEventIsThere ==
  ASSUME NEW tx, NEW S, tx.events \in Seq(S), NEW type, HasEvent(tx, type)
  PROVE  \E k \in 1 .. Len(tx.events) : /\ tx.events[k].kind = type
                                        /\ FirstEvent(tx, type) = tx.events[k]
<1> DEFINE I == {k \in 1 .. Len(tx.events) : tx.events[k].kind = type}
<1>1. Len(tx.events) \in Nat /\ I \in SUBSET (1 .. Len(tx.events)) /\ I # {}
  BY DEF HasEvent
<1>2. \E k \in I : \A j \in I : k <= j
  BY <1>1, LeastAndGreatest
<1>3. SelectInSeq(tx.events, LAMBDA e : e.kind = type) \in I
  BY <1>1, <1>2 DEF SelectInSeq, Min
<1> QED
  BY <1>3 DEF FirstEvent

\* What the decoders of PumpSwap return.
LEMMA DecodedIs ==
  ASSUME NEW tx, NEW inst, NEW index, inst.kind \in InstKinds, NEW S, tx.events \in Seq(S),
         \A k \in 1 .. Len(tx.events) : tx.events[k].kind \in EventKinds
  PROVE  LET t == DecodeInstruction(tx, inst, index, map)
             e == FirstEvent(tx, inst.kind)
         IN t \in {NoTrade, Error} \/
              /\ inst.kind \in EventKinds /\ HasEvent(tx, inst.kind)
              /\ t.kind = inst.kind /\ t.pool = e.pool /\ t.index = index
              /\ t.kind # "create" => /\ t.info = inst.pool
                                      /\ t.tokenAmountInt = ToSigned(e.base)
<1>1. CASE inst.kind \in {"buy", "sell"} /\ HasEvent(tx, inst.kind)
  <2>1. FirstEvent(tx, inst.kind).kind = inst.kind
    BY <1>1, FirstEventIsThere
  <2>2. DecodeInstruction(tx, inst, index, map) = DecodeSwap(tx, inst, index, map)
    BY <1>1 DEF DecodeInstruction
  <2> QED
    BY <1>1, <2>1, <2>2 DEF DecodeSwap, NewTrade, EventKinds
<1>2. CASE inst.kind \in {"buy", "sell"} /\ ~HasEvent(tx, inst.kind)
  BY <1>2 DEF DecodeInstruction, DecodeSwap
<1>3. CASE inst.kind = "create"
  BY <1>3 DEF DecodeInstruction, DecodeCreatePool, EventKinds
<1>4. CASE inst.kind \notin EventKinds
  <2>1. inst.kind # "buy" /\ inst.kind # "sell" /\ inst.kind # "create"
    BY <1>4 DEF EventKinds
  <2> QED
    BY <2>1 DEF DecodeInstruction
<1> QED
  BY <1>1, <1>2, <1>3, <1>4 DEF EventKinds

\* DecodeTx collects the trades of one transaction, each once.
LEMMA DecodeTxCollects ==
  ASSUME ChainInv, ExecInv, NEW i \in 1 .. Len(blk)
  PROVE  LET new == DecodeTx(blk[i], i, map)
         IN /\ \E S : new \in Seq(S)
            /\ \E in : /\ \A j \in 1 .. Len(new) : Yields(i, in[j]) /\ new[j] = TradeAt(i, in[j])
                       /\ \A j, k \in 1 .. Len(new) : in[j] = in[k] => j = k
                       /\ \A q : Yields(i, q) => \E j \in 1 .. Len(new) : in[j] = q
<1> DEFINE tx == blk[i]
           Decoded0 == [q \in DOMAIN tx.insts |-> DecodeInstruction(tx, tx.insts[q], i, map)]
           S == {q \in DOMAIN Decoded0 : Decoded0[q] # NoTrade}
           new == DecodeTx(blk[i], i, map)
<1>1. Decoded0 = [q \in DOMAIN tx.insts |-> TradeAt(i, q)]
  BY DEF TradeAt
<1>2. PICK T : tx.insts \in Seq(T)
  BY DEF ExecInv, Executed
<1>3. Len(tx.insts) \in Nat /\ DOMAIN tx.insts = 1 .. Len(tx.insts)
  BY <1>2
<1>4. new = IF tx.failed \/ \E q \in DOMAIN Decoded0 : Decoded0[q] = Error THEN <<>>
            ELSE Taken(Decoded0, S)
  BY DEF DecodeTx
<1>5. S = {q \in DOMAIN tx.insts : TradeAt(i, q) # NoTrade}
  BY <1>1
<1>6. \A q : Yields(i, q) <=> /\ ~tx.failed /\ q \in S
                              /\ \A r \in DOMAIN tx.insts : TradeAt(i, r) # Error
  BY <1>5 DEF Yields
<1> HIDE DEF Decoded0, S, new, tx
<1>7. CASE tx.failed \/ \E q \in DOMAIN Decoded0 : Decoded0[q] = Error
  <2>1. new = <<>> /\ new \in Seq({}) /\ Len(new) = 0
    BY <1>4, <1>7, EmptySeq
  <2>2. \A q : ~Yields(i, q)
    BY <1>1, <1>6, <1>7
  <2>3. 1 .. Len(new) = {}
    BY <2>1
  <2> QED
    BY <2>1, <2>2, <2>3 DEF new
<1>8. CASE ~(tx.failed \/ \E q \in DOMAIN Decoded0 : Decoded0[q] = Error)
  <2>1. S \in SUBSET Int /\ IsFiniteSet(S)
    <3>1. IsFiniteSet(1 .. Len(tx.insts)) /\ S \in SUBSET (1 .. Len(tx.insts))
      BY <1>3, <1>5, FS_Interval
    <3>2. IsFiniteSet(S)
      BY <3>1, FS_Subset
    <3>3. \A q \in S : q \in Int
      BY <1>3, <3>1
    <3> QED
      BY <3>2, <3>3
  <2> DEFINE c == Cardinality(S)
             in == [k \in 1 .. c |-> Nth(S, k)]
  <2>2. /\ c \in Nat /\ \A k \in 1 .. c : Nth(S, k) \in S
        /\ \A k, h \in 1 .. c : k < h => Nth(S, k) < Nth(S, h)
        /\ \A q \in S : \E k \in 1 .. c : Nth(S, k) = q
    BY <2>1, NthCounts
  <2>3. new = [k \in 1 .. c |-> Decoded0[Nth(S, k)]]
    BY <1>4, <1>8 DEF Taken
  <2> HIDE DEF c
  <2>4. \A k \in 1 .. c : new[k] = TradeAt(i, Nth(S, k)) /\ Nth(S, k) \in DOMAIN tx.insts
    BY <1>1, <1>5, <2>2, <2>3
  <2>5. new \in Seq({TradeAt(i, q) : q \in DOMAIN tx.insts}) /\ Len(new) = c
    <3> DEFINE V == {TradeAt(i, q) : q \in DOMAIN tx.insts}
    <3>1. new \in [1 .. c -> V]
      BY <2>3, <2>4
    <3> HIDE DEF V
    <3>2. new \in Seq(V)
      BY <2>2, <3>1, SeqDef
    <3>3. Len(new) = c
      BY <2>2, <3>1, <3>2, LenProperties
    <3> QED
      BY <3>2, <3>3 DEF V
  <2>6. \A k, h \in 1 .. c : Nth(S, k) = Nth(S, h) => k = h
    <3> TAKE k, h \in 1 .. c
    <3>1. k \in Int /\ h \in Int
      BY <2>2
    <3>2. Nth(S, k) \in S /\ Nth(S, h) \in S
      BY <2>2
    <3>3. Nth(S, k) \in Int /\ Nth(S, h) \in Int
      BY <2>1, <3>2
    <3> QED
      BY <2>2, <3>1, <3>3
  <2>7. \A q : Yields(i, q) <=> q \in S
    BY <1>1, <1>6, <1>8
  <2>8. /\ \A j \in 1 .. Len(new) : Yields(i, in[j]) /\ new[j] = TradeAt(i, in[j])
        /\ \A j, k \in 1 .. Len(new) : in[j] = in[k] => j = k
        /\ \A q : Yields(i, q) => \E j \in 1 .. Len(new) : in[j] = q
    BY <2>2, <2>4, <2>5, <2>6, <2>7
  <2> QED
    BY <2>5, <2>8 DEF new
<1> QED
  BY <1>7, <1>8


\* Sourced speaks of blk and map only.
LEMMA SameSourced ==
  ASSUME NEW s, NEW tx, NEW in, NEW m, Sourced(s, tx, in, m), blk' = blk, map' = map
  PROVE  Sourced(s, tx, in, m)'
<1>1. \A i, q : (Yields(i, q)' <=> Yields(i, q)) /\ TradeAt(i, q)' = TradeAt(i, q)
  BY DEF Yields, TradeAt
<1> QED
  BY <1>1 DEF Sourced

LEMMA SameCollected ==
  ASSUME NEW m, Collected(m), blk' = blk, map' = map, trades' = trades
  PROVE  Collected(m)'
<1>1. PICK tx, in : Sourced(trades, tx, in, m)
  BY DEF Collected
<1>2. PICK s : s = trades
  OBVIOUS
<1>3. Sourced(s, tx, in, m)'
  BY <1>1, <1>2, SameSourced
<1>4. Sourced(trades, tx, in, m)'
  BY <1>2, <1>3 DEF Sourced
<1> QED
  BY <1>4 DEF Collected

\* One more transaction is decoded.
LEMMA CollectedStep ==
  ASSUME ChainInv, ExecInv, NEW m \in 1 .. Len(blk), Collected(m - 1),
         blk' = blk, map' = map, trades' = trades \o DecodeTx(blk[m], m, map)
  PROVE  Collected(m)'
<1>1. PICK S, tx, in : trades \in Seq(S) /\ Sourced(trades, tx, in, m - 1)
  BY DEF Collected
<1>2. PICK new : new = DecodeTx(blk[m], m, map)
  OBVIOUS
<1>3. PICK T, in2 : /\ new \in Seq(T)
                    /\ \A j \in 1 .. Len(new) : Yields(m, in2[j]) /\ new[j] = TradeAt(m, in2[j])
                    /\ \A j, k \in 1 .. Len(new) : in2[j] = in2[k] => j = k
                    /\ \A q : Yields(m, q) => \E j \in 1 .. Len(new) : in2[j] = q
  <2>1. LET d == DecodeTx(blk[m], m, map)
        IN /\ \E V : d \in Seq(V)
           /\ \E in2 : /\ \A j \in 1 .. Len(d) : Yields(m, in2[j]) /\ d[j] = TradeAt(m, in2[j])
                       /\ \A j, k \in 1 .. Len(d) : in2[j] = in2[k] => j = k
                       /\ \A q : Yields(m, q) => \E j \in 1 .. Len(d) : in2[j] = q
    BY DecodeTxCollects
  <2>2. \E V : new \in Seq(V)
    BY <1>2, <2>1
  <2>3. \E in2 : /\ \A j \in 1 .. Len(new) : Yields(m, in2[j]) /\ new[j] = TradeAt(m, in2[j])
                 /\ \A j, k \in 1 .. Len(new) : in2[j] = in2[k] => j = k
                 /\ \A q : Yields(m, q) => \E j \in 1 .. Len(new) : in2[j] = q
    BY <1>2, <2>1
  <2> QED
    BY <2>2, <2>3
<1>4. PICK all : all = trades \o new
  OBVIOUS
<1>5. PICK L \in Nat : L = Len(trades)
  BY <1>1
<1>6. PICK M \in Nat : M = Len(new)
  BY <1>3
<1>7. /\ all \in Seq(S \cup T) /\ Len(all) = L + M
      /\ \A j \in 1 .. L : all[j] = trades[j]
      /\ \A j \in L + 1 .. L + M : all[j] = new[j - L]
  <2>1. trades \in Seq(S \cup T) /\ new \in Seq(S \cup T)
    BY <1>1, <1>3, SeqMonotonic
  <2>2. /\ all \in Seq(S \cup T) /\ Len(all) = Len(trades) + Len(new)
        /\ \A j \in 1 .. Len(trades) + Len(new) :
             all[j] = IF j <= Len(trades) THEN trades[j] ELSE new[j - Len(trades)]
    BY <1>4, <2>1, ConcatProperties
  <2>3. \A j \in 1 .. L + M : all[j] = IF j <= L THEN trades[j] ELSE new[j - L]
    BY <1>5, <1>6, <2>2
  <2>4. /\ \A j \in 1 .. L : j \in 1 .. L + M /\ j <= L
        /\ \A j \in L + 1 .. L + M : j \in 1 .. L + M /\ ~(j <= L)
    OBVIOUS
  <2>5. \A j \in 1 .. L : all[j] = trades[j]
    BY <2>3, <2>4
  <2>6. \A j \in L + 1 .. L + M : all[j] = new[j - L]
    BY <2>3, <2>4
  <2> QED
    BY <1>5, <1>6, <2>2, <2>5, <2>6
<1> DEFINE tx1 == [j \in 1 .. L + M |-> IF j <= L THEN tx[j] ELSE m]
           in1 == [j \in 1 .. L + M |-> IF j <= L THEN in[j] ELSE in2[j - L]]
<1>8. Len(blk) \in Nat /\ m \in Nat \ {0}
  BY DEF ChainInv, BlkInv
<1>9. /\ \A j \in 1 .. L : tx1[j] = tx[j] /\ in1[j] = in[j] /\ j \in 1 .. L + M
      /\ \A j \in 1 .. M : /\ tx1[L + j] = m /\ in1[L + j] = in2[j] /\ L + j \in 1 .. L + M
                           /\ all[L + j] = new[j]
      /\ \A j \in 1 .. L + M : j \in 1 .. L \/ \E k \in 1 .. M : j = L + k
  <2>1. \A j \in 1 .. L : tx1[j] = tx[j] /\ in1[j] = in[j] /\ j \in 1 .. L + M
    OBVIOUS
  <2>2. \A j \in 1 .. M : L + j \in L + 1 .. L + M /\ (L + j) - L = j /\ ~(L + j <= L)
    OBVIOUS
  <2>3. \A j \in 1 .. M : /\ tx1[L + j] = m /\ in1[L + j] = in2[j] /\ L + j \in 1 .. L + M
                          /\ all[L + j] = new[j]
    BY <1>7, <2>2
  <2>4. ASSUME NEW j \in 1 .. L + M, j \notin 1 .. L PROVE \E k \in 1 .. M : j = L + k
    <3>1. j - L \in 1 .. M /\ j = L + (j - L)
      BY <2>4
    <3> QED
      BY <3>1
  <2> QED
    BY <2>1, <2>3, <2>4
<1> HIDE DEF tx1, in1
<1>10. ASSUME NEW j \in 1 .. L + M
       PROVE  /\ tx1[j] \in 1 .. m /\ Yields(tx1[j], in1[j])
              /\ all[j] = TradeAt(tx1[j], in1[j])
  <2>1. CASE j \in 1 .. L
    <3>1. tx[j] \in 1 .. m - 1 /\ Yields(tx[j], in[j]) /\ trades[j] = TradeAt(tx[j], in[j])
      BY <1>1, <1>5, <2>1 DEF Sourced
    <3> QED
      BY <1>7, <1>8, <1>9, <2>1, <3>1
  <2>2. ASSUME NEW k \in 1 .. M, j = L + k
        PROVE  tx1[j] \in 1 .. m /\ Yields(tx1[j], in1[j]) /\ all[j] = TradeAt(tx1[j], in1[j])
    BY <1>3, <1>6, <1>8, <1>9, <2>2
  <2> QED
    BY <1>9, <2>1, <2>2
<1>11. ASSUME NEW j \in 1 .. L + M, NEW k \in 1 .. L + M, tx1[j] = tx1[k], in1[j] = in1[k]
       PROVE  j = k
  <2>1. \A h \in 1 .. L : tx1[h] # m
    BY <1>1, <1>5, <1>8, <1>9 DEF Sourced
  <2>2. CASE j \in 1 .. L
    <3>1. k \in 1 .. L
      BY <1>9, <1>11, <2>1, <2>2
    <3> QED
      BY <1>1, <1>5, <1>9, <1>11, <2>2, <3>1 DEF Sourced
  <2>3. CASE j \notin 1 .. L
    <3>1. PICK j2 \in 1 .. M : j = L + j2
      BY <1>9, <2>3
    <3>2. k \notin 1 .. L
      BY <1>9, <1>11, <2>1, <3>1
    <3>3. PICK k2 \in 1 .. M : k = L + k2
      BY <1>9, <3>2
    <3>4. in2[j2] = in2[k2]
      BY <1>9, <1>11, <3>1, <3>3
    <3> QED
      BY <1>3, <1>6, <3>1, <3>3, <3>4
  <2> QED
    BY <2>2, <2>3
<1>12. ASSUME NEW i \in 1 .. m, NEW q, Yields(i, q)
       PROVE  \E j \in 1 .. L + M : tx1[j] = i /\ in1[j] = q
  <2>1. CASE i = m
    <3>1. PICK j \in 1 .. M : in2[j] = q
      BY <1>3, <1>6, <1>12, <2>1
    <3> QED
      BY <1>9, <2>1, <3>1
  <2>2. CASE i # m
    <3>1. i \in 1 .. m - 1
      BY <1>8, <2>2
    <3>2. PICK j \in 1 .. L : tx[j] = i /\ in[j] = q
      BY <1>1, <1>5, <1>12, <3>1 DEF Sourced
    <3> QED
      BY <1>9, <3>2
  <2> QED
    BY <2>1, <2>2
<1>13. Sourced(all, tx1, in1, m)
  <2>1. 1 .. Len(all) = 1 .. L + M
    BY <1>7
  <2> QED
    BY <1>10, <1>11, <1>12, <2>1 DEF Sourced
<1>14. PICK tx2, in3 : Sourced(all, tx2, in3, m)
  BY <1>13
<1>15. Sourced(all, tx2, in3, m)'
  BY <1>14, SameSourced
<1>16. trades' = all
  BY <1>2, <1>4
<1>17. Sourced(trades, tx2, in3, m)'
  BY <1>15, <1>16 DEF Sourced
<1>18. \E U : trades' \in Seq(U)
  BY <1>7, <1>16
<1> QED
  BY <1>17, <1>18 DEF Collected


LEMMA TradesStep ==
  ASSUME DecodeInv, ExecInv, TradesInv, [DecodeNext]_decodeVars PROVE TradesInv'
<1> USE DEF DecodeInv
<1>1. Len(blk) \in Nat /\ phase \in {"chain", "fill", "decode", "accounts", "saved"}
  BY DEF ChainInv, BlkInv, FilledInv
<1>2. CASE phase' \in {"chain", "fill"} /\ phase \in {"chain", "fill"} /\ trades' = trades
  BY <1>2 DEF TradesInv, Decoded
<1>3. CASE FillTx /\ phase' = "decode"
  <2>1. trades' = <<>> /\ n' = 1 /\ blk' = blk /\ n \in 1 .. Len(blk)
    BY <1>3 DEF FillTx, TradesInv, FilledInv, chainVars
  <2>2. n' \in 1 .. Len(blk)' /\ (n - 1)' = 0
    BY <1>1, <2>1
  <2>3. trades' \in Seq({}) /\ 1 .. Len(trades)' = {} /\ 1 .. 0 = {}
    <3>1. <<>> \in Seq({}) /\ Len(<<>>) = 0
      BY EmptySeq
    <3> QED
      BY <2>1, <3>1
  <2>4. Sourced(trades, <<>>, <<>>, 0)'
    BY <2>3 DEF Sourced
  <2>5. Collected(n - 1)'
    BY <2>2, <2>3, <2>4 DEF Collected
  <2> QED
    BY <1>3, <2>2, <2>5 DEF TradesInv, Decoded
<1>4. CASE DecodeNextTx
  <2>1. /\ n \in 1 .. Len(blk) /\ Collected(n - 1) /\ blk' = blk /\ map' = map
        /\ trades' = trades \o DecodeTx(blk[n], n, map)
    BY <1>4 DEF DecodeNextTx, TradesInv, chainVars
  <2>2. PICK m \in 1 .. Len(blk) : m = n
    BY <2>1
  <2>3. Collected(m)'
    BY <2>1, <2>2, CollectedStep
  <2>4. CASE n < Len(blk)
    <3>1. n' = n + 1 /\ phase' = "decode"
      BY <1>4, <2>4 DEF DecodeNextTx
    <3>2. n' \in 1 .. Len(blk)' /\ (n - 1)' = m
      BY <1>1, <2>1, <2>2, <2>4, <3>1
    <3>3. Collected(n - 1)'
      BY <2>3, <3>2 DEF Collected
    <3> QED
      BY <3>1, <3>2, <3>3 DEF TradesInv, Decoded
  <2>5. CASE ~(n < Len(blk))
    <3>1. phase' = "accounts"
      BY <1>4, <2>5 DEF DecodeNextTx
    <3>2. m = Len(blk)'
      BY <1>1, <2>1, <2>2, <2>5
    <3>3. Collected(Len(blk))'
      BY <2>3, <3>2 DEF Collected
    <3> QED
      BY <3>1, <3>3 DEF TradesInv, Decoded
  <2> QED
    BY <2>4, <2>5
<1>5. CASE UNCHANGED <<blk, map, trades>> /\ Decoded /\ Decoded'
  <2>1. PICK m : m = Len(blk)
    OBVIOUS
  <2>2. Collected(m)'
    BY <1>5, <2>1, SameCollected DEF TradesInv
  <2>3. Collected(Len(blk))'
    BY <1>5, <2>1, <2>2 DEF Collected
  <2> QED
    BY <1>5, <2>3 DEF TradesInv, Decoded
<1>6. CASE UNCHANGED decodeVars
  <2>1. blk' = blk /\ map' = map /\ trades' = trades /\ phase' = phase /\ n' = n
    BY <1>6 DEF decodeVars
  <2>2. CASE phase = "decode"
    <3>1. PICK m : m = n - 1
      OBVIOUS
    <3>2. Collected(m)'
      BY <2>1, <2>2, <3>1, SameCollected DEF TradesInv
    <3>3. Collected(n - 1)'
      BY <2>1, <3>1, <3>2 DEF Collected
    <3> QED
      BY <2>1, <2>2, <3>3 DEF TradesInv, Decoded
  <2>3. CASE Decoded
    BY <1>5, <2>1, <2>3 DEF Decoded
  <2> QED
    BY <1>1, <1>2, <2>1, <2>2, <2>3 DEF Decoded
<1>7. ASSUME DecodeNext, ~DecodeNextTx, ~(FillTx /\ phase' = "decode")
      PROVE  \/ phase' \in {"chain", "fill"} /\ phase \in {"chain", "fill"} /\ trades' = trades
             \/ UNCHANGED <<blk, map, trades>> /\ Decoded /\ Decoded'
  <2> USE DEF Decoded
  <2>1. CASE phase = "chain"
    BY <1>7, <2>1 DEF DecodeNext, Call, Swap, CreatePool, Open, Close, Move, SetOwner, EndTx, Step,
         BlockFetched, FillTx, DecodeNextTx, Saving, SaveTokenAccounts, FindPool, InsertPool,
         PoolQueryFails, OtherWorkerInserts, saveVars, chainVars
  <2>2. CASE FillTx
    BY <1>7, <2>2 DEF FillTx
  <2>3. CASE phase # "chain" /\ ~FillTx
    BY <1>7, <2>3 DEF DecodeNext, Call, Swap, CreatePool, Open, Close, Move, SetOwner, EndTx, Step,
         BlockFetched, Saving, SaveTokenAccounts, FindPool, InsertPool,
         PoolQueryFails, OtherWorkerInserts, saveVars, chainVars
  <2> QED
    BY <2>1, <2>2, <2>3
<1> QED
  BY <1>2, <1>3, <1>4, <1>5, <1>6, <1>7

-----------------------------------------------------------------------------
(* What is saved was executed.                                              *)

\* What a trade says, and the event in the logs that it was read from.
LEMMA TradeIs ==
  ASSUME ExecInv, NEW i \in 1 .. Len(blk), NEW q, Yields(i, q)
  PROVE  LET t == TradeAt(i, q)
             inst == blk[i].insts[q]
         IN /\ t.index = i /\ t.kind = inst.kind /\ t.kind \in EventKinds
            /\ HasEvent(blk[i], t.kind)
            /\ \E k \in 1 .. Len(blk[i].wrote) :
                 LET e == blk[i].wrote[k]
                 IN /\ e = FirstEvent(blk[i], t.kind) /\ e.kind = t.kind /\ t.pool = e.pool
                    /\ t.kind # "create" => /\ t.info = inst.pool
                                            /\ t.tokenAmountInt = ToSigned(e.base)
<1> DEFINE tx == blk[i]
           inst == tx.insts[q]
           t == TradeAt(i, q)
<1>1. PICK T, kept : /\ kept \in 0 .. Len(tx.wrote) /\ tx.wrote \in Seq(T)
                     /\ tx.events = SubSeq(tx.wrote, 1, kept)
  BY DEF ExecInv, Executed, Kept
<1>2. /\ tx.events \in Seq(T) /\ Len(tx.events) = kept
      /\ \A k \in 1 .. kept : k \in 1 .. Len(tx.wrote) /\ tx.events[k] = tx.wrote[k]
  BY <1>1
<1>3. DOMAIN tx.insts = 1 .. Len(tx.insts)
  BY DEF ExecInv, Executed
<1>4. inst.kind \in InstKinds /\ t \notin {NoTrade, Error}
  BY <1>3 DEF Yields, ExecInv, Executed
<1>5. \A k \in 1 .. Len(tx.events) : tx.events[k].kind \in EventKinds
  BY <1>2 DEF ExecInv, Executed
<1>6. t = DecodeInstruction(tx, inst, i, map)
  BY DEF TradeAt
<1> HIDE DEF tx, inst, t
<1>7. LET e == FirstEvent(tx, inst.kind)
      IN /\ inst.kind \in EventKinds /\ HasEvent(tx, inst.kind)
         /\ t.kind = inst.kind /\ t.pool = e.pool /\ t.index = i
         /\ t.kind # "create" => t.info = inst.pool /\ t.tokenAmountInt = ToSigned(e.base)
  BY <1>2, <1>4, <1>5, <1>6, DecodedIs
<1>8. PICK k \in 1 .. Len(tx.events) : /\ tx.events[k].kind = inst.kind
                                       /\ FirstEvent(tx, inst.kind) = tx.events[k]
  BY <1>2, <1>7, FirstEventIsThere
<1>9. k \in 1 .. Len(tx.wrote) /\ tx.wrote[k] = FirstEvent(tx, inst.kind) /\ tx.wrote[k].kind = inst.kind
  BY <1>2, <1>8
<1> QED
  BY <1>7, <1>9 DEF tx, inst, t

LEMMA SavedFollows == DecodeInv /\ ExecInv /\ TradesInv => SavedWasExecuted
<1> SUFFICES ASSUME DecodeInv, ExecInv, TradesInv, Decoded, NEW j \in DOMAIN trades,
                    Saved(trades[j])
             PROVE  /\ ~blk[trades[j].index].failed
                    /\ \E k \in DOMAIN blk[trades[j].index].wrote :
                         LET e == blk[trades[j].index].wrote[k]
                         IN /\ e.kind = trades[j].kind /\ e.pool = trades[j].pool
                            /\ trades[j].tokenAmountInt = ToSigned(e.base)
  BY DEF SavedWasExecuted
<1>1. PICK S, tx, in : trades \in Seq(S) /\ Sourced(trades, tx, in, Len(blk))
  BY DEF TradesInv, Collected
<1>2. PICK i, q : i \in 1 .. Len(blk) /\ Yields(i, q) /\ trades[j] = TradeAt(i, q)
  BY <1>1 DEF Sourced
<1>3. /\ trades[j].index = i
      /\ \E k \in 1 .. Len(blk[i].wrote) :
           LET e == blk[i].wrote[k]
           IN /\ e.kind = trades[j].kind /\ trades[j].pool = e.pool
              /\ trades[j].kind # "create" => trades[j].tokenAmountInt = ToSigned(e.base)
  BY <1>2, TradeIs
<1>4. trades[j].kind # "create"
  BY DEF Saved, HasPrice
<1>5. DOMAIN blk[i].wrote = 1 .. Len(blk[i].wrote)
  BY DEF ExecInv, Executed
<1> QED
  BY <1>2, <1>3, <1>4, <1>5 DEF Yields


LEMMA InitTrades == DecodeInit => ExecInv /\ TradesInv
<1> SUFFICES ASSUME DecodeInit PROVE ExecInv /\ TradesInv
  OBVIOUS
<1>1. cur = EmptyTx /\ blk = <<>> /\ phase = "chain" /\ trades = <<>>
  BY DEF DecodeInit
<1>2. Len(blk) = 0 /\ Executed(cur.insts, cur.events)
  BY <1>1, NothingExecuted DEF EmptyTx
<1>3. 1 .. Len(blk) = {}
  BY <1>2
<1> QED
  BY <1>1, <1>2, <1>3 DEF ExecInv, TradesInv, Decoded

\* No trade without a swap: what is saved was executed in a transaction that did
\* not fail, at that pool, with that amount up to the sign bit, in a block of any
\* number of transactions (DecodeTx, the decoders of PumpSwap).
THEOREM SavedWasExecutedTheorem == DecodeSpec => []SavedWasExecuted
<1> DEFINE Inv == DecodeInv /\ ExecInv /\ TradesInv
<1>1. DecodeInit => Inv
  BY InitDecodeInv, InitTrades
<1>2. Inv /\ [DecodeNext]_decodeVars => Inv'
  BY ChainStep, FillStep, ExecStep, TradesStep DEF DecodeInv
<1>3. Inv => SavedWasExecuted
  BY SavedFollows
<1> QED
  BY <1>1, <1>2, <1>3, PTL DEF DecodeSpec

-----------------------------------------------------------------------------
(* The pool rows.                                                           *)

\* A row of a pool may hold another's accounts.
Mixed(p, q) == \E i \in DOMAIN blk : SwapBoth(blk[i], p, q)

TableRows == Pools \cup {NoRow, OtherRow}

\* What the pool goroutine has done with the trades before the one it is at.
PoolsInv ==
  /\ poolRows \in [Pools -> TableRows] /\ at \in Nat \ {0}
  /\ ~Saving => at = 1 /\ ~found /\ poolRows = [p \in Pools |-> NoRow]
  /\ found => at \in 1 .. Len(trades) /\ ~Skipped
  /\ \A p \in Pools : poolRows[p] \in {NoRow, OtherRow, p} \/ Mixed(p, poolRows[p])
  /\ \A j \in 1 .. Len(trades) : j < at =>
       trades[j].kind = "create" \/ refused \/ poolRows[trades[j].pool] # NoRow

\* A swap's trade names pools, and its own twice, if no kind of swap is repeated.
LEMMA TradedPools ==
  ASSUME BlkInv, ExecInv, TradesInv, Decoded, NEW j \in 1 .. Len(trades), trades[j].kind # "create"
  PROVE  /\ trades[j].pool \in Pools /\ trades[j].info \in Pools
         /\ trades[j].info = trades[j].pool \/ Mixed(trades[j].pool, trades[j].info)
<1>1. PICK i, q : i \in 1 .. Len(blk) /\ Yields(i, q) /\ trades[j] = TradeAt(i, q)
  BY DEF TradesInv, Collected, Sourced
<1> DEFINE tx == blk[i]
<1>2. PICK k \in 1 .. Len(tx.wrote) :
        /\ trades[j].kind = tx.insts[q].kind /\ trades[j].kind \in EventKinds
        /\ tx.wrote[k].kind = trades[j].kind /\ trades[j].pool = tx.wrote[k].pool
        /\ trades[j].info = tx.insts[q].pool
  BY <1>1, TradeIs
<1>3. Executed(tx.insts, tx.wrote)
  BY <1>1 DEF ExecInv
<1>4. PICK g : WroteFrom(g, tx.insts, tx.wrote)
  BY <1>3 DEF Executed
<1>5. DOMAIN tx.insts = 1 .. Len(tx.insts) /\ q \in DOMAIN tx.insts
  BY <1>1, <1>3 DEF Executed, Yields
<1>6. i \in DOMAIN blk
  BY <1>1 DEF BlkInv
<1> HIDE DEF tx
<1>7. trades[j].pool \in Pools /\ \A h \in 1 .. Len(tx.wrote) : tx.wrote[h].pool \in Pools
  BY <1>2, <1>3 DEF Executed
<1>8. PICK h \in 1 .. Len(tx.wrote) : g[h] = q
  BY <1>2, <1>4, <1>5 DEF WroteFrom
<1>9. trades[j].info \in Pools
  BY <1>2, <1>4, <1>7, <1>8 DEF WroteFrom
<1>10. g[k] \in DOMAIN tx.insts /\ tx.insts[g[k]].pool = trades[j].pool
       /\ tx.insts[g[k]].kind \in {trades[j].kind, "exact"}
  BY <1>2, <1>4, <1>5 DEF WroteFrom
<1>11. tx.insts[g[k]].kind # "exact"
  <2>1. TradeAt(i, g[k]) # Error
    BY <1>1, <1>10 DEF Yields, tx
  <2> QED
    BY <2>1 DEF TradeAt, DecodeInstruction, tx
<1>12. trades[j].kind \in {"buy", "sell"}
  BY <1>2 DEF EventKinds
<1>13. SwapBoth(tx, trades[j].pool, trades[j].info)
  BY <1>1, <1>2, <1>5, <1>10, <1>11, <1>12 DEF SwapBoth, Yields, tx
<1> QED
  BY <1>6, <1>7, <1>9, <1>13 DEF Mixed, tx


LEMMA PoolsStep ==
  ASSUME DecodeInv, ExecInv, TradesInv, PoolsInv, [DecodeNext]_decodeVars PROVE PoolsInv'
<1>1. PICK L \in Nat : L = Len(trades)
  <2>1. CASE phase \in {"chain", "fill"}
    <3>1. trades = <<>> /\ Len(<<>>) = 0
      BY <2>1, EmptySeq DEF TradesInv
    <3> QED
      BY <3>1
  <2>2. CASE phase = "decode" \/ Decoded
    <3>1. \E S : trades \in Seq(S)
      BY <2>2 DEF TradesInv, Collected
    <3> QED
      BY <3>1
  <2> QED
    BY <2>1, <2>2 DEF DecodeInv, FilledInv, Decoded
<1>2. /\ Saving <=> Decoded
      /\ \A j \in 1 .. L : Decoded /\ trades[j].kind # "create" =>
           /\ trades[j].pool \in Pools /\ trades[j].info \in Pools
           /\ trades[j].info = trades[j].pool \/ Mixed(trades[j].pool, trades[j].info)
  BY <1>1, TradedPools DEF Saving, Decoded, DecodeInv, ChainInv
<1>3. /\ poolRows \in [Pools -> TableRows] /\ at \in Nat \ {0}
      /\ ~Saving => at = 1 /\ ~found /\ poolRows = [p \in Pools |-> NoRow]
      /\ found => at \in 1 .. L /\ ~Skipped
      /\ \A p \in Pools : poolRows[p] \in {NoRow, OtherRow, p} \/ Mixed(p, poolRows[p])
      /\ \A j \in 1 .. L : j < at =>
           trades[j].kind = "create" \/ refused \/ poolRows[trades[j].pool] # NoRow
  BY <1>1 DEF PoolsInv
\* Nothing but `found` and the query's failure changes.
<1>4. ASSUME Saving, phase' = phase, UNCHANGED <<blk, trades, poolRows>>, at' = at + 1, ~found',
             at <= L, refused => refused',
             trades[at].kind = "create" \/ refused' \/ poolRows[trades[at].pool] # NoRow
      PROVE  PoolsInv'
  <2>1. \A j \in 1 .. L : j < at' => j < at \/ j = at
    BY <1>3, <1>4
  <2>2. \A j \in 1 .. L : j < at' =>
           trades[j].kind = "create" \/ refused' \/ poolRows[trades[j].pool] # NoRow
    BY <1>3, <1>4, <2>1
  <2>3. at' \in Nat \ {0} /\ Saving' /\ \A p, q : Mixed(p, q)' <=> Mixed(p, q)
    BY <1>3, <1>4 DEF Saving, Mixed
  <2> QED
    BY <1>1, <1>3, <1>4, <2>2, <2>3 DEF PoolsInv
\* A row is inserted where there was none.
<1>5. ASSUME Saving, phase' = phase, UNCHANGED <<blk, trades, refused>>, found,
             NEW row \in Pools \cup {OtherRow},
             poolRows' = [poolRows EXCEPT ![trades[at].pool] = IF @ = NoRow THEN row ELSE @],
             row \in {OtherRow, trades[at].pool} \/ Mixed(trades[at].pool, row),
             (at' = at /\ found' = found) \/ (at' = at + 1 /\ ~found')
      PROVE  PoolsInv'
  <2>1. at \in 1 .. L /\ trades[at].kind # "create" /\ trades[at].pool \in Pools
    BY <1>2, <1>3, <1>5 DEF Skipped
  <2>2. PICK p0 \in Pools : p0 = trades[at].pool
    BY <2>1
  <2>3. /\ poolRows' \in [Pools -> TableRows]
        /\ \A p \in Pools : p # p0 => poolRows'[p] = poolRows[p]
        /\ poolRows'[p0] = IF poolRows[p0] = NoRow THEN row ELSE poolRows[p0]
    BY <1>3, <1>5, <2>2 DEF TableRows
  <2>4. row # NoRow
    BY BlockAssumption DEF NoRow, OtherRow
  <2>5. poolRows'[p0] # NoRow /\ \A p \in Pools : poolRows[p] # NoRow => poolRows'[p] # NoRow
    BY <2>3, <2>4
  <2>6. \A p \in Pools : poolRows'[p] \in {NoRow, OtherRow, p} \/ Mixed(p, poolRows'[p])
    BY <1>3, <1>5, <2>2, <2>3
  <2>7. /\ at \in Nat \ {0} /\ (at' = at \/ at' = at + 1)
        /\ \A j \in 1 .. L : j < at' => j < at \/ j = at
    <3>1. at' = at \/ at' = at + 1
      BY <1>5, Zenon
    <3>2. at \in Nat \ {0}
      BY <1>3
    <3> QED
      BY <3>1, <3>2
  <2>8. \A j \in 1 .. L : j < at' =>
           trades[j].kind = "create" \/ refused \/ poolRows'[trades[j].pool] # NoRow
    BY <1>2, <1>3, <1>5, <2>2, <2>5, <2>7 DEF Saving, Decoded
  <2>9. at' \in Nat \ {0} /\ Saving' /\ \A p, q : Mixed(p, q)' <=> Mixed(p, q)
    <3>1. Saving' /\ \A p, q : Mixed(p, q)' <=> Mixed(p, q)
      BY <1>5 DEF Saving, Mixed
    <3>2. at' \in Nat \ {0}
      BY <2>7
    <3> QED
      BY <3>1, <3>2
  <2>10. found' => at' \in 1 .. L /\ trades[at'].kind # "create"
    BY <1>5, <2>1
  <2> QED
    BY <1>1, <1>5, <2>3, <2>6, <2>8, <2>9, <2>10 DEF PoolsInv, Skipped
<1>6. CASE FindPool
  <2>1. /\ Saving /\ phase' = phase /\ at <= L /\ refused' = refused
        /\ UNCHANGED <<blk, trades, poolRows>>
    BY <1>1, <1>6 DEF FindPool, chainVars
  <2>2. CASE Skipped \/ poolRows[trades[at].pool] # NoRow
    <3>1. at' = at + 1 /\ found' = found /\ ~found
      BY <1>6, <2>2 DEF FindPool
    <3> QED
      BY <1>4, <2>1, <2>2, <3>1 DEF Skipped
  <2>3. CASE ~(Skipped \/ poolRows[trades[at].pool] # NoRow)
    <3>1. at' = at /\ found' = TRUE /\ at \in 1 .. L /\ trades[at].kind # "create"
      BY <1>3, <1>6, <2>1, <2>3 DEF FindPool, Skipped
    <3>2. Saving' /\ \A p, q : Mixed(p, q)' <=> Mixed(p, q)
      BY <2>1 DEF Saving, Mixed
    <3> QED
      BY <1>1, <1>3, <2>1, <3>1, <3>2 DEF PoolsInv, Skipped
  <2> QED
    BY <2>2, <2>3
<1>7. CASE InsertPool
  <2>1. /\ Saving /\ phase' = phase /\ found /\ ~found' /\ at' = at + 1
        /\ UNCHANGED <<blk, trades, refused>>
        /\ poolRows' = [poolRows EXCEPT ![trades[at].pool] = IF @ = NoRow THEN trades[at].info ELSE @]
    BY <1>7 DEF InsertPool, chainVars
  <2>2. /\ trades[at].info \in Pools
        /\ trades[at].info = trades[at].pool \/ Mixed(trades[at].pool, trades[at].info)
    BY <1>2, <1>3, <2>1 DEF Skipped
  <2>3. PICK row \in Pools : row = trades[at].info
    BY <2>2
  <2> QED
    BY <1>5, <2>1, <2>2, <2>3
<1>8. CASE PoolQueryFails
  <2>1. /\ Saving /\ phase' = phase /\ at <= L /\ ~found' /\ at' = at + 1 /\ refused' = TRUE
        /\ UNCHANGED <<blk, trades, poolRows>>
    BY <1>1, <1>8 DEF PoolQueryFails, chainVars
  <2> QED
    BY <1>4, <2>1
<1>9. ASSUME NEW pool \in Pools, OtherWorkerInserts(pool) PROVE PoolsInv'
  <2>1. /\ Saving /\ phase' = phase /\ found /\ found' = found /\ at' = at
        /\ UNCHANGED <<blk, trades, refused>> /\ pool = trades[at].pool /\ poolRows[pool] = NoRow
        /\ poolRows' = [poolRows EXCEPT ![pool] = OtherRow]
    BY <1>9 DEF OtherWorkerInserts, chainVars
  <2>2. poolRows' = [poolRows EXCEPT ![trades[at].pool] = IF @ = NoRow THEN OtherRow ELSE @]
    BY <1>3, <2>1
  <2> QED
    BY <1>5, <2>1, <2>2
\* The steps before the rows, and the other goroutine.
<1>10. CASE UNCHANGED <<poolRows, at, found, refused>> /\ (Saving => Saving' /\ UNCHANGED <<blk, trades>>)
  <2>1. CASE Saving
    <3>1. \A p, q : Mixed(p, q)' <=> Mixed(p, q)
      BY <1>10, <2>1 DEF Mixed
    <3> QED
      BY <1>1, <1>3, <1>10, <2>1, <3>1 DEF PoolsInv, Skipped
  <2>2. CASE ~Saving
    <3>1. at = 1 /\ ~found /\ poolRows = [p \in Pools |-> NoRow]
      BY <1>3, <2>2
    <3>2. \A j \in 1 .. Len(trades') : ~(j < 1)
      OBVIOUS
    <3> QED
      BY <1>3, <1>10, <3>1, <3>2 DEF PoolsInv
  <2> QED
    BY <2>1, <2>2
<1>11. ASSUME DecodeNext, ~FindPool, ~InsertPool, ~PoolQueryFails,
              ~\E pool \in Pools : OtherWorkerInserts(pool)
       PROVE  /\ UNCHANGED <<poolRows, at, found, refused>>
              /\ Saving => Saving' /\ UNCHANGED <<blk, trades>>
  BY <1>11 DEF DecodeNext, Call, Swap, CreatePool, Open, Close, Move, SetOwner, EndTx, Step,
     BlockFetched, FillTx, DecodeNextTx, Saving, SaveTokenAccounts, saveVars, chainVars
<1>12. CASE UNCHANGED decodeVars
  <2>1. UNCHANGED <<poolRows, at, found, refused>> /\ (Saving => Saving' /\ UNCHANGED <<blk, trades>>)
    BY <1>12 DEF decodeVars, Saving
  <2> QED
    BY <1>10, <2>1
<1> QED
  BY <1>6, <1>7, <1>8, <1>9, <1>10, <1>11, <1>12

LEMMA PoolRowsFollow == TradesInv /\ PoolsInv => PoolRowIsThePools
<1> SUFFICES ASSUME TradesInv, PoolsInv, NEW p \in Pools
             PROVE  /\ poolRows[p] \in {NoRow, OtherRow, p} \/ Mixed(p, poolRows[p])
                    /\ /\ Decoded /\ at > Len(trades) /\ ~refused
                       /\ \E j \in DOMAIN trades : trades[j].kind # "create" /\ trades[j].pool = p
                       => poolRows[p] # NoRow
  BY DEF PoolRowIsThePools, Mixed
<1>1. poolRows[p] \in {NoRow, OtherRow, p} \/ Mixed(p, poolRows[p])
  BY DEF PoolsInv
<1>2. ASSUME Decoded, at > Len(trades), ~refused,
             NEW j \in DOMAIN trades, trades[j].kind # "create", trades[j].pool = p
      PROVE  poolRows[p] # NoRow
  <2>1. PICK S : trades \in Seq(S)
    BY <1>2 DEF TradesInv, Collected
  <2>2. j \in 1 .. Len(trades) /\ j < at
    BY <1>2, <2>1 DEF PoolsInv
  <2> QED
    BY <1>2, <2>2 DEF PoolsInv
<1> QED
  BY <1>1, <1>2

\* A pool's row that the block made holds the accounts of that pool, or of one that
\* the same transaction swaps at in the same way, and every pool traded has its row
\* when the goroutine is done and no query failed, whichever worker inserted it, for
\* any number of trades, pools and transactions (SavePumpSwapPoolInfo,
\* newPumpAmmInfo).
THEOREM PoolRowTheorem == DecodeSpec => []PoolRowIsThePools
<1> DEFINE Inv == DecodeInv /\ ExecInv /\ TradesInv /\ PoolsInv
<1>1. DecodeInit => Inv
  <2>1. DecodeInit => PoolsInv
    <3> SUFFICES ASSUME DecodeInit PROVE PoolsInv
      OBVIOUS
    <3>1. /\ phase = "chain" /\ trades = <<>> /\ Len(<<>>) = 0 /\ at = 1 /\ found = FALSE
          /\ poolRows = [p \in Pools |-> NoRow]
      BY EmptySeq DEF DecodeInit
    <3>2. 1 .. Len(trades) = {}
      BY <3>1
    <3> QED
      BY <3>1, <3>2 DEF PoolsInv, TableRows
  <2> QED
    BY <2>1, InitDecodeInv, InitTrades
<1>2. Inv /\ [DecodeNext]_decodeVars => Inv'
  BY ChainStep, FillStep, ExecStep, TradesStep, PoolsStep DEF DecodeInv
<1>3. Inv => PoolRowIsThePools
  BY PoolRowsFollow
<1> QED
  BY <1>1, <1>2, <1>3, PTL DEF DecodeSpec


-----------------------------------------------------------------------------
(* A pool's accounts.                                                       *)

VaultMint(p, v) == IF v = BaseVault[p] THEN BaseMint[p] ELSE QuoteMint[p]

\* Both accounts of a pool are closed, or both are open with its tokens.
LedgerVaults(l) == \A p \in Pools :
  \/ \A v \in VaultsOf(p) : l[v] = Closed
  \/ \A v \in VaultsOf(p) : l[v] # Closed /\ l[v].mint = VaultMint(p, v)

AsVaults(f) == \A p \in Pools : \A v \in VaultsOf(p) : v \in DOMAIN f => f[v].mint = VaultMint(p, v)

\* What is told of a pool's accounts has its tokens; and a transaction with a swap
\* that did not fail reports them as open.
VaultsInv ==
  /\ LedgerVaults(ledger) /\ LedgerVaults(start) /\ AsVaults(cur.opens)
  /\ \A k \in 1 .. Len(cur.events) : cur.events[k].kind \in {"buy", "sell"} =>
       /\ VaultsOf(cur.events[k].pool) \subseteq cur.touched
       /\ ledger[BaseVault[cur.events[k].pool]] # Closed
  /\ \A i \in 1 .. Len(blk) :
       /\ AsVaults(blk[i].pre) /\ AsVaults(blk[i].post) /\ AsVaults(blk[i].opens)
       /\ ~blk[i].failed => \A k \in 1 .. Len(blk[i].wrote) :
            blk[i].wrote[k].kind \in {"buy", "sell"} =>
              VaultsOf(blk[i].wrote[k].pool) \subseteq DOMAIN blk[i].post

LEMMA VaultsApart ==
  ASSUME NEW p \in Pools, NEW v \in VaultsOf(p)
  PROVE  v \in Accounts /\ v \notin UserAccounts /\ \A q \in Pools : v \in VaultsOf(q) => q = p
<1>1. BaseVault[p] \in Accounts /\ QuoteVault[p] \in Accounts
  BY BlockAssumption
<1>2. VaultsOf(p) \cap UserAccounts = {} /\ \A q \in Pools \ {p} : VaultsOf(p) \cap VaultsOf(q) = {}
  BY BlockAssumption
<1>3. v = BaseVault[p] \/ v = QuoteVault[p]
  BY DEF VaultsOf
<1> QED
  BY <1>1, <1>2, <1>3

LEMMA VaultsHold ==
  ASSUME NEW p \in Pools, NEW v \in VaultsOf(p)
  PROVE  v \in DOMAIN Vaults(p) /\ Vaults(p)[v] # Closed /\ Vaults(p)[v].mint = VaultMint(p, v)
<1>1. v \in DOMAIN Vaults(p) /\ Vaults(p)[v].mint = VaultMint(p, v) /\ Vaults(p)[v].amount = 1
  BY DEF Vaults, VaultMint
<1> QED
  BY <1>1 DEF Closed

LEMMA InitVaults == DecodeInit => VaultsInv
<1> SUFFICES ASSUME DecodeInit PROVE VaultsInv
  OBVIOUS
<1>1. PICK users \in Ledgers :
        ledger = [a \in Accounts |->
          IF a \in UserAccounts THEN users[a]
          ELSE LET Of == {p \in OldPools : a \in DOMAIN Vaults(p)}
               IN IF Of = {} THEN Closed ELSE Vaults(CHOOSE p \in Of : TRUE)[a]]
  BY DEF DecodeInit
<1>2. ASSUME NEW p \in Pools, NEW v \in VaultsOf(p)
      PROVE  ledger[v] = IF p \in OldPools THEN Vaults(p)[v] ELSE Closed
  <2> DEFINE Of == {q \in OldPools : v \in DOMAIN Vaults(q)}
  <2>1. v \in Accounts /\ v \notin UserAccounts
    BY VaultsApart
  <2>2. ledger[v] = IF Of = {} THEN Closed ELSE Vaults(CHOOSE q \in Of : TRUE)[v]
    BY <1>1, <2>1
  <2>3. \A q \in OldPools : q \in Pools /\ DOMAIN Vaults(q) = VaultsOf(q)
    BY BlockAssumption, VaultsAreBalances
  <2>4. \A q \in Of : q = p
    BY <2>3, VaultsApart
  <2>5. p \in OldPools => p \in Of
    BY <2>3
  <2>6. p \notin OldPools => Of = {}
    BY <2>4
  <2> HIDE DEF Of
  <2>7. p \in OldPools => (CHOOSE q \in Of : TRUE) = p
    BY <2>4, <2>5
  <2> QED
    BY <2>2, <2>5, <2>6, <2>7
<1>3. LedgerVaults(ledger)
  BY <1>2, VaultsHold DEF LedgerVaults
<1>4. start = ledger /\ cur = EmptyTx /\ blk = <<>> /\ Len(<<>>) = 0
  BY EmptySeq DEF DecodeInit
<1>5. AsVaults(cur.opens) /\ 1 .. Len(cur.events) = {} /\ 1 .. Len(blk) = {}
  BY <1>4 DEF EmptyTx, Nothing, AsVaults
<1> QED
  BY <1>3, <1>4, <1>5 DEF VaultsInv

\* A step that leaves the pools' accounts alone and writes nothing.
LEMMA VaultsStay ==
  ASSUME VaultsInv, UNCHANGED <<start, blk>>, cur'.events = cur.events,
         cur.touched \subseteq cur'.touched, AsVaults(cur'.opens),
         \A p \in Pools : \A v \in VaultsOf(p) : ledger'[v] = ledger[v],
         \A k \in 1 .. Len(cur.events) : cur.events[k].pool \in Pools
  PROVE  VaultsInv'
<1>1. LedgerVaults(ledger')
  BY DEF VaultsInv, LedgerVaults
<1>2. \A p \in Pools : BaseVault[p] \in VaultsOf(p)
  BY DEF VaultsOf
<1>3. \A k \in 1 .. Len(cur'.events) : cur'.events[k].kind \in {"buy", "sell"} =>
        /\ VaultsOf(cur'.events[k].pool) \subseteq cur'.touched
        /\ ledger'[BaseVault[cur'.events[k].pool]] # Closed
  BY <1>2 DEF VaultsInv
<1> QED
  BY <1>1, <1>3 DEF VaultsInv

LEMMA VaultsEndTx ==
  ASSUME ChainInv, ExecInv, VaultsInv, NEW failed \in BOOLEAN, NEW kept, EndTx(failed, kept)
  PROVE  VaultsInv'
<1> DEFINE after == IF failed THEN start ELSE ledger
           tx == [failed |-> failed, insts |-> cur.insts,
                  events |-> SubSeq(cur.events, 1, kept), wrote |-> cur.events,
                  opens |-> cur.opens,
                  pre  |-> Held(start, cur.touched),
                  post |-> Held(after, cur.touched)]
<1>1. blk' = Append(blk, tx) /\ ledger' = after /\ start' = after /\ cur' = EmptyTx
  BY DEF EndTx
<1>2. LedgerVaults(after) /\ LedgerVaults(start)
  BY DEF VaultsInv
<1>3. /\ tx.pre = Held(start, cur.touched) /\ tx.post = Held(after, cur.touched)
      /\ tx.opens = cur.opens /\ tx.wrote = cur.events /\ (~tx.failed => after = ledger)
  OBVIOUS
<1> HIDE DEF after, tx
<1>4. AsVaults(tx.pre) /\ AsVaults(tx.post) /\ AsVaults(tx.opens)
  <2>1. ASSUME NEW l, LedgerVaults(l) PROVE AsVaults(Held(l, cur.touched))
    BY <2>1 DEF AsVaults, LedgerVaults, Held
  <2> QED
    BY <1>2, <1>3, <2>1 DEF VaultsInv
<1>5. ASSUME ~tx.failed, NEW k \in 1 .. Len(tx.wrote), tx.wrote[k].kind \in {"buy", "sell"}
      PROVE  VaultsOf(tx.wrote[k].pool) \subseteq DOMAIN tx.post
  <2>1. PICK p \in Pools : p = tx.wrote[k].pool
    BY <1>3 DEF ExecInv, Executed
  <2>2. VaultsOf(p) \subseteq cur.touched /\ ledger[BaseVault[p]] # Closed
    BY <1>3, <1>5, <2>1 DEF VaultsInv
  <2>3. \A v \in VaultsOf(p) : ledger[v] # Closed
    BY <2>2 DEF VaultsInv, LedgerVaults, VaultsOf
  <2> QED
    BY <1>3, <1>5, <2>1, <2>2, <2>3 DEF Held
<1>6. /\ Len(blk') = Len(blk) + 1 /\ Len(blk) \in Nat /\ blk'[Len(blk) + 1] = tx
      /\ \A i \in 1 .. Len(blk) : blk'[i] = blk[i]
  <2>1. PICK S : blk \in Seq(S)
    BY DEF ChainInv, BlkInv
  <2>2. blk \in Seq(S \cup {tx})
    BY <2>1, SeqMonotonic
  <2> QED
    BY <1>1, <2>2, AppendProperties
<1>7. ASSUME NEW i \in 1 .. Len(blk')
      PROVE  /\ AsVaults(blk'[i].pre) /\ AsVaults(blk'[i].post) /\ AsVaults(blk'[i].opens)
             /\ ~blk'[i].failed => \A k \in 1 .. Len(blk'[i].wrote) :
                  blk'[i].wrote[k].kind \in {"buy", "sell"} =>
                    VaultsOf(blk'[i].wrote[k].pool) \subseteq DOMAIN blk'[i].post
  <2>1. CASE i = Len(blk) + 1
    BY <1>4, <1>5, <1>6, <2>1
  <2>2. CASE i \in 1 .. Len(blk)
    BY <1>6, <2>2 DEF VaultsInv
  <2> QED
    BY <1>6, <2>1, <2>2
<1>8. AsVaults(cur'.opens) /\ 1 .. Len(cur'.events) = {}
  <2>1. cur'.events = <<>> /\ Len(<<>>) = 0 /\ DOMAIN cur'.opens = {}
    BY <1>1, EmptySeq DEF EmptyTx, Nothing
  <2> QED
    BY <2>1 DEF AsVaults
<1> QED
  BY <1>1, <1>2, <1>7, <1>8 DEF VaultsInv


LEMMA VaultsStep ==
  ASSUME ChainInv, ExecInv, VaultsInv, [DecodeNext]_decodeVars PROVE VaultsInv'
<1>1. \A k \in 1 .. Len(cur.events) : cur.events[k].pool \in Pools /\ cur.events[k].kind \in EventKinds
  BY DEF ExecInv, Executed
<1>2. \E S : cur.events \in Seq(S)
  BY DEF ExecInv, Executed
\* A step on the user's accounts.
<1>3. ASSUME UNCHANGED <<start, blk>>, cur'.events = cur.events, cur.touched \subseteq cur'.touched,
             AsVaults(cur'.opens), \A v \in Accounts \ UserAccounts : ledger'[v] = ledger[v]
      PROVE  VaultsInv'
  <2>1. \A p \in Pools : \A v \in VaultsOf(p) : ledger'[v] = ledger[v]
    BY <1>3, VaultsApart
  <2> QED
    BY <1>1, <1>3, <2>1, VaultsStay
<1>4. ASSUME NEW kind, Call(kind) PROVE VaultsInv'
  <2>1. /\ cur'.opens = cur.opens /\ cur'.touched = cur.touched /\ cur'.events = cur.events
        /\ UNCHANGED <<start, blk>> /\ ledger' = ledger
    BY <1>4 DEF Call, Step, ChainInv, CurInv
  <2>2. AsVaults(cur'.opens)
    BY <2>1 DEF VaultsInv
  <2> QED
    BY <1>3, <2>1, <2>2
<1>5. ASSUME NEW kind, NEW pool \in Pools, NEW base, NEW quote, Swap(kind, pool, base, quote)
      PROVE  VaultsInv'
  <2> DEFINE type == IF kind = "exact" THEN "buy" ELSE kind
             event == [kind |-> type, pool |-> pool, base |-> base, quote |-> quote]
  <2>1. /\ cur'.opens = cur.opens /\ cur.touched \subseteq cur'.touched
        /\ DOMAIN Vaults(pool) \subseteq cur'.touched /\ cur'.events = Append(cur.events, event)
        /\ UNCHANGED <<start, blk>> /\ ledger' = ledger /\ ledger[BaseVault[pool]] # Closed
    BY <1>5 DEF Swap, Step, ChainInv, CurInv
  <2>2. event.pool = pool /\ VaultsOf(pool) \subseteq cur'.touched
    BY <2>1, VaultsAreBalances
  <2> HIDE DEF event
  <2>3. /\ Len(cur'.events) = Len(cur.events) + 1 /\ Len(cur.events) \in Nat
        /\ cur'.events[Len(cur.events) + 1] = event
        /\ \A k \in 1 .. Len(cur.events) : cur'.events[k] = cur.events[k]
    <3>1. PICK S : cur.events \in Seq(S)
      BY <1>2
    <3>2. cur.events \in Seq(S \cup {event})
      BY <3>1, SeqMonotonic
    <3> QED
      BY <2>1, <3>2, AppendProperties
  <2>4. ASSUME NEW k \in 1 .. Len(cur'.events), cur'.events[k].kind \in {"buy", "sell"}
        PROVE  /\ VaultsOf(cur'.events[k].pool) \subseteq cur'.touched
               /\ ledger[BaseVault[cur'.events[k].pool]] # Closed
    <3>1. CASE k = Len(cur.events) + 1
      BY <2>1, <2>2, <2>3, <3>1
    <3>2. CASE k \in 1 .. Len(cur.events)
      <4>1. cur'.events[k] = cur.events[k]
        BY <2>3, <3>2
      <4>2. /\ VaultsOf(cur.events[k].pool) \subseteq cur.touched
            /\ ledger[BaseVault[cur.events[k].pool]] # Closed
        BY <2>4, <3>2, <4>1 DEF VaultsInv
      <4> QED
        BY <2>1, <4>1, <4>2
    <3> QED
      BY <2>3, <3>1, <3>2
  <2>5. LedgerVaults(ledger') /\ LedgerVaults(start') /\ AsVaults(cur'.opens)
    BY <2>1 DEF VaultsInv
  <2> QED
    BY <2>1, <2>4, <2>5 DEF VaultsInv
<1>6. ASSUME NEW pool \in Pools, CreatePool(pool) PROVE VaultsInv'
  <2> DEFINE event == [kind |-> "create", pool |-> pool]
             V == Vaults(pool)
  <2>1. /\ cur'.opens = Over(V, cur.opens) /\ cur.touched \subseteq cur'.touched
        /\ cur'.events = Append(cur.events, event)
        /\ UNCHANGED <<start, blk>> /\ ledger' = Over(V, ledger)
    BY <1>6 DEF CreatePool, Step, ChainInv, CurInv
  <2>2. event.kind = "create"
    OBVIOUS
  <2>3. DOMAIN V = VaultsOf(pool) /\ \A v \in VaultsOf(pool) : V[v] # Closed /\ V[v].mint = VaultMint(pool, v)
    BY VaultsAreBalances, VaultsHold
  <2>4. DOMAIN ledger = Accounts
    BY DEF ChainInv, IsLedger
  <2> HIDE DEF event, V
  <2>5. \A p \in Pools : \A v \in VaultsOf(p) :
          /\ v \in Accounts
          /\ p = pool => ledger'[v] # Closed /\ ledger'[v].mint = VaultMint(p, v)
          /\ p # pool => ledger'[v] = ledger[v]
    BY <2>1, <2>3, <2>4, VaultsApart DEF Over
  <2>6. LedgerVaults(ledger')
    BY <2>5 DEF VaultsInv, LedgerVaults
  <2>7. AsVaults(cur'.opens)
    <3>1. ASSUME NEW p \in Pools, NEW v \in VaultsOf(p), v \in DOMAIN cur'.opens
          PROVE  cur'.opens[v].mint = VaultMint(p, v)
      <4>1. CASE p = pool
        BY <2>1, <2>3, <4>1 DEF Over
      <4>2. CASE p # pool
        <5>1. v \notin DOMAIN V
          BY <2>3, <4>2, VaultsApart
        <5>2. v \in DOMAIN cur.opens /\ cur'.opens[v] = cur.opens[v]
          BY <2>1, <3>1, <5>1 DEF Over
        <5> QED
          BY <5>2 DEF VaultsInv, AsVaults
      <4> QED
        BY <4>1, <4>2
    <3> QED
      BY <3>1 DEF AsVaults
  <2>8. /\ Len(cur'.events) = Len(cur.events) + 1 /\ Len(cur.events) \in Nat
        /\ cur'.events[Len(cur.events) + 1] = event
        /\ \A k \in 1 .. Len(cur.events) : cur'.events[k] = cur.events[k]
    <3>1. PICK S : cur.events \in Seq(S)
      BY <1>2
    <3>2. cur.events \in Seq(S \cup {event})
      BY <3>1, SeqMonotonic
    <3> QED
      BY <2>1, <3>2, AppendProperties
  <2>9. ASSUME NEW k \in 1 .. Len(cur'.events), cur'.events[k].kind \in {"buy", "sell"}
        PROVE  /\ VaultsOf(cur'.events[k].pool) \subseteq cur'.touched
               /\ ledger'[BaseVault[cur'.events[k].pool]] # Closed
    <3>1. k \in 1 .. Len(cur.events) /\ cur'.events[k] = cur.events[k]
      BY <2>2, <2>8, <2>9
    <3>2. PICK p \in Pools : p = cur.events[k].pool
      BY <1>1, <3>1
    <3>3. VaultsOf(p) \subseteq cur.touched /\ ledger[BaseVault[p]] # Closed
      BY <2>9, <3>1, <3>2 DEF VaultsInv
    <3>4. BaseVault[p] \in VaultsOf(p)
      BY DEF VaultsOf
    <3>5. ledger'[BaseVault[p]] # Closed
      BY <2>5, <3>3, <3>4
    <3> QED
      BY <2>1, <3>1, <3>2, <3>3, <3>5
  <2> QED
    BY <2>1, <2>6, <2>7, <2>9 DEF VaultsInv
<1>7. ASSUME NEW a \in UserAccounts, NEW mint \in Mints, NEW owner \in Owners, Open(a, mint, owner)
      PROVE  VaultsInv'
  <2> DEFINE opened == [b \in {a} |-> [mint |-> mint, owner |-> owner]]
  <2>1. /\ cur'.opens = Over(opened, cur.opens) /\ cur.touched \subseteq cur'.touched
        /\ cur'.events = cur.events /\ UNCHANGED <<start, blk>>
        /\ ledger' = [ledger EXCEPT ![a] = [mint |-> mint, owner |-> owner, amount |-> 0]]
    BY <1>7 DEF Open, Step, ChainInv, CurInv
  <2>2. ASSUME NEW p \in Pools, NEW v \in VaultsOf(p), v \in DOMAIN cur'.opens
        PROVE  cur'.opens[v].mint = VaultMint(p, v)
    <3>1. v # a
      BY VaultsApart
    <3>2. v \in DOMAIN cur.opens /\ cur'.opens[v] = cur.opens[v]
      BY <2>1, <2>2, <3>1 DEF Over
    <3> QED
      BY <3>2 DEF VaultsInv, AsVaults
  <2>3. AsVaults(cur'.opens)
    BY <2>2 DEF AsVaults
  <2>4. \A v \in Accounts \ UserAccounts : ledger'[v] = ledger[v]
    BY <2>1 DEF ChainInv, IsLedger
  <2> QED
    BY <1>3, <2>1, <2>3, <2>4
<1>8. ASSUME NEW a \in UserAccounts, Close(a) \/ (\E x \in Funds : Move(a, x))
                                              \/ (\E owner \in Owners : SetOwner(a, owner))
      PROVE  VaultsInv'
  <2>1. /\ cur'.opens = cur.opens /\ cur.touched \subseteq cur'.touched
        /\ cur'.events = cur.events /\ UNCHANGED <<start, blk>>
    BY <1>8 DEF Close, Move, SetOwner, Step, ChainInv, CurInv
  <2>2. \A v \in Accounts \ UserAccounts : ledger'[v] = ledger[v]
    <3>1. (\E b : ledger' = [ledger EXCEPT ![a] = b]) /\ DOMAIN ledger = Accounts
      BY <1>8 DEF Close, Move, SetOwner, ChainInv, IsLedger
    <3> QED
      BY <3>1
  <2>3. AsVaults(cur'.opens)
    BY <2>1 DEF VaultsInv
  <2> QED
    BY <1>3, <2>1, <2>2, <2>3
<1>9. ASSUME NEW failed \in BOOLEAN, NEW kept, EndTx(failed, kept) PROVE VaultsInv'
  BY <1>9, VaultsEndTx
<1>10. CASE UNCHANGED chainVars
  BY <1>10 DEF chainVars, VaultsInv
<1>11. CASE BlockFetched \/ FillTx \/ DecodeNextTx \/ FindPool \/ InsertPool \/ PoolQueryFails
  BY <1>10, <1>11 DEF BlockFetched, FillTx, DecodeNextTx, FindPool, InsertPool, PoolQueryFails
<1>12. ASSUME NEW tokens, NEW stored, SaveTokenAccounts(tokens, stored) PROVE VaultsInv'
  BY <1>10, <1>12 DEF SaveTokenAccounts
<1>13. ASSUME NEW pool, OtherWorkerInserts(pool) PROVE VaultsInv'
  BY <1>10, <1>13 DEF OtherWorkerInserts
<1>14. CASE UNCHANGED decodeVars
  BY <1>10, <1>14 DEF decodeVars, chainVars
<1> QED
  BY <1>4, <1>5, <1>6, <1>7, <1>8, <1>9, <1>11, <1>12, <1>13, <1>14 DEF DecodeNext

\* Every account reported by the first m transactions has an entry.
HasEntries(m) == \A i \in 1 .. m : DOMAIN blk[i].pre \cup DOMAIN blk[i].post \subseteq DOMAIN map

PresentInv ==
  /\ phase = "fill" => HasEntries(n - 1)
  /\ phase \in {"decode", "accounts", "saved"} => HasEntries(Len(blk))

LEMMA EntriesStay ==
  ASSUME NEW f, NEW tx
  PROVE  DOMAIN f \cup DOMAIN tx.pre \cup DOMAIN tx.post \subseteq DOMAIN FillTokenAccountMap(f, tx)
BY DEF FillTokenAccountMap, FillDecimals, DecodeInitAccount, FillPost, FillPre

LEMMA PresentStep ==
  ASSUME DecodeInv, PresentInv, [DecodeNext]_decodeVars PROVE PresentInv'
<1> USE DEF DecodeInv
<1>1. Len(blk) \in Nat
  BY DEF ChainInv, BlkInv
<1>2. CASE phase' = "chain"
  BY <1>2 DEF PresentInv
<1>3. CASE BlockFetched
  <2>1. phase' = "fill" /\ n' = 1
    BY <1>3 DEF BlockFetched, FilledInv
  <2> QED
    BY <2>1 DEF PresentInv, HasEntries
<1>4. CASE FillTx
  <2>1. n \in 1 .. Len(blk) /\ HasEntries(n - 1)
    BY <1>4 DEF FillTx, FilledInv, PresentInv
  <2>2. blk' = blk /\ map' = FillTokenAccountMap(map, blk[n])
    BY <1>4 DEF FillTx, chainVars
  <2>3. DOMAIN map \cup DOMAIN blk[n].pre \cup DOMAIN blk[n].post \subseteq DOMAIN map'
    BY <2>2, EntriesStay
  <2>4. \A i \in 1 .. n : i \in 1 .. n - 1 \/ i = n
    BY <2>1
  <2>5. \A i \in 1 .. n : DOMAIN blk[i].pre \cup DOMAIN blk[i].post \subseteq DOMAIN map'
    BY <2>1, <2>3, <2>4 DEF HasEntries
  <2>6. CASE n < Len(blk)
    <3>1. n' = n + 1 /\ phase' = "fill"
      BY <1>4, <2>6 DEF FillTx
    <3>2. (n - 1)' = n
      BY <2>1, <3>1
    <3>3. HasEntries(n - 1)'
      BY <2>2, <2>5, <3>2 DEF HasEntries
    <3> QED
      BY <3>1, <3>3 DEF PresentInv
  <2>7. CASE ~(n < Len(blk))
    <3>1. phase' = "decode"
      BY <1>4, <2>7 DEF FillTx
    <3>2. n = Len(blk)
      BY <1>1, <2>1, <2>7
    <3>3. HasEntries(Len(blk))'
      BY <2>2, <2>5, <3>2 DEF HasEntries
    <3> QED
      BY <3>1, <3>3 DEF PresentInv
  <2> QED
    BY <2>6, <2>7
<1>5. CASE /\ phase \in {"decode", "accounts", "saved"} /\ phase' \in {"decode", "accounts", "saved"}
           /\ UNCHANGED <<chainVars, map>>
  BY <1>5 DEF PresentInv, HasEntries, chainVars
<1>6. ASSUME DecodeNext, ~BlockFetched, ~FillTx
      PROVE  \/ phase' = "chain"
             \/ /\ phase \in {"decode", "accounts", "saved"}
                /\ phase' \in {"decode", "accounts", "saved"}
                /\ UNCHANGED <<chainVars, map>>
  BY <1>6 DEF DecodeNext, Call, Swap, CreatePool, Open, Close, Move, SetOwner, EndTx, Step,
       DecodeNextTx, Saving, SaveTokenAccounts, FindPool, InsertPool, PoolQueryFails,
       OtherWorkerInserts, saveVars, chainVars
<1>7. CASE UNCHANGED decodeVars
  BY <1>7 DEF decodeVars, PresentInv, HasEntries
<1> QED
  BY <1>2, <1>3, <1>4, <1>5, <1>6, <1>7


-----------------------------------------------------------------------------
(* Each swap is saved, once.                                                *)

\* The decimals of a swap's tokens are known from the pool's accounts.
LEMMA TokensKnown ==
  ASSUME DecodeInv, ExecInv, EntriesInv, VaultsInv, PresentInv, Decoded,
         NEW i \in 1 .. Len(blk), ~blk[i].failed, NEW k \in 1 .. Len(blk[i].wrote),
         blk[i].wrote[k].kind \in {"buy", "sell"}, ~Remade(blk[i].wrote[k]),
         NEW v \in VaultsOf(blk[i].wrote[k].pool),
         NEW a \in DOMAIN map, map[a].mint = VaultMint(blk[i].wrote[k].pool, v)
  PROVE  map[a].decimals = DecimalsOf[map[a].mint]
<1>1. PICK p \in Pools : p = blk[i].wrote[k].pool
  BY DEF ExecInv, Executed
<1>2. PICK m \in Nat : m = Len(blk) /\ DOMAIN blk = 1 .. m
  BY DEF DecodeInv, ChainInv, BlkInv
<1>3. EntriesTo(m) /\ HasEntries(m)
  BY <1>2 DEF EntriesInv, PresentInv, Decoded
<1>4. v \in DOMAIN map
  <2>1. v \in DOMAIN blk[i].post
    BY <1>1 DEF VaultsInv
  <2> QED
    BY <1>2, <1>3, <2>1 DEF HasEntries
<1>5. \A b \in Told(v, m) : b.mint = VaultMint(p, v)
  <2>1. v \in VaultsOf(p)
    BY <1>1
  <2>2. ASSUME NEW j \in 1 .. m
        PROVE  /\ v \in DOMAIN blk[j].pre => blk[j].pre[v].mint = VaultMint(p, v)
               /\ v \in DOMAIN blk[j].post => blk[j].post[v].mint = VaultMint(p, v)
               /\ Opens(v, j) => blk[j].opens[v].mint = VaultMint(p, v)
    BY <1>2, <2>1 DEF VaultsInv, AsVaults, Opens
  <2> QED
    BY <2>2 DEF Told
<1>6. map[v].mint = VaultMint(p, v)
  BY <1>3, <1>4, <1>5 DEF EntriesTo, Traced, Same
<1>7. \A j \in 1 .. m : ~Undone(v, j)
  BY <1>2 DEF Remade
<1>8. map[v].decimals = DecimalsOf[map[v].mint]
  BY <1>3, <1>4, <1>5, <1>7 DEF EntriesTo, Decided, Steady
<1>9. map[v].mint = map[a].mint /\ map[a].decimals \in {0, DecimalsOf[map[a].mint]}
  BY <1>1, <1>3, <1>6 DEF EntriesTo, KnownDecimals
<1>10. map[v].decimals # 0 => map[a].decimals # 0
  BY <1>3, <1>4, <1>9 DEF EntriesTo, SharedDecimals
<1> QED
  BY <1>8, <1>9, <1>10

\* A transaction whose logs are whole and whose instructions are all known is
\* decoded without an error.
LEMMA AllDecode ==
  ASSUME ExecInv, NEW i \in 1 .. Len(blk), ~Dropped(blk[i]), NEW r \in DOMAIN blk[i].insts
  PROVE  TradeAt(i, r) # Error
<1> DEFINE tx == blk[i]
           inst == tx.insts[r]
<1>1. Executed(tx.insts, tx.wrote) /\ tx.events = tx.wrote
  BY DEF ExecInv, Dropped
<1>2. PICK g, S : WroteFrom(g, tx.insts, tx.wrote) /\ tx.events \in Seq(S)
  BY <1>1 DEF Executed
<1>3. r \in 1 .. Len(tx.insts) /\ inst.kind \in EventKinds \cup {"pumpfun"}
  BY <1>1 DEF Executed, Dropped, InstKinds
<1>4. TradeAt(i, r) = DecodeInstruction(tx, inst, i, map)
  BY DEF TradeAt
<1> HIDE DEF tx
<1>5. inst.kind \in EventKinds => HasEvent(tx, inst.kind)
  <2>1. SUFFICES ASSUME inst.kind \in EventKinds PROVE HasEvent(tx, inst.kind)
    OBVIOUS
  <2>2. PICK k \in 1 .. Len(tx.wrote) : g[k] = r
    BY <1>2, <1>3, <2>1 DEF WroteFrom
  <2>3. inst.kind \in {tx.wrote[k].kind, "exact"}
    BY <1>2, <2>2 DEF WroteFrom
  <2>4. k \in DOMAIN tx.events /\ tx.events[k].kind = inst.kind
    BY <1>1, <1>2, <2>1, <2>3 DEF EventKinds
  <2> QED
    BY <2>4 DEF HasEvent
<1> HIDE DEF inst
<1>6. CASE inst.kind \in {"buy", "sell"}
  <2>1. HasEvent(tx, inst.kind)
    BY <1>5, <1>6 DEF EventKinds
  <2>2. FirstEvent(tx, inst.kind).kind = inst.kind
    BY <1>2, <2>1, FirstEventIsThere
  <2>3. TradeAt(i, r) = DecodeSwap(tx, inst, i, map)
    BY <1>4, <1>6 DEF DecodeInstruction
  <2> QED
    BY <1>6, <2>1, <2>2, <2>3 DEF DecodeSwap, NewTrade, Error, NoTrade
<1>7. CASE inst.kind = "create"
  BY <1>4, <1>5, <1>7 DEF DecodeInstruction, DecodeCreatePool, EventKinds, Error
<1>8. CASE inst.kind = "pumpfun"
  BY <1>4, <1>8 DEF DecodeInstruction, NoTrade, Error
<1> QED
  BY <1>3, <1>6, <1>7, <1>8 DEF EventKinds

\* The swap of an event: the one instruction of its kind, and the event is the
\* first of its kind.
LEMMA SwapOfEvent ==
  ASSUME ExecInv, NEW i \in 1 .. Len(blk), ~Dropped(blk[i]), NEW k \in 1 .. Len(blk[i].wrote),
         ~Repeated(blk[i], blk[i].wrote[k].kind)
  PROVE  LET e == blk[i].wrote[k]
         IN /\ HasEvent(blk[i], e.kind) /\ FirstEvent(blk[i], e.kind) = e
            /\ \E q \in DOMAIN blk[i].insts : /\ blk[i].insts[q].kind = e.kind
                                              /\ blk[i].insts[q].pool = e.pool
<1> DEFINE tx == blk[i]
           e == tx.wrote[k]
<1>1. Executed(tx.insts, tx.wrote) /\ tx.events = tx.wrote
  BY DEF ExecInv, Dropped
<1>2. PICK g, S : WroteFrom(g, tx.insts, tx.wrote) /\ tx.events \in Seq(S)
  BY <1>1 DEF Executed
<1>3. DOMAIN tx.insts = 1 .. Len(tx.insts)
  BY <1>1 DEF Executed
<1>4. \A h \in 1 .. Len(tx.wrote) :
        /\ g[h] \in DOMAIN tx.insts /\ tx.insts[g[h]].kind = tx.wrote[h].kind
        /\ tx.insts[g[h]].pool = tx.wrote[h].pool
  BY <1>2, <1>3 DEF WroteFrom, Dropped
<1> HIDE DEF tx
<1>5. k \in DOMAIN tx.events /\ tx.events[k] = e
  BY <1>1, <1>2 DEF tx
<1>6. HasEvent(tx, e.kind)
  BY <1>5 DEF HasEvent
<1>7. PICK h \in 1 .. Len(tx.events) : tx.events[h].kind = e.kind /\ FirstEvent(tx, e.kind) = tx.events[h]
  BY <1>2, <1>6, FirstEventIsThere
<1>8. h = k
  <2>1. k \in 1 .. Len(tx.wrote) /\ h \in 1 .. Len(tx.wrote) /\ tx.wrote[h].kind = e.kind
    BY <1>1, <1>7 DEF tx
  <2>2. g[h] = g[k]
    BY <1>4, <2>1 DEF Repeated, tx
  <2> QED
    BY <1>2, <2>1, <2>2 DEF WroteFrom
<1> QED
  BY <1>1, <1>4, <1>6, <1>7, <1>8 DEF tx


\* The swap of an event that is not excused: it is decoded to a trade that is
\* saved and says what the event says.
LEMMA SwapTells ==
  ASSUME DecodeInv, ExecInv, EntriesInv, VaultsInv, PresentInv, Decoded, solPrice # 0,
         NEW i \in 1 .. Len(blk), ~blk[i].failed, ~Dropped(blk[i]),
         NEW k \in 1 .. Len(blk[i].wrote),
         blk[i].wrote[k].kind \in {"buy", "sell"}, ~Repeated(blk[i], blk[i].wrote[k].kind),
         ~Lost(blk[i].wrote[k]), ~Remade(blk[i].wrote[k]), ~Odd(blk[i].wrote[k])
  PROVE  \E q : /\ Yields(i, q) /\ blk[i].insts[q].kind = blk[i].wrote[k].kind
                /\ Saved(TradeAt(i, q)) /\ Tells(TradeAt(i, q), i, blk[i].wrote[k])
<1> DEFINE tx == blk[i]
           e == tx.wrote[k]
           base == map[BaseOf[e.pool]]
           quote == map[QuoteOf[e.pool]]
<1>1. PICK q \in DOMAIN tx.insts : tx.insts[q].kind = e.kind /\ tx.insts[q].pool = e.pool
  BY SwapOfEvent
<1>2. HasEvent(tx, e.kind) /\ FirstEvent(tx, e.kind) = e
  BY SwapOfEvent
<1>3. /\ BaseOf[e.pool] \in DOMAIN map /\ base.mint = BaseMint[e.pool]
      /\ QuoteOf[e.pool] \in DOMAIN map /\ quote.mint = QuoteMint[e.pool]
  BY DEF Lost
<1>4. /\ base.decimals = DecimalsOf[BaseMint[e.pool]]
      /\ quote.decimals = DecimalsOf[QuoteMint[e.pool]]
  <2>1. e.pool \in Pools
    BY DEF ExecInv, Executed
  <2>2. /\ BaseVault[e.pool] \in VaultsOf(e.pool) /\ QuoteVault[e.pool] \in VaultsOf(e.pool)
        /\ VaultMint(e.pool, BaseVault[e.pool]) = BaseMint[e.pool]
        /\ VaultMint(e.pool, QuoteVault[e.pool]) = QuoteMint[e.pool]
    BY <2>1, BlockAssumption DEF VaultsOf, VaultMint
  <2> QED
    BY <1>3, <2>2, TokensKnown
<1>5. /\ e.base # 0 /\ e.quote # 0 /\ ToSigned(e.base) = e.base /\ ToSigned(e.quote) = e.quote
      /\ UiAmount(e.base, base.decimals) = e.base /\ UiAmount(e.quote, quote.decimals) = e.quote
  <2>1. \A x \in {e.base, e.quote} : x # 0 /\ ~(x > MaxSigned)
    BY DEF Odd
  <2> QED
    BY <2>1 DEF UiAmount, ToSigned
<1>6. TradeAt(i, q) = DecodeSwap(tx, tx.insts[q], i, map)
  BY <1>1 DEF TradeAt, DecodeInstruction
<1>7. PICK inst : inst = tx.insts[q] /\ inst.kind = e.kind /\ inst.pool = e.pool
  BY <1>1
<1>8. TradeAt(i, q) = NewTrade(e, inst, base, quote, i)
  <2>1. DecodeSwap(tx, inst, i, map) = NewTrade(e, inst, base, quote, i)
    <3> HIDE DEF tx
    <3> QED
      BY <1>2, <1>3, <1>5, <1>7 DEF DecodeSwap
  <2> QED
    BY <1>6, <1>7, <2>1
<1>9. e.kind \in {"buy", "sell"}
  OBVIOUS
<1>10. /\ TradeAt(i, q).kind = e.kind /\ Tells(TradeAt(i, q), i, e)
       /\ TradeAt(i, q).baseAmount = e.quote
  <2> HIDE DEF tx, e, base, quote
  <2> QED
    BY <1>3, <1>4, <1>5, <1>7, <1>8 DEF NewTrade, Tells
<1>11. Saved(TradeAt(i, q))
  BY <1>5, <1>9, <1>10 DEF Saved, HasPrice
<1>12. Yields(i, q)
  <2>1. TradeAt(i, q) # NoTrade
    BY <1>9, <1>10 DEF NoTrade
  <2>2. \A r \in DOMAIN tx.insts : TradeAt(i, r) # Error
    BY AllDecode
  <2> QED
    BY <1>1, <2>1, <2>2 DEF Yields
<1> QED
  BY <1>1, <1>10, <1>11, <1>12

LEMMA SwapsFollow ==
  DecodeInv /\ ExecInv /\ TradesInv /\ EntriesInv /\ VaultsInv /\ PresentInv => SwapIsSavedOrExcused
<1> SUFFICES ASSUME DecodeInv, ExecInv, TradesInv, EntriesInv, VaultsInv, PresentInv,
                    Decoded, solPrice # 0,
                    NEW i \in DOMAIN blk, ~blk[i].failed, ~Dropped(blk[i]),
                    NEW k \in DOMAIN blk[i].wrote,
                    blk[i].wrote[k].kind \in {"buy", "sell"},
                    ~Repeated(blk[i], blk[i].wrote[k].kind), ~Lost(blk[i].wrote[k]),
                    ~Remade(blk[i].wrote[k]), ~Odd(blk[i].wrote[k])
             PROVE  Cardinality({j \in DOMAIN trades :
                      Saved(trades[j]) /\ Tells(trades[j], i, blk[i].wrote[k])}) = 1
  BY DEF SwapIsSavedOrExcused
<1> DEFINE e == blk[i].wrote[k]
           R == {j \in DOMAIN trades : Saved(trades[j]) /\ Tells(trades[j], i, e)}
<1>1. i \in 1 .. Len(blk) /\ k \in 1 .. Len(blk[i].wrote)
  <2>1. i \in 1 .. Len(blk)
    BY DEF DecodeInv, ChainInv, BlkInv
  <2> QED
    BY <2>1 DEF ExecInv, Executed
<1>2. PICK q : /\ Yields(i, q) /\ blk[i].insts[q].kind = e.kind
               /\ Saved(TradeAt(i, q)) /\ Tells(TradeAt(i, q), i, e)
  BY <1>1, SwapTells
<1>3. PICK S, tx, in : trades \in Seq(S) /\ Sourced(trades, tx, in, Len(blk))
  BY DEF TradesInv, Collected
<1>4. DOMAIN trades = 1 .. Len(trades)
  BY <1>3
<1>5. PICK j \in DOMAIN trades : tx[j] = i /\ in[j] = q
  BY <1>1, <1>2, <1>3, <1>4 DEF Sourced
<1>6. trades[j] = TradeAt(i, q)
  BY <1>3, <1>4, <1>5 DEF Sourced
\* Another trade of the event would come from another instruction of its kind.
<1>7. ASSUME NEW h \in DOMAIN trades, Tells(trades[h], i, e) PROVE h = j
  <2>1. tx[h] \in 1 .. Len(blk) /\ Yields(tx[h], in[h]) /\ trades[h] = TradeAt(tx[h], in[h])
    BY <1>3, <1>4 DEF Sourced
  <2>2. trades[h].index = tx[h] /\ trades[h].kind = blk[tx[h]].insts[in[h]].kind
    BY <2>1, TradeIs
  <2>3. trades[h].index = i /\ trades[h].kind = e.kind
    BY <1>7 DEF Tells
  <2>4. blk[i].insts[in[h]].kind = e.kind /\ in[h] \in DOMAIN blk[i].insts /\ q \in DOMAIN blk[i].insts
    BY <1>2, <2>1, <2>2, <2>3 DEF Yields
  <2>5. in[h] = q
    BY <1>2, <2>4 DEF Repeated
  <2>6. tx[h] = tx[j] /\ in[h] = in[j]
    BY <1>5, <2>2, <2>3, <2>5
  <2>7. \A x, y \in DOMAIN trades : tx[x] = tx[y] /\ in[x] = in[y] => x = y
    BY <1>3, <1>4 DEF Sourced
  <2> QED
    BY <2>6, <2>7
<1>8. R = {j}
  BY <1>2, <1>5, <1>6, <1>7
<1> HIDE DEF R
<1>9. Cardinality(R) = 1
  BY <1>8, FS_Singleton
<1> QED
  BY <1>9 DEF R

\* Each swap of a successful transaction is saved exactly once, as its event tells
\* it and with the tokens and decimals of its pool, for any number of transactions
\* and any integer width; what is not is among the exceptions named (DecodeTx, the
\* decoders of PumpSwap, FillTokenAccountMap, the filter of SaveTrades).
THEOREM SwapTheorem == DecodeSpec => []SwapIsSavedOrExcused
<1> DEFINE Inv == /\ DecodeInv /\ ExecInv /\ TradesInv /\ OpensInv /\ EntriesInv
                  /\ VaultsInv /\ PresentInv
<1>1. DecodeInit => Inv
  <2>1. DecodeInit => PresentInv
    BY DEF DecodeInit, PresentInv
  <2> QED
    BY <2>1, InitDecodeInv, InitTrades, InitOpens, InitVaults
<1>2. Inv /\ [DecodeNext]_decodeVars => Inv'
  BY ChainStep, FillStep, ExecStep, TradesStep, OpensStep, EntriesFill, VaultsStep, PresentStep
     DEF DecodeInv
<1>3. Inv => SwapIsSavedOrExcused
  BY SwapsFollow
<1> QED
  BY <1>1, <1>2, <1>3, PTL DEF DecodeSpec

-----------------------------------------------------------------------------
(* The rows written of the token accounts.                                  *)

RowsMade ==
  phase = "saved" => rows = EmptyMap \/ \E tokens : rows = TokenAccountRows(map, tokens)

LEMMA RowsStep == RowsMade /\ [DecodeNext]_decodeVars => RowsMade'
<1> SUFFICES ASSUME RowsMade, [DecodeNext]_decodeVars, phase' = "saved" PROVE RowsMade'
  BY DEF RowsMade
<1>1. ASSUME NEW tokens, NEW stored, SaveTokenAccounts(tokens, stored) PROVE RowsMade'
  <2>1. /\ map' = map
        /\ rows' = TokenAccountRows(map, tokens) \/ rows' = EmptyMap
    BY <1>1 DEF SaveTokenAccounts
  <2>2. TokenAccountRows(map', tokens) = TokenAccountRows(map, tokens) /\ EmptyMap' = EmptyMap
    BY <2>1
  <2> QED
    BY <2>1, <2>2 DEF RowsMade
<1>2. CASE phase = "saved" /\ UNCHANGED <<map, rows>>
  <2>1. rows = EmptyMap \/ \E tokens : rows = TokenAccountRows(map, tokens)
    BY <1>2 DEF RowsMade
  <2>2. \A tokens : TokenAccountRows(map', tokens) = TokenAccountRows(map, tokens)
    BY <1>2
  <2> QED
    BY <1>2, <2>1, <2>2 DEF RowsMade
<1>3. ASSUME \A tokens, stored : ~SaveTokenAccounts(tokens, stored)
      PROVE  phase = "saved" /\ UNCHANGED <<map, rows>>
  BY <1>3 DEF DecodeNext, Call, Swap, CreatePool, Open, Close, Move, SetOwner, EndTx, Step,
     BlockFetched, FillTx, DecodeNextTx, FindPool, InsertPool, PoolQueryFails,
     OtherWorkerInserts, saveVars, chainVars, decodeVars
<1> QED
  BY <1>1, <1>2, <1>3

\* What is written is a part of the map, and no account of a token that is written
\* is left out of it.
LEMMA RowsFollow == DecodeInv /\ EntriesInv /\ PresentInv /\ RowsMade => RowsAreTheChains
<1> SUFFICES ASSUME DecodeInv, EntriesInv, PresentInv, RowsMade, phase = "saved", NEW a \in Accounts
             PROVE  IF \E i \in DOMAIN blk : Seen(a, i)
                    THEN /\ a \in DOMAIN rows /\ ~Renewed(a) =>
                              /\ rows[a].closed <=> ledger[a] = Closed
                              /\ ledger[a] # Closed =>
                                   /\ Same(rows[a], ledger[a])
                                   /\ rows[a].value = ParseInt(ledger[a].amount)
                                   /\ rows[a].decimals = DecimalsOf[ledger[a].mint]
                         /\ \A b \in DOMAIN rows :
                              (\A t \in Told(a, Len(blk)) : t.mint = rows[b].mint) =>
                                a \in DOMAIN rows
                    ELSE a \in DOMAIN rows => \E i \in DOMAIN blk : Opens(a, i)
  BY DEF RowsAreTheChains
<1>1. PICK tokens : \A b : b \in DOMAIN rows <=>
        /\ rows # EmptyMap
        /\ b \in DOMAIN map /\ map[b].mint # Wsol /\ map[b].mint \in tokens
  <2>1. CASE rows = EmptyMap
    BY <2>1 DEF EmptyMap
  <2>2. CASE rows # EmptyMap
    BY <2>2 DEF RowsMade, TokenAccountRows
  <2> QED
    BY <2>1, <2>2
<1>2. \A b \in DOMAIN rows : rows[b] = map[b]
  <2>1. CASE rows = EmptyMap
    BY <2>1 DEF EmptyMap
  <2>2. CASE rows # EmptyMap
    BY <2>2 DEF RowsMade, TokenAccountRows
  <2> QED
    BY <2>1, <2>2
<1>3. Traced(Len(blk)) /\ DOMAIN blk = 1 .. Len(blk)
  BY DEF EntriesInv, EntriesTo, DecodeInv, ChainInv, BlkInv
<1>4. CASE \E i \in DOMAIN blk : Seen(a, i)
  <2>1. a \in DOMAIN map
    BY <1>3, <1>4 DEF PresentInv, HasEntries, Seen
  <2>2. ASSUME a \in DOMAIN rows, ~Renewed(a)
        PROVE  /\ rows[a].closed <=> ledger[a] = Closed
               /\ ledger[a] # Closed =>
                    /\ Same(rows[a], ledger[a]) /\ rows[a].value = ParseInt(ledger[a].amount)
                    /\ rows[a].decimals = DecimalsOf[ledger[a].mint]
    <3>1. rows[a] = map[a]
      BY <1>2, <2>2
    <3> QED
      BY <1>4, <2>2, <3>1, AccountsFollow DEF AccountsAreTheChains
  <2>3. ASSUME NEW b \in DOMAIN rows, \A t \in Told(a, Len(blk)) : t.mint = rows[b].mint
        PROVE  a \in DOMAIN rows
    <3>1. PICK t \in Told(a, Len(blk)) : Same(map[a], t)
      BY <1>3, <2>1 DEF Traced
    <3>2. map[a].mint = map[b].mint
      BY <1>2, <2>3, <3>1 DEF Same
    <3> QED
      BY <1>1, <2>1, <2>3, <3>2
  <2> QED
    BY <1>4, <2>2, <2>3
<1>5. CASE ~\E i \in DOMAIN blk : Seen(a, i)
  <2>1. ASSUME a \in DOMAIN rows PROVE \E i \in DOMAIN blk : Opens(a, i)
    <3>1. PICK t \in Told(a, Len(blk)) : TRUE
      BY <1>1, <1>3, <2>1 DEF Traced
    <3> QED
      BY <1>3, <1>5, <3>1 DEF Told, Seen
  <2> QED
    BY <1>5, <2>1
<1> QED
  BY <1>4, <1>5

\* The rows written are the accounts as the chain left them, with the exceptions
\* named, and of a token all that were touched or none, for any number of
\* transactions and whatever tokens have a row (SaveTokenAccounts).
THEOREM RowsTheorem == DecodeSpec => []RowsAreTheChains
<1> DEFINE Inv == DecodeInv /\ OpensInv /\ EntriesInv /\ PresentInv /\ RowsMade
<1>1. DecodeInit => Inv
  <2>1. DecodeInit => PresentInv /\ RowsMade
    BY DEF DecodeInit, PresentInv, RowsMade
  <2> QED
    BY <2>1, InitDecodeInv, InitOpens
<1>2. Inv /\ [DecodeNext]_decodeVars => Inv'
  BY ChainStep, FillStep, OpensStep, EntriesFill, PresentStep, RowsStep DEF DecodeInv
<1>3. Inv => RowsAreTheChains
  BY RowsFollow
<1> QED
  BY <1>1, <1>2, <1>3, PTL DEF DecodeSpec
=============================================================================
