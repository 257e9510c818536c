-------------------------- MODULE PairStoreProofs ---------------------------
(***************************************************************************)
(* Proofs about TokenStore and PairStore, for any number of workers, pairs *)
(* and tokens, any slots and any set of faults.  What is proved of         *)
(* TokenSpec holds of PairSpec, because PairStore implements it.           *)
(***************************************************************************)
EXTENDS PairStore, TLAPS

\* A saver is a worker and a pair, and its pair has a token.
LEMMA SaverParts ==
  ASSUME NEW v \in Savers
  PROVE  v[1] \in Workers /\ v[2] \in Pairs /\ TokenAt(v) \in Tokens
BY StoreAssumption DEF Savers, TokenAt

\* What distinguishes a row from a missing one.
LEMMA RowsAreNotMissing ==
  ASSUME NEW row \in TokenRows
  PROVE  row # NoRow /\ row.slot \in Slots /\ row.slot # 0
BY StoreAssumption DEF TokenRows, NoRow

\* What is inserted for a trade of a slot is a row of that slot.
LEMMA NewTokensAreRows ==
  ASSUME NEW s \in Slots, NEW t \in Tokens, NEW row \in NewTokens(s, t)
  PROVE  row \in TokenRows
BY DEF NewTokens, TokenRows, ProgramsFound, Programs, Rpc

\* Filling a row in leaves its slot and its program.
LEMMA CompletionsKeep ==
  ASSUME NEW row \in TokenRows, NEW completed \in Completions(row)
  PROVE  /\ completed \in TokenRows
         /\ completed.slot = row.slot /\ completed.program = row.program
BY DEF Completions, TokenRows, Rpc

-----------------------------------------------------------------------------
(* SaveToken.  A saver between reading a row and writing it back holds a   *)
(* copy whose slot and program are still those of the table.               *)

ActiveHasSlot == \A v \in Savers : tpc[v] \in {"find", "complete", "insert", "refind"}
                                     => tslot[v] \in Slots

CopyAgrees == \A v \in Savers : tpc[v] = "complete" =>
  /\ tokenDB[v] \in TokenRows /\ HasToken(TokenAt(v))
  /\ tokenDB[v].slot = token[TokenAt(v)].slot
  /\ tokenDB[v].program = token[TokenAt(v)].program

DuplicateIsThere == \A v \in Savers : tpc[v] = "refind" => HasToken(TokenAt(v))

TokenInv == /\ TokenTypeOK /\ ActiveHasSlot /\ CopyAgrees
            /\ DuplicateIsThere /\ ReturnedTokenIsStored

LEMMA TokenInitInv == TokenInit => TokenInv
BY DEF TokenInit, TokenInv, TokenTypeOK, ActiveHasSlot, CopyAgrees,
       DuplicateIsThere, ReturnedTokenIsStored, NoRow

\* Every step of TokenStore keeps what identifies a row.
LEMMA StepsKeepRows == TokenInv /\ [TokenNext]_tokenVars => RowsKept
<1> SUFFICES ASSUME TokenInv, [TokenNext]_tokenVars PROVE RowsKept
  OBVIOUS
<1> USE DEF TokenInv, TokenTypeOK
<1>1. ASSUME UNCHANGED token PROVE RowsKept
  BY <1>1 DEF RowsKept, HasToken
<1>2. ASSUME NEW v \in Savers, CompleteToken(v) PROVE RowsKept
  <2>1. PICK row \in Completions(tokenDB[v]) :
          token' = [token EXCEPT ![TokenAt(v)] = row] \/ UNCHANGED token
    BY <1>2 DEF CompleteToken
  <2>2. /\ row \in TokenRows /\ HasToken(TokenAt(v))
        /\ row.slot = token[TokenAt(v)].slot
        /\ row.program = token[TokenAt(v)].program
    BY <1>2, CompletionsKeep DEF CompleteToken, CopyAgrees
  <2> QED
    BY <2>1, <2>2, SaverParts, RowsAreNotMissing DEF RowsKept, HasToken
<1>3. ASSUME NEW v \in Savers, InsertToken(v) PROVE RowsKept
  <2>1. UNCHANGED token \/ /\ ~HasToken(TokenAt(v))
                           /\ \E row : token' = [token EXCEPT ![TokenAt(v)] = row]
    BY <1>3 DEF InsertToken
  <2> QED
    BY <2>1, SaverParts DEF RowsKept, HasToken
<1> QED
  BY <1>1, <1>2, <1>3 DEF TokenNext, tokenVars, SaveToken, StartSavers, FindToken,
                          RefindToken, MetadataHangs, EndSavers, KillSavers

\* Every step of TokenStore keeps the invariant.
LEMMA TokenStepInv == TokenInv /\ [TokenNext]_tokenVars => TokenInv'
<1> SUFFICES ASSUME TokenInv, [TokenNext]_tokenVars PROVE TokenInv'
  OBVIOUS
<1>k. RowsKept
  BY StepsKeepRows
<1>s. \A v \in Savers : TokenAt(v) \in Tokens
  BY SaverParts
<1> USE DEF TokenInv, TokenTypeOK, ActiveHasSlot, CopyAgrees, DuplicateIsThere,
            ReturnedTokenIsStored
<1>1. CASE UNCHANGED tokenVars
  BY <1>1 DEF tokenVars, HasToken
<1>2. ASSUME NEW V \in SUBSET Savers, NEW s \in Slots, StartSavers(V, s)
      PROVE  TokenInv'
  BY <1>2 DEF StartSavers, HasToken
<1>3. ASSUME NEW v \in Savers, FindToken(v) PROVE TokenInv'
  BY <1>3, <1>s DEF FindToken, Return, HasToken
<1>4. ASSUME NEW v \in Savers, CompleteToken(v) PROVE TokenInv'
  <2>1. PICK row \in Completions(tokenDB[v]) :
          /\ Return(v, row) /\ UNCHANGED tslot
          /\ token' = [token EXCEPT ![TokenAt(v)] = row] \/ UNCHANGED token
    BY <1>4 DEF CompleteToken
  <2>2. row \in TokenRows
    BY <1>4, CompletionsKeep DEF CompleteToken
  <2> QED
    BY <1>k, <1>s, <1>4, <2>1, <2>2 DEF RowsKept, Return, HasToken, CompleteToken
<1>5. ASSUME NEW v \in Savers, InsertToken(v) PROVE TokenInv'
  <2>1. CASE \E row \in NewTokens(tslot[v], TokenAt(v)) :
               token' = [token EXCEPT ![TokenAt(v)] = row] /\ Return(v, row)
    <3>1. PICK row \in NewTokens(tslot[v], TokenAt(v)) :
            token' = [token EXCEPT ![TokenAt(v)] = row] /\ Return(v, row)
      BY <2>1
    <3>2. row \in TokenRows /\ UNCHANGED tslot
      BY <1>5, <1>s, NewTokensAreRows DEF InsertToken
    <3> QED
      BY <1>k, <1>s, <3>1, <3>2, RowsAreNotMissing DEF RowsKept, Return, HasToken
  <2>2. CASE /\ HasToken(TokenAt(v))
             /\ tpc' = [tpc EXCEPT ![v] = "refind"] /\ UNCHANGED <<token, tokenDB>>
    BY <1>5, <2>2 DEF InsertToken, HasToken
  <2>3. CASE Return(v, NoRow) /\ UNCHANGED token
    BY <1>5, <2>3 DEF InsertToken, Return, HasToken
  <2> QED
    BY <1>5, <2>1, <2>2, <2>3 DEF InsertToken
<1>6. ASSUME NEW v \in Savers, RefindToken(v) PROVE TokenInv'
  BY <1>6, <1>s DEF RefindToken, Return, HasToken
<1>7. ASSUME NEW V \in SUBSET Savers, EndSavers(V) PROVE TokenInv'
  BY <1>7 DEF EndSavers, HasToken
<1>8. CASE KillSavers
  BY <1>8 DEF KillSavers, HasToken
<1>9. ASSUME NEW v \in Savers, MetadataHangs(v) PROVE TokenInv'
  BY <1>9 DEF MetadataHangs, HasToken
<1> QED
  BY <1>1, <1>2, <1>3, <1>4, <1>5, <1>6, <1>7, <1>8, <1>9 DEF TokenNext, SaveToken

\* The invariant of SaveToken, of which the theorems below are parts.
THEOREM TokenInvariant == TokenSpec => []TokenInv
BY TokenInitInv, TokenStepInv, PTL DEF TokenSpec

\* Types of the token store, for every instance.
THEOREM TokenTypeCorrect == TokenSpec => []TokenTypeOK
BY TokenInvariant, PTL DEF TokenInv

\* However many goroutines save a token at once and whatever fails, a token
\* that SaveToken returns is in the table.
THEOREM ReturnedTokenTheorem == TokenSpec => []ReturnedTokenIsStored
BY TokenInvariant, PTL DEF TokenInv

\* However many goroutines race to create a token, the slot and the program
\* of its row stay those of the first, and the row stays.
THEOREM TokenCreatedOnceTheorem == TokenSpec => TokenCreatedOnce
BY StepsKeepRows, TokenInvariant, PTL DEF TokenSpec, TokenCreatedOnce

-----------------------------------------------------------------------------
(* BatchSaveByTrade.  Its steps on the token table are SaveToken's.        *)

\* A step of PairStore is a step of TokenStore or leaves its variables.
LEMMA PairStepIsTokenStep == [PairNext]_storeVars => [TokenNext]_tokenVars
<1> SUFFICES ASSUME [PairNext]_storeVars PROVE [TokenNext]_tokenVars
  OBVIOUS
<1>1. CASE UNCHANGED storeVars
  BY <1>1 DEF storeVars
<1>2. ASSUME NEW w \in Workers, NEW s \in Slots, NEW priced \in BOOLEAN,
             BeginBlock(w, s, priced)
      PROVE  TokenNext
  <2> DEFINE V == {v \in SaversOf(w) : PairAt(v) \in ValidPairs(s, priced)}
  <2>1. V \in SUBSET Savers /\ StartSavers(V, s)
    BY <1>2 DEF BeginBlock, SaversOf
  <2> QED
    BY <2>1 DEF TokenNext
<1>3. ASSUME NEW v \in Savers, BatchSaveByTrade(v)
      PROVE  [TokenNext]_tokenVars
  BY <1>3 DEF BatchSaveByTrade, CallSaveToken, TokenFailed, SavePair, FindPair,
              UpdatePair, InsertPair, RefindPair, SaveTradeRows, TokenNext
<1>4. ASSUME NEW w \in Workers, EndBlock(w) PROVE [TokenNext]_tokenVars
  <2> DEFINE V == {v \in SaversOf(w) : pc[v] # "idle"}
  <2>1. V \in SUBSET Savers /\ EndSavers(V)
    BY <1>4 DEF EndBlock, SaversOf
  <2> QED
    BY <2>1 DEF TokenNext
<1>5. CASE Crash
  BY <1>5 DEF Crash, TokenNext
<1> QED
  BY <1>1, <1>2, <1>3, <1>4, <1>5 DEF PairNext

\* PairStore implements TokenStore: whatever the rest of BatchSaveByTrade
\* does, the token table is used by SaveToken's protocol only.
THEOREM KeepsTokenStoreTheorem == PairSpec => KeepsTokenStore
<1>1. PairInit => TokenInit
  BY DEF PairInit
<1> QED
  BY <1>1, PairStepIsTokenStep, PTL DEF PairSpec, TokenSpec, KeepsTokenStore

-----------------------------------------------------------------------------
(* SavePair.  A saver past SaveToken's return has its token in the table,  *)
(* and between reading a pair and writing it back it holds a copy whose    *)
(* created columns are still those of the table.                           *)

JobHasSlot == \A v \in Savers : pc[v] # "idle" => SlotAt(v) \in Slots

KnownPairHasToken == \A v \in Savers :
  pc[v] \in {"update", "insert", "refind"} => HasToken(TokenAt(v))

PairCopyAgrees == \A v \in Savers : pc[v] = "update" =>
  /\ pairAtDB[v] \in PairRows /\ HasPair(PairAt(v))
  /\ pairAtDB[v].created = pair[PairAt(v)].created

PairInv == /\ PairTypeOK /\ JobHasSlot /\ KnownPairHasToken
           /\ PairCopyAgrees /\ PairHasToken

LEMMA PairInitInv == PairInit => PairInv
BY DEF PairInit, PairInv, PairTypeOK, JobHasSlot, KnownPairHasToken,
       PairCopyAgrees, PairHasToken, NoPair, HasPair

\* What distinguishes a pair's row from a missing one.
LEMMA PairRowsAreNotMissing ==
  ASSUME NEW row \in PairRows
  PROVE  row # NoPair /\ row.created \in Slots
BY StoreAssumption DEF PairRows, NoPair

\* Every step of PairStore keeps what the insert of a pair wrote.
LEMMA StepsKeepPairs == PairInv /\ [PairNext]_storeVars => PairsKept
<1> SUFFICES ASSUME PairInv, [PairNext]_storeVars PROVE PairsKept
  OBVIOUS
<1> USE DEF PairInv, PairTypeOK
<1>1. ASSUME UNCHANGED pair PROVE PairsKept
  BY <1>1 DEF PairsKept
<1>2. ASSUME NEW v \in Savers, UpdatePair(v) PROVE PairsKept
  <2>1. CASE pair' = [pair EXCEPT ![PairAt(v)] =
                        [pairAtDB[v] EXCEPT !.current = SlotAt(v)]]
    <3>1. /\ pairAtDB[v] \in PairRows
          /\ pairAtDB[v].created = pair[PairAt(v)].created
      BY <1>2 DEF UpdatePair, PairCopyAgrees
    <3> QED
      BY <2>1, <3>1, SaverParts DEF PairsKept, PairRows, PairAt
  <2> QED
    BY <1>1, <1>2, <2>1 DEF UpdatePair
<1>3. ASSUME NEW v \in Savers, InsertPair(v) PROVE PairsKept
  <2>1. UNCHANGED pair \/ /\ ~HasPair(PairAt(v))
                          /\ \E row : pair' = [pair EXCEPT ![PairAt(v)] = row]
    BY <1>3 DEF InsertPair
  <2> QED
    BY <1>1, <2>1, SaverParts DEF PairsKept, PairAt
<1> QED
  BY <1>1, <1>2, <1>3
  DEF PairNext, storeVars, pairVars, BeginBlock, BatchSaveByTrade, CallSaveToken,
      TokenFailed, SavePair, FindPair, RefindPair, SaveTradeRows, EndBlock, Crash

\* Every step of PairStore keeps the invariant.
LEMMA PairStepInv == TokenInv /\ PairInv /\ [PairNext]_storeVars => PairInv'
<1> SUFFICES ASSUME TokenInv, PairInv, [PairNext]_storeVars PROVE PairInv'
  OBVIOUS
<1>k. RowsKept
  BY PairStepIsTokenStep, StepsKeepRows
<1>s. \A v \in Savers : v[1] \in Workers /\ v[2] \in Pairs /\ TokenAt(v) \in Tokens
  BY SaverParts
<1>p. \A p \in Pairs : TokenOf[p] \in Tokens
  BY StoreAssumption
<1>z. 0 \notin Slots
  BY StoreAssumption
<1> USE DEF PairInv, PairTypeOK, JobHasSlot, KnownPairHasToken, PairCopyAgrees,
            PairHasToken, SlotAt, PairAt
<1>1. CASE UNCHANGED storeVars
  BY <1>1 DEF storeVars, tokenVars, pairVars, HasPair, HasToken
<1>2. ASSUME NEW w \in Workers, NEW s \in Slots, NEW priced \in BOOLEAN,
             BeginBlock(w, s, priced)
      PROVE  PairInv'
  BY <1>2, <1>s DEF BeginBlock, StartSavers, SaversOf, HasPair, HasToken
<1>3. ASSUME NEW v \in Savers, CallSaveToken(v) PROVE PairInv'
  BY <1>3, <1>k, <1>s, <1>p DEF CallSaveToken, pairVars, HasPair, HasToken, RowsKept
<1>4. ASSUME NEW v \in Savers, TokenFailed(v) PROVE PairInv'
  BY <1>4, <1>s DEF TokenFailed, PairSaved, tokenVars, HasPair, HasToken
<1>5. ASSUME NEW v \in Savers, FindPair(v) PROVE PairInv'
  <2>1. /\ pc[v] = "token" /\ HasToken(TokenAt(v))
        /\ UNCHANGED <<token, pair, trade, job>>
    BY <1>5 DEF FindPair, TokenInv, ReturnedTokenIsStored, tokenVars
  <2>2. HasPair(v[2]) => pair[v[2]] \in PairRows
    BY <1>s DEF HasPair
  <2>3. CASE /\ HasPair(v[2])
             /\ pairAtDB' = [pairAtDB EXCEPT ![v] = pair[v[2]]]
             /\ pc' = [pc EXCEPT ![v] = "update"] /\ UNCHANGED unsaved
    BY <1>s, <2>1, <2>2, <2>3 DEF HasPair, HasToken
  <2>4. CASE pc' = [pc EXCEPT ![v] = "insert"] /\ UNCHANGED <<pairAtDB, unsaved>>
    BY <1>5, <1>s, <2>1, <2>4 DEF FindPair, HasPair, HasToken
  <2>5. CASE PairSaved(v, TRUE) /\ UNCHANGED pairAtDB
    BY <1>5, <1>s, <2>1, <2>5 DEF FindPair, PairSaved, HasPair, HasToken
  <2> QED
    BY <1>5, <2>3, <2>4, <2>5 DEF FindPair, PairFound
<1>6. ASSUME NEW v \in Savers, UpdatePair(v) PROVE PairInv'
  <2>1. /\ pairAtDB[v] \in PairRows /\ HasPair(v[2]) /\ HasToken(TokenAt(v))
        /\ SlotAt(v) \in Slots
        /\ pairAtDB[v].created = pair[v[2]].created
    BY <1>6 DEF UpdatePair
  <2> DEFINE row == [pairAtDB[v] EXCEPT !.current = SlotAt(v)]
  <2>2. row \in PairRows /\ row.created = pair[v[2]].created
    BY <2>1 DEF PairRows
  <2>3. row # NoPair /\ row.created \in Slots
    BY <2>2, PairRowsAreNotMissing
  <2> HIDE DEF row
  <2>4. /\ UNCHANGED <<token, trade, job, pairAtDB>>
        /\ pair' = [pair EXCEPT ![v[2]] = row] \/ UNCHANGED pair
        /\ \E failed \in BOOLEAN : PairSaved(v, failed)
    BY <1>6 DEF UpdatePair, row, tokenVars
  <2> QED
    BY <1>s, <2>1, <2>2, <2>3, <2>4 DEF PairSaved, HasPair, HasToken
<1>7. ASSUME NEW v \in Savers, InsertPair(v) PROVE PairInv'
  <2> DEFINE row == [created |-> SlotAt(v), current |-> SlotAt(v)]
  <2>1. SlotAt(v) \in Slots /\ HasToken(TokenAt(v))
    BY <1>7 DEF InsertPair
  <2>2. row \in PairRows /\ row # NoPair
    BY <2>1, PairRowsAreNotMissing DEF PairRows
  <2> HIDE DEF row
  <2>3. /\ UNCHANGED <<token, trade, job, pairAtDB>>
        /\ \/ ~HasPair(v[2]) /\ pair' = [pair EXCEPT ![v[2]] = row]
           \/ UNCHANGED pair
        /\ \/ \E failed \in BOOLEAN : PairSaved(v, failed)
           \/ pc' = [pc EXCEPT ![v] = "refind"] /\ UNCHANGED unsaved
    BY <1>7 DEF InsertPair, row, tokenVars
  <2> QED
    BY <1>s, <2>1, <2>2, <2>3 DEF PairSaved, HasPair, HasToken, TokenAt
<1>8. ASSUME NEW v \in Savers, RefindPair(v) PROVE PairInv'
  BY <1>8, <1>s DEF RefindPair, PairSaved, tokenVars, HasPair, HasToken
<1>9. ASSUME NEW v \in Savers, SaveTradeRows(v) PROVE PairInv'
  BY <1>9, <1>s DEF SaveTradeRows, tokenVars, HasPair, HasToken
<1>10. ASSUME NEW w \in Workers, EndBlock(w) PROVE PairInv'
  BY <1>10, <1>s DEF EndBlock, EndSavers, SaversOf, HasPair, HasToken
<1>11. CASE Crash
  BY <1>11 DEF Crash, KillSavers, HasPair, HasToken
<1> QED
  BY <1>1, <1>2, <1>3, <1>4, <1>5, <1>6, <1>7, <1>8, <1>9, <1>10, <1>11
  DEF PairNext, BatchSaveByTrade, SavePair

\* PairInv holds in every reachable state; TokenInv comes from the refinement.
THEOREM PairInvariant == PairSpec => []PairInv
<1>1. PairSpec => []TokenInv
  BY KeepsTokenStoreTheorem, TokenInvariant, PTL DEF KeepsTokenStore
<1> QED
  BY <1>1, PairInitInv, PairStepInv, PTL DEF PairSpec

\* Types of the pair store, for every instance.
THEOREM PairTypeCorrect == PairSpec => []PairTypeOK
BY PairInvariant, PTL DEF PairInv

\* A pair in the table has its token in the table, however many blocks are
\* saved at once and whatever fails.
THEOREM PairHasTokenTheorem == PairSpec => []PairHasToken
BY PairInvariant, PTL DEF PairInv

\* The columns that the insert of a pair wrote never change afterwards.
THEOREM PairCreatedOnceTheorem == PairSpec => PairCreatedOnce
BY PairInvariant, StepsKeepPairs, PTL DEF PairSpec, PairCreatedOnce

-----------------------------------------------------------------------------
(* Trades and pairs.  A saver that comes to BatchSaveTrade has seen its     *)
(* pair in the table or was told that saving it failed.                     *)

SavedOrReported == \A v \in Savers :
  /\ pc[v] = "refind" => HasPair(PairAt(v))
  /\ pc[v] = "trades" => HasPair(PairAt(v)) \/ <<SlotAt(v), PairAt(v)>> \in unsaved

TradesInv == SavedOrReported /\ TradesHavePair

\* A row of the pair table stays, and so does the history of failures.
LEMMA PairsStay ==
  ASSUME PairInv, [PairNext]_storeVars
  PROVE  /\ \A p \in Pairs : HasPair(p) => HasPair(p)'
         /\ unsaved \subseteq unsaved'
<1>1. PairsKept
  BY StepsKeepPairs
<1>2. ASSUME NEW p \in Pairs, HasPair(p) PROVE HasPair(p)'
  <2>1. pair[p].created \in Slots
    BY <1>2, PairRowsAreNotMissing DEF PairInv, PairTypeOK, HasPair
  <2>2. pair'[p].created # 0
    BY <1>1, <1>2, <2>1, StoreAssumption DEF PairsKept
  <2> QED
    BY <2>2 DEF HasPair, NoPair
<1>3. unsaved \subseteq unsaved'
  BY DEF PairNext, storeVars, pairVars, BeginBlock, BatchSaveByTrade, CallSaveToken,
         TokenFailed, SavePair, FindPair, PairFound, UpdatePair, InsertPair,
         RefindPair, SaveTradeRows, EndBlock, PairSaved, Crash
<1> QED
  BY <1>2, <1>3

\* Every step of PairStore keeps it.
LEMMA TradesStepInv ==
  PairInv /\ TradesInv /\ [PairNext]_storeVars => TradesInv'
<1> SUFFICES ASSUME PairInv, TradesInv, [PairNext]_storeVars PROVE TradesInv'
  OBVIOUS
<1>k. /\ \A p \in Pairs : HasPair(p) => HasPair(p)'
      /\ unsaved \subseteq unsaved'
  BY PairsStay
<1>s. \A v \in Savers : PairAt(v) \in Pairs
  BY SaverParts DEF PairAt
<1>p. trade \subseteq Slots \X Pairs
  BY DEF PairInv, PairTypeOK
<1> USE DEF TradesInv, SavedOrReported, TradesHavePair, SlotAt
<1> DEFINE Arrives(u) ==
      \/ pc'[u] = pc[u] /\ (pc[u] = "trades" => job'[u[1]] = job[u[1]])
      \/ pc'[u] \notin {"refind", "trades"}
      \/ pc'[u] = "refind" /\ HasPair(PairAt(u))'
      \/ /\ pc'[u] = "trades"
         /\ HasPair(PairAt(u))' \/ <<SlotAt(u), PairAt(u)>>' \in unsaved'
<1>1. ASSUME UNCHANGED trade, \A u \in Savers : Arrives(u) PROVE TradesInv'
  BY <1>1, <1>k, <1>s, <1>p DEF PairAt
<1>2. ASSUME \/ UNCHANGED storeVars
             \/ \E v \in Savers : CallSaveToken(v)
      PROVE  UNCHANGED trade /\ \A u \in Savers : Arrives(u)
  BY <1>2 DEF storeVars, pairVars, CallSaveToken
<1>3. ASSUME NEW w \in Workers, NEW s \in Slots, NEW priced \in BOOLEAN,
             BeginBlock(w, s, priced)
      PROVE  UNCHANGED trade /\ \A u \in Savers : Arrives(u)
  <2>1. \A u \in Savers : pc[u] = "trades" => job[u[1]] # 0
    BY StoreAssumption DEF PairInv, JobHasSlot
  <2>2. \A u \in Savers : pc'[u] \in {pc[u], "token"}
    BY <1>3 DEF BeginBlock
  <2>3. \A u \in Savers : job'[u[1]] = job[u[1]] \/ job[u[1]] = 0
    BY <1>3, SaverParts DEF BeginBlock, PairInv, PairTypeOK
  <2> QED
    BY <1>3, <2>1, <2>2, <2>3 DEF BeginBlock
<1>4. ASSUME NEW w \in Workers, EndBlock(w)
      PROVE  UNCHANGED trade /\ \A u \in Savers : Arrives(u)
  <2>1. \A u \in Savers : \/ pc'[u] = "idle"
                          \/ pc'[u] = pc[u] /\ (u[1] = w => pc[u] = "idle")
    BY <1>4 DEF EndBlock, SaversOf
  <2>2. \A u \in Savers : job'[u[1]] = job[u[1]] \/ u[1] = w
    BY <1>4, SaverParts DEF EndBlock, PairInv, PairTypeOK
  <2> QED
    BY <1>4, <2>1, <2>2 DEF EndBlock
<1>5. ASSUME NEW v \in Savers,
             TokenFailed(v) \/ FindPair(v) \/ UpdatePair(v) \/ InsertPair(v) \/ RefindPair(v)
      PROVE  UNCHANGED trade /\ \A u \in Savers : Arrives(u)
  <2>1. UNCHANGED <<trade, job>> /\ \A u \in Savers \ {v} : pc'[u] = pc[u]
    BY <1>5 DEF TokenFailed, FindPair, PairFound, UpdatePair, InsertPair, RefindPair,
                PairSaved, PairInv, PairTypeOK
  <2>2. CASE PairSaved(v, TRUE)
    BY <2>1, <2>2 DEF PairSaved, PairInv, PairTypeOK
  <2>3. CASE PairSaved(v, FALSE) /\ HasPair(PairAt(v))'
    BY <2>1, <2>3 DEF PairSaved, PairInv, PairTypeOK
  <2>4. CASE pc' = [pc EXCEPT ![v] = "refind"] /\ HasPair(PairAt(v))
    BY <1>k, <1>s, <2>1, <2>4 DEF PairInv, PairTypeOK, PairAt
  <2>5. CASE \E to \in {"update", "insert"} : pc' = [pc EXCEPT ![v] = to]
    BY <2>1, <2>5 DEF PairInv, PairTypeOK
  <2>6. CASE TokenFailed(v)
    BY <2>2, <2>6 DEF TokenFailed
  <2>7. CASE FindPair(v)
    BY <2>2, <2>5, <2>7 DEF FindPair, PairFound
  <2>8. CASE UpdatePair(v)
    <3>1. HasPair(PairAt(v))'
      BY <1>k, <1>s, <2>8 DEF UpdatePair, PairInv, PairCopyAgrees, PairAt
    <3> QED
      BY <2>2, <2>3, <2>8, <3>1 DEF UpdatePair
  <2>9. CASE InsertPair(v)
    <3>1. ASSUME pair' = [pair EXCEPT ![PairAt(v)] =
                            [created |-> SlotAt(v), current |-> SlotAt(v)]]
          PROVE  HasPair(PairAt(v))'
      <4>1. SlotAt(v) \in Slots
        BY <2>9 DEF InsertPair, PairInv, JobHasSlot
      <4>2. pair'[PairAt(v)].created # 0
        BY <1>s, <3>1, <4>1, StoreAssumption DEF PairInv, PairTypeOK
      <4> QED
        BY <4>2 DEF HasPair, NoPair, PairAt
    <3> QED
      BY <2>2, <2>3, <2>4, <2>9, <3>1 DEF InsertPair
  <2>10. CASE RefindPair(v)
    <3>1. HasPair(PairAt(v))'
      BY <1>k, <1>s, <2>10 DEF RefindPair, PairAt
    <3> QED
      BY <2>2, <2>3, <2>10, <3>1 DEF RefindPair
  <2> QED
    BY <1>5, <2>6, <2>7, <2>8, <2>9, <2>10
<1>6. ASSUME NEW v \in Savers, SaveTradeRows(v) PROVE TradesInv'
  <2>1. /\ \A u \in Savers : pc'[u] \in {pc[u], "ended", "failed"}
        /\ trade' \subseteq trade \cup {<<SlotAt(v), PairAt(v)>>}
        /\ UNCHANGED <<pair, job, unsaved>>
    BY <1>6 DEF SaveTradeRows, PairInv, PairTypeOK
  <2>2. HasPair(PairAt(v)) \/ <<SlotAt(v), PairAt(v)>> \in unsaved
    BY <1>6 DEF SaveTradeRows
  <2> QED
    BY <2>1, <2>2 DEF HasPair, PairAt
<1>7. ASSUME Crash
      PROVE  UNCHANGED trade /\ \A u \in Savers : Arrives(u)
  BY <1>7 DEF Crash
<1> QED
  BY <1>1, <1>2, <1>3, <1>4, <1>5, <1>6, <1>7 DEF PairNext, BatchSaveByTrade, SavePair

\* Trades never stand in the table without their pair, unless an error told
\* SavePairInfo so; any number of workers, pairs and repeated blocks.
THEOREM TradesHavePairTheorem == PairSpec => []TradesHavePair
<1>1. PairInit => TradesInv
  BY DEF PairInit, TradesInv, SavedOrReported, TradesHavePair
<1>2. PairSpec => []TradesInv
  BY <1>1, PairInvariant, TradesStepInv, PTL DEF PairSpec
<1> QED
  BY <1>2, PTL DEF TradesInv
=============================================================================
