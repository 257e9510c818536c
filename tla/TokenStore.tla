----------------------------- MODULE TokenStore -----------------------------
(***************************************************************************)
(* The `token` table and SaveToken, run by the goroutines that SaveTrades  *)
(* starts, one for each pair of a block.  Workers save blocks at the same  *)
(* time, and several pairs of a block may trade the same token, so several *)
(* SaveToken of one token overlap.                                         *)
(*                                                                         *)
(* A row is written whole (gorm's Save): SaveToken reads the row, asks the *)
(* RPC node for the columns it misses, and writes the row it read back     *)
(* with those filled in.  One action is the code between two accesses to   *)
(* the table.  The RPC node's answers are drawn where they are used, which *)
(* no other goroutine can tell: they read nothing these goroutines write.  *)
(***************************************************************************)
EXTENDS Naturals, FiniteSets

CONSTANTS
  Slots,       \* the slots of the blocks that are saved
  Workers,     \* the goroutines that run ProcessBlock
  Pairs,       \* pair addresses (pools)
  Tokens,      \* token addresses
  TokenOf,     \* the token of a pair (PairInfo.TokenAddr)
  Token2022,   \* the tokens that the Token-2022 program owns
  StoreFaults  \* what may go wrong in a run

AllStoreFaults == {"rpc", "find", "write", "trades", "kill", "hang"}

ASSUME StoreAssumption ==
  /\ Slots \subseteq Nat \ {0}
  /\ TokenOf \in [Pairs -> Tokens]
  /\ Token2022 \subseteq Tokens
  /\ StoreFaults \subseteq AllStoreFaults

VARIABLES
  token,   \* the table `token`
  tpc,     \* where a saver is in SaveToken
  tslot,   \* trade.Slot of the trade the saver saves
  tokenDB  \* the struct the saver works on, and at the end returns

tokenVars == <<token, tpc, tslot, tokenDB>>

-----------------------------------------------------------------------------
Savers == Workers \X Pairs       \* one goroutine for each block and pair
TokenAt(v) == TokenOf[v[2]]

\* The columns SaveToken fills: TotalSupply and Symbol with Name are missing
\* or not; Program says which parser reads the metadata.
Programs  == {"token", "token2022"}
TokenRows == [slot : Slots, supply : BOOLEAN, program : Programs, info : BOOLEAN]
NoRow     == [slot |-> 0]
HasToken(t) == token[t] # NoRow

Rpc == IF "rpc" \in StoreFaults THEN {TRUE, FALSE} ELSE {TRUE}

\* The program that GetTokenProgram reports; an error counts as TokenProgram
\* when the row is created.
ProgramsFound(t) ==
  {IF answered /\ t \in Token2022 THEN "token2022" ELSE "token" : answered \in Rpc}

\* Mutant of NewTokens: Program stays empty when GetTokenProgram failed.
NewTokensNoProgram(s, t) ==
  [slot : {s}, supply : Rpc, info : BOOLEAN,
   program : {IF ~answered THEN "" ELSE IF t \in Token2022 THEN "token2022" ELSE "token" :
                answered \in Rpc}]

\* The rows SaveToken may insert for the trade of slot s.  Metadata may be
\* missing on the chain, so the symbol is found or not.
NewTokens(s, t) ==
  [slot : {s}, supply : Rpc, program : ProgramsFound(t), info : BOOLEAN]

\* The row that was read with the columns filled that were missing.  Slot and
\* Program are never missing: every row was inserted with both.
Completions(row) ==
  [slot : {row.slot}, supply : IF row.supply THEN {TRUE} ELSE Rpc,
   program : {row.program}, info : IF row.info THEN {TRUE} ELSE BOOLEAN]

\* Does SaveToken write that row back?  It does when the supply was answered
\* or when metadata came back, with a symbol in it or without.
WritesBack(row, completed) == completed # row \/ ~row.info

TokenInit ==
  /\ token = [t \in Tokens |-> NoRow]
  /\ tpc = [v \in Savers |-> "idle"]
  /\ tslot = [v \in Savers |-> 0]
  /\ tokenDB = [v \in Savers |-> NoRow]

Return(v, row) == tpc' = [tpc EXCEPT ![v] = "ended"]
                  /\ tokenDB' = [tokenDB EXCEPT ![v] = row]

-----------------------------------------------------------------------------
\* SaveTrades starts the goroutines of a block.
StartSavers(V, s) ==
  /\ \A v \in V : tpc[v] = "idle"
  /\ tpc'   = [v \in Savers |-> IF v \in V THEN "find" ELSE tpc[v]]
  /\ tslot' = [v \in Savers |-> IF v \in V THEN s ELSE tslot[v]]
  /\ UNCHANGED <<token, tokenDB>>

\* FindOneByChainIdAddress: the row, "record not found", or another error.
FindToken(v) ==
  /\ tpc[v] = "find"
  /\ \/ /\ HasToken(TokenAt(v))
        /\ tokenDB' = [tokenDB EXCEPT ![v] = token[TokenAt(v)]]
        /\ tpc' = [tpc EXCEPT ![v] = "complete"]
     \/ /\ ~HasToken(TokenAt(v))
        /\ tpc' = [tpc EXCEPT ![v] = "insert"] /\ UNCHANGED tokenDB
     \/ "find" \in StoreFaults /\ Return(v, NoRow)
  /\ UNCHANGED <<token, tslot>>

\* Mutant of CompleteToken: the metadata is asked for until it is there.
CompleteTokenUntilFound(v) ==
  /\ tpc[v] = "complete"
  /\ \E row \in Completions(tokenDB[v]) :
       /\ tokenDB' = [tokenDB EXCEPT ![v] = row]
       /\ tpc' = [tpc EXCEPT ![v] = IF row.info THEN "ended" ELSE "find"]
       /\ token' = [token EXCEPT ![TokenAt(v)] = row]
  /\ UNCHANGED tslot

\* The row is in the table: fill it in and write it back.  The error of
\* Update is ignored, the completed row is returned in any case.
CompleteToken(v) ==
  /\ tpc[v] = "complete"
  /\ \E row \in Completions(tokenDB[v]) :
       /\ Return(v, row)
       /\ \/ /\ WritesBack(tokenDB[v], row)
             /\ token' = [token EXCEPT ![TokenAt(v)] = row]
          \/ /\ row = tokenDB[v] \/ "write" \in StoreFaults
             /\ UNCHANGED token
  /\ UNCHANGED tslot

\* Mutant of InsertToken: the insert replaces a row it collides with.
InsertTokenUpserts(v) ==
  /\ tpc[v] = "insert"
  /\ \E row \in NewTokens(tslot[v], TokenAt(v)) :
       token' = [token EXCEPT ![TokenAt(v)] = row] /\ Return(v, row)
  /\ UNCHANGED tslot

\* Mutant of InsertToken: the row is returned though the table refused it.
InsertTokenReturnsAnyway(v) ==
  /\ tpc[v] = "insert"
  /\ \E row \in NewTokens(tslot[v], TokenAt(v)) :
       /\ Return(v, row)
       /\ \/ ~HasToken(TokenAt(v)) /\ token' = [token EXCEPT ![TokenAt(v)] = row]
          \/ /\ HasToken(TokenAt(v)) \/ "write" \in StoreFaults
             /\ UNCHANGED token
  /\ UNCHANGED tslot

\* The row was missing: create it.  "Duplicate entry" means that another
\* goroutine was faster; any other error ends SaveToken.
InsertToken(v) ==
  /\ tpc[v] = "insert"
  /\ \/ /\ ~HasToken(TokenAt(v))
        /\ \E row \in NewTokens(tslot[v], TokenAt(v)) :
             token' = [token EXCEPT ![TokenAt(v)] = row] /\ Return(v, row)
     \/ /\ HasToken(TokenAt(v))
        /\ tpc' = [tpc EXCEPT ![v] = "refind"] /\ UNCHANGED <<token, tokenDB>>
     \/ "write" \in StoreFaults /\ Return(v, NoRow) /\ UNCHANGED token
  /\ UNCHANGED tslot

\* The row another goroutine inserted, or the error of reading it.
RefindToken(v) ==
  /\ tpc[v] = "refind"
  /\ \/ Return(v, token[TokenAt(v)])
     \/ "find" \in StoreFaults /\ Return(v, NoRow)
  /\ UNCHANGED <<token, tslot>>

\* The request for the token's own metadata, which has no timeout and no context:
\* its server takes it and never answers, and the goroutine waits for ever.  It is
\* made for a row without a symbol and for a new one, before the row is written.
MetadataHangs(v) ==
  /\ "hang" \in StoreFaults
  /\ tpc[v] = "insert" \/ (tpc[v] = "complete" /\ ~tokenDB[v].info)
  /\ tpc' = [tpc EXCEPT ![v] = "hung"]
  /\ UNCHANGED <<token, tslot, tokenDB>>

\* The goroutine ends.
EndSavers(V) ==
  /\ \A v \in V : tpc[v] = "ended"
  /\ tpc'     = [v \in Savers |-> IF v \in V THEN "idle" ELSE tpc[v]]
  /\ tslot'   = [v \in Savers |-> IF v \in V THEN 0 ELSE tslot[v]]
  /\ tokenDB' = [v \in Savers |-> IF v \in V THEN NoRow ELSE tokenDB[v]]
  /\ UNCHANGED token

\* The process ends between two accesses of any of its goroutines: all of them are
\* gone, the table keeps what it has.
KillSavers ==
  /\ "kill" \in StoreFaults
  /\ tpc'     = [v \in Savers |-> "idle"]
  /\ tslot'   = [v \in Savers |-> 0]
  /\ tokenDB' = [v \in Savers |-> NoRow]
  /\ UNCHANGED token

SaveToken(v) ==
  \/ FindToken(v) \/ CompleteToken(v) \/ InsertToken(v) \/ RefindToken(v)
  \/ MetadataHangs(v)

TokenNext ==
  \/ \E V \in SUBSET Savers, s \in Slots : StartSavers(V, s)
  \/ \E v \in Savers : SaveToken(v)
  \/ \E V \in SUBSET Savers : EndSavers(V)
  \/ KillSavers

TokenSpec == TokenInit /\ [][TokenNext]_tokenVars

-----------------------------------------------------------------------------
\* Types of the variables.
TokenTypeOK ==
  /\ token \in [Tokens -> TokenRows \cup {NoRow}]
  /\ tpc \in [Savers -> {"idle", "find", "complete", "insert", "refind", "hung", "ended"}]
  /\ tslot \in [Savers -> Slots \cup {0}]
  /\ tokenDB \in [Savers -> TokenRows \cup {NoRow}]

\* SaveToken never hands out a token that the table does not hold: the pair,
\* which copies its symbol and supply, would refer to nothing (token.go 276-290).
ReturnedTokenIsStored ==
  \A v \in Savers : tokenDB[v] # NoRow => HasToken(TokenAt(v))

\* A step leaves what identifies the rows of the token table.
RowsKept == \A t \in Tokens : HasToken(t) =>
  /\ token'[t] # NoRow
  /\ token'[t].slot = token[t].slot /\ token'[t].program = token[t].program

\* Goroutines that race to create a token leave the row of the first, and the
\* whole-row writes of the later ones keep what identifies it: the slot it was
\* first seen in and its program (token.go 185-187, 275-287).
TokenCreatedOnce == [][RowsKept]_tokenVars
=============================================================================
