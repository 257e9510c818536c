---------------------------- MODULE TokenAccounts ----------------------------
(***************************************************************************)
(* The token accounts of one block: the map that FillTokenAccountMap fills *)
(* from the balances before and after each transaction and from the        *)
(* instructions that open accounts, and the rows SaveTokenAccounts makes   *)
(* of it.  A transaction here is what the node reports of it: `pre` and    *)
(* `post`, the balances of the accounts it touched that were open before   *)
(* and after it, and `opens`, the accounts its instructions open, with     *)
(* mint and owner (InitializeAccount, InitializeAccount2 and               *)
(* InitializeAccount3, well-formed, at the top level or below).            *)
(***************************************************************************)
EXTENDS Integers, FiniteSets

CONSTANTS
  Accounts,    \* token accounts
  Mints, Wsol, \* tokens, and wrapped SOL among them
  SplMints,    \* the tokens of the SPL Token program; the others are of Token-2022
  DecimalsOf,  \* their decimals
  Owners,      \* owners of token accounts
  Width        \* of an integer, in bits

ASSUME TokenAccountsAssumption ==
  /\ Wsol \in Mints /\ SplMints \subseteq Mints
  /\ DecimalsOf \in [Mints -> Nat]
  /\ Width \in Nat \ {0}

Amounts   == 0 .. 2^Width - 1
MaxSigned == 2^(Width - 1) - 1

\* int64(x) of a uint64, and strconv.ParseInt with its error dropped.
ToSigned(x)  == IF x > MaxSigned THEN x - 2^Width ELSE x
ParseInt(x)  == IF x > MaxSigned THEN MaxSigned ELSE x

Balance == [mint : Mints, owner : Owners, amount : Amounts]

\* An entry of the map (the amount before the transaction is not read again).
Entry(mint, owner, decimals, value, closed) ==
  [mint |-> mint, owner |-> owner, decimals |-> decimals, value |-> value, closed |-> closed]

EmptyMap == [a \in {} |-> Entry(Wsol, CHOOSE o \in Owners : TRUE, 0, 0, TRUE)]

-----------------------------------------------------------------------------
\* Mutant of FillPre: an entry that is there is left open.
FillPreNew(map, pre) ==
  [a \in DOMAIN map \cup DOMAIN pre |->
     IF a \in DOMAIN map THEN map[a]
     ELSE Entry(pre[a].mint, pre[a].owner, DecimalsOf[pre[a].mint], 0, TRUE)]

\* Every account with a balance before: a new entry, closed for the moment.
FillPre(map, pre) ==
  [a \in DOMAIN map \cup DOMAIN pre |->
     IF a \in DOMAIN pre
     THEN Entry(pre[a].mint, pre[a].owner, DecimalsOf[pre[a].mint], 0, TRUE)
     ELSE map[a]]

\* Mutant of FillPost: the account of an earlier transaction is left closed.
FillPostNew(map, post) ==
  [a \in DOMAIN map \cup DOMAIN post |->
     IF a \in DOMAIN map THEN [map[a] EXCEPT !.value = IF a \in DOMAIN post
                                 THEN ParseInt(post[a].amount) ELSE @]
     ELSE Entry(post[a].mint, post[a].owner, DecimalsOf[post[a].mint],
                ParseInt(post[a].amount), FALSE)]

\* Every account with a balance after: open, with that balance.  An entry that
\* is there keeps its owner and mint.
FillPost(map, post) ==
  [a \in DOMAIN map \cup DOMAIN post |->
     IF a \notin DOMAIN post THEN map[a]
     ELSE IF a \in DOMAIN map
          THEN [map[a] EXCEPT !.closed = FALSE, !.value = ParseInt(post[a].amount)]
          ELSE Entry(post[a].mint, post[a].owner, DecimalsOf[post[a].mint],
                     ParseInt(post[a].amount), FALSE)]

\* DecodeInitAccountInstruction, for each account that the SPL Token program
\* opens: an entry with the same mint stays, any other is replaced.
DecodeInitAccount(map, opens) ==
  LET Seen == {a \in DOMAIN opens : opens[a].mint \in SplMints}
  IN [a \in DOMAIN map \cup Seen |->
        IF a \in Seen /\ (a \in DOMAIN map => map[a].mint # opens[a].mint)
        THEN Entry(opens[a].mint, opens[a].owner, 0, 0, FALSE)
        ELSE map[a]]

\* Mutant of FillDecimals: the decimals stay what they are.
KeepDecimals(map) == map

\* Decimals 0 are looked up among the entries of the same mint.
FillDecimals(map) ==
  LET Known(mint) == {map[b].decimals : b \in {c \in DOMAIN map : map[c].mint = mint}} \ {0}
  IN [a \in DOMAIN map |->
        IF map[a].decimals = 0 /\ Known(map[a].mint) # {}
        THEN [map[a] EXCEPT !.decimals = CHOOSE d \in Known(map[a].mint) : TRUE]
        ELSE map[a]]

FillTokenAccountMap(map, tx) ==
  FillDecimals(DecodeInitAccount(FillPost(FillPre(map, tx.pre), tx.post), tx.opens))

-----------------------------------------------------------------------------
\* Mutant of TokenAccountRows: an account that is closed has nothing to save.
OpenAccountRows(map, tokens) ==
  [a \in {b \in DOMAIN map : ~map[b].closed /\ map[b].mint # Wsol
                               /\ map[b].mint \in tokens} |-> map[a]]

\* SaveTokenAccounts: the rows to write, given the tokens that have a row.  An
\* account is once in the map, so the removal of duplicates removes nothing.
TokenAccountRows(map, tokens) ==
  [a \in {b \in DOMAIN map : map[b].mint # Wsol /\ map[b].mint \in tokens} |-> map[a]]
=============================================================================
