------------------------- MODULE BlockDecodeProofs -------------------------
(***************************************************************************)
(* The token accounts of a block, proved for any pools, accounts, tokens,  *)
(* amounts and any number of transactions.  First what FillTokenAccountMap *)
(* makes of the entries for one transaction, then a whole block: ChainInv  *)
(* ties the balances that the transactions report to the ledger that the   *)
(* chain keeps; FilledInv says what the map holds after the first          *)
(* transactions.  OpensInv and EntriesInv do the same for tokens, owners   *)
(* and decimals.                                                           *)
(***************************************************************************)
EXTENDS BlockDecode, SequenceTheorems, FiniteSetTheorems, TLAPS

-----------------------------------------------------------------------------
(* One transaction: FillTokenAccountMap.                                   *)


Entries == [mint : Mints, owner : Owners, decimals : Nat, value : Int, closed : BOOLEAN]

\* A map of entries, and a transaction as the node reports it.
IsMap(given) == given \in [DOMAIN given -> Entries]
IsTx(tx) ==
  /\ tx.pre \in [DOMAIN tx.pre -> Balance]
  /\ tx.post \in [DOMAIN tx.post -> Balance]
  /\ \A a \in DOMAIN tx.opens : tx.opens[a].mint \in Mints /\ tx.opens[a].owner \in Owners

\* DecodeInitAccount leaves the account alone.
NotOpened(tx, a) == a \in DOMAIN tx.opens => tx.opens[a].mint \notin SplMints

\* DecodeInitAccount opens the account, if at all, with that mint.
OpenedAs(tx, a, mint) == NotOpened(tx, a) \/ tx.opens[a].mint = mint

\* An entry has the decimals of its token, or 0 when they were not known; and they
\* are not known of one account of a token and unknown of another.
KnownDecimals(given)  == \A a \in DOMAIN given : given[a].decimals \in {0, DecimalsOf[given[a].mint]}
SharedDecimals(given) == \A a, b \in DOMAIN given :
  given[a].mint = given[b].mint /\ given[b].decimals # 0 => given[a].decimals # 0

LEMMA AmountsAreNumbers == ASSUME NEW x \in Amounts PROVE ParseInt(x) \in Int
<1>1. 2^Width \in Int /\ 2^(Width - 1) \in Int
  BY TokenAccountsAssumption
<1> QED
  BY <1>1 DEF Amounts, ParseInt, MaxSigned

\* The balances before: each account has an entry of its own, closed.
LEMMA FilledPre ==
  ASSUME NEW given, IsMap(given), NEW tx, IsTx(tx)
  PROVE  LET m == FillPre(given, tx.pre)
         IN /\ IsMap(m) /\ DOMAIN m = DOMAIN given \cup DOMAIN tx.pre
            /\ \A a \in DOMAIN tx.pre : m[a].closed /\ m[a].mint = tx.pre[a].mint
                                        /\ m[a].owner = tx.pre[a].owner
                                        /\ m[a].decimals = DecimalsOf[m[a].mint]
            /\ \A a \in DOMAIN given \ DOMAIN tx.pre : m[a] = given[a]
BY TokenAccountsAssumption DEF FillPre, IsMap, IsTx, Entry, Entries, Balance

\* The balances after: each account is open with its balance, and an entry that
\* was there keeps its token and owner.
LEMMA FilledPost ==
  ASSUME NEW given, IsMap(given), NEW tx, IsTx(tx)
  PROVE  LET m == FillPost(given, tx.post)
         IN /\ IsMap(m) /\ DOMAIN m = DOMAIN given \cup DOMAIN tx.post
            /\ \A a \in DOMAIN tx.post : ~m[a].closed /\ m[a].value = ParseInt(tx.post[a].amount)
            /\ \A a \in DOMAIN tx.post \cap DOMAIN given :
                 m[a].mint = given[a].mint /\ m[a].owner = given[a].owner
                 /\ m[a].decimals = given[a].decimals
            /\ \A a \in DOMAIN tx.post \ DOMAIN given :
                 m[a].mint = tx.post[a].mint /\ m[a].owner = tx.post[a].owner
                 /\ m[a].decimals = DecimalsOf[m[a].mint]
            /\ \A a \in DOMAIN given \ DOMAIN tx.post : m[a] = given[a]
<1> DEFINE m == FillPost(given, tx.post)
<1>1. DOMAIN m = DOMAIN given \cup DOMAIN tx.post
  BY DEF FillPost
<1>2. ASSUME NEW a \in DOMAIN tx.post, a \in DOMAIN given
      PROVE  /\ m[a] \in Entries /\ ~m[a].closed /\ m[a].value = ParseInt(tx.post[a].amount)
             /\ m[a].mint = given[a].mint /\ m[a].owner = given[a].owner
             /\ m[a].decimals = given[a].decimals
  <2>1. m[a] = [given[a] EXCEPT !.closed = FALSE, !.value = ParseInt(tx.post[a].amount)]
    BY <1>2 DEF FillPost
  <2>2. given[a] \in Entries /\ ParseInt(tx.post[a].amount) \in Int
    BY <1>2, AmountsAreNumbers DEF IsMap, IsTx, Balance
  <2> QED
    BY <2>1, <2>2 DEF Entries
<1>3. ASSUME NEW a \in DOMAIN tx.post, a \notin DOMAIN given
      PROVE  /\ m[a] \in Entries /\ ~m[a].closed /\ m[a].value = ParseInt(tx.post[a].amount)
             /\ m[a].mint = tx.post[a].mint /\ m[a].owner = tx.post[a].owner
             /\ m[a].decimals = DecimalsOf[m[a].mint]
  <2>1. m[a] = Entry(tx.post[a].mint, tx.post[a].owner, DecimalsOf[tx.post[a].mint],
                     ParseInt(tx.post[a].amount), FALSE)
    BY <1>3 DEF FillPost
  <2>2. tx.post[a] \in Balance /\ ParseInt(tx.post[a].amount) \in Int
    BY AmountsAreNumbers DEF IsTx, Balance
  <2> QED
    BY <2>1, <2>2, TokenAccountsAssumption DEF Entry, Entries, Balance
<1>4. \A a \in DOMAIN given \ DOMAIN tx.post : m[a] = given[a]
  BY DEF FillPost
<1>5. m = [a \in DOMAIN m |-> m[a]]
  BY DEF FillPost
<1>6. IsMap(m)
  BY <1>1, <1>2, <1>3, <1>4, <1>5 DEF IsMap
<1> QED
  BY <1>1, <1>2, <1>3, <1>4, <1>6

\* The instructions that open accounts: an entry of the same token, and every
\* other entry, stays; the rest is as the instruction says.
LEMMA FilledOpens ==
  ASSUME NEW given, IsMap(given), NEW tx, IsTx(tx)
  PROVE  LET m == DecodeInitAccount(given, tx.opens)
         IN /\ IsMap(m) /\ DOMAIN given \subseteq DOMAIN m
            /\ \A a \in DOMAIN given : OpenedAs(tx, a, given[a].mint) => m[a] = given[a]
            /\ \A a \in DOMAIN m : a \notin DOMAIN given \/ ~OpenedAs(tx, a, given[a].mint) =>
                 /\ a \in DOMAIN tx.opens /\ ~NotOpened(tx, a)
                 /\ m[a].mint = tx.opens[a].mint /\ m[a].owner = tx.opens[a].owner
                 /\ m[a].decimals = 0
BY DEF DecodeInitAccount, NotOpened, OpenedAs, IsMap, IsTx, Entry, Entries

\* The decimals: nothing else changes, and those that are not known become those
\* of another account of the token.
LEMMA FilledDecimals ==
  ASSUME NEW given, IsMap(given)
  PROVE  LET m == FillDecimals(given)
         IN /\ IsMap(m) /\ DOMAIN m = DOMAIN given
            /\ \A a \in DOMAIN given :
                 /\ m[a].closed = given[a].closed /\ m[a].value = given[a].value
                 /\ m[a].mint = given[a].mint /\ m[a].owner = given[a].owner
                 /\ given[a].decimals # 0 => m[a].decimals = given[a].decimals
                 /\ given[a].decimals = 0 =>
                      \/ \E b \in DOMAIN given : /\ given[b].mint = given[a].mint /\ given[b].decimals # 0
                                               /\ m[a].decimals = given[b].decimals
                      \/ /\ m[a].decimals = 0
                         /\ \A b \in DOMAIN given : given[b].mint = given[a].mint => given[b].decimals = 0
<1> DEFINE m == FillDecimals(given)
<1>1. DOMAIN m = DOMAIN given
  BY DEF FillDecimals
<1> DEFINE Known(a) == {given[b].decimals : b \in {c \in DOMAIN given : given[c].mint = given[a].mint}} \ {0}
           known(a) == CHOOSE d \in Known(a) : TRUE
<1>2. ASSUME NEW a \in DOMAIN given
      PROVE  m[a] = IF given[a].decimals = 0 /\ Known(a) # {}
                    THEN [given[a] EXCEPT !.decimals = known(a)] ELSE given[a]
  BY DEF FillDecimals
<1>3. \A a \in DOMAIN given : given[a] \in Entries
  BY DEF IsMap
<1>4. ASSUME NEW a \in DOMAIN given, Known(a) # {} PROVE known(a) \in Nat /\ known(a) \in Known(a)
  <2>1. Known(a) \subseteq Nat
    BY <1>3 DEF Entries
  <2>2. known(a) \in Known(a)
    BY <1>4
  <2> QED
    BY <2>1, <2>2
<1> HIDE DEF known
<1>5. ASSUME NEW a \in DOMAIN given, Known(a) # {}
      PROVE  \E b \in DOMAIN given : /\ given[b].mint = given[a].mint /\ given[b].decimals # 0
                                   /\ known(a) = given[b].decimals
  BY <1>4, <1>5
<1>6. ASSUME NEW a \in DOMAIN given, Known(a) = {}
      PROVE  \A b \in DOMAIN given : given[b].mint = given[a].mint => given[b].decimals = 0
  BY <1>6
<1> HIDE DEF Known
<1>7. ASSUME NEW a \in DOMAIN given
      PROVE  /\ m[a] \in Entries
             /\ m[a].closed = given[a].closed /\ m[a].value = given[a].value
             /\ m[a].mint = given[a].mint /\ m[a].owner = given[a].owner
             /\ given[a].decimals # 0 => m[a].decimals = given[a].decimals
             /\ given[a].decimals = 0 => m[a].decimals = IF Known(a) # {} THEN known(a) ELSE 0
  BY <1>2, <1>3, <1>7, <1>4 DEF Entries
<1>8. m = [a \in DOMAIN m |-> m[a]]
  BY DEF FillDecimals
<1>9. IsMap(m)
  BY <1>1, <1>7, <1>8 DEF IsMap
<1> HIDE DEF m
<1>10. \A a \in DOMAIN given : given[a].decimals = 0 =>
         \/ \E b \in DOMAIN given : /\ given[b].mint = given[a].mint /\ given[b].decimals # 0
                                  /\ m[a].decimals = given[b].decimals
         \/ /\ m[a].decimals = 0
            /\ \A b \in DOMAIN given : given[b].mint = given[a].mint => given[b].decimals = 0
  <2> SUFFICES ASSUME NEW a \in DOMAIN given, given[a].decimals = 0
               PROVE  \/ \E b \in DOMAIN given : /\ given[b].mint = given[a].mint /\ given[b].decimals # 0
                                               /\ m[a].decimals = given[b].decimals
                      \/ /\ m[a].decimals = 0
                         /\ \A b \in DOMAIN given : given[b].mint = given[a].mint => given[b].decimals = 0
    OBVIOUS
  <2>1. CASE Known(a) # {}
    BY <1>5, <1>7, <2>1
  <2>2. CASE Known(a) = {}
    BY <1>6, <1>7, <2>2
  <2> QED
    BY <2>1, <2>2
<1> QED
  BY <1>1, <1>7, <1>9, <1>10 DEF m

\* FillDecimals keeps KnownDecimals, and gives SharedDecimals.
LEMMA DecimalsAreShared ==
  ASSUME NEW given, IsMap(given), KnownDecimals(given)
  PROVE  KnownDecimals(FillDecimals(given)) /\ SharedDecimals(FillDecimals(given))
<1> DEFINE m == FillDecimals(given)
<1>1. /\ DOMAIN m = DOMAIN given
      /\ \A a \in DOMAIN given :
           /\ m[a].mint = given[a].mint
           /\ given[a].decimals # 0 => m[a].decimals = given[a].decimals
           /\ given[a].decimals = 0 =>
                \/ \E b \in DOMAIN given : /\ given[b].mint = given[a].mint /\ given[b].decimals # 0
                                         /\ m[a].decimals = given[b].decimals
                \/ /\ m[a].decimals = 0
                   /\ \A b \in DOMAIN given : given[b].mint = given[a].mint => given[b].decimals = 0
  BY FilledDecimals
<1> HIDE DEF m
<1>2. KnownDecimals(m)
  BY <1>1 DEF KnownDecimals
<1>3. SharedDecimals(m)
  BY <1>1 DEF SharedDecimals
<1> QED
  BY <1>2, <1>3 DEF m

\* What the entry of an account is made from: the balance before the transaction,
\* the entry that was there, or else the balance after.
Origin(given, tx, a) == IF a \in DOMAIN tx.pre THEN tx.pre[a]
                      ELSE IF a \in DOMAIN given THEN given[a] ELSE tx.post[a]

\* The map after a transaction, entry by entry.
LEMMA FilledEntries ==
  ASSUME NEW given, IsMap(given), NEW tx, IsTx(tx)
  PROVE  LET m == FillTokenAccountMap(given, tx)
         IN /\ IsMap(m)
            /\ KnownDecimals(given) => KnownDecimals(m) /\ SharedDecimals(m)
            /\ \A a \in DOMAIN given \cup DOMAIN tx.pre \cup DOMAIN tx.post :
                 a \in DOMAIN m /\ (OpenedAs(tx, a, Origin(given, tx, a).mint) =>
                   /\ m[a].mint = Origin(given, tx, a).mint /\ m[a].owner = Origin(given, tx, a).owner
                   /\ a \in DOMAIN tx.post => ~m[a].closed /\ m[a].value = ParseInt(tx.post[a].amount)
                   /\ a \in DOMAIN tx.pre \ DOMAIN tx.post => m[a].closed
                   /\ a \notin DOMAIN tx.pre \cup DOMAIN tx.post =>
                        m[a].closed = given[a].closed /\ m[a].value = given[a].value
                   /\ a \in DOMAIN given \ DOMAIN tx.pre /\ given[a].decimals # 0 =>
                        m[a].decimals = given[a].decimals
                   /\ KnownDecimals(given) /\ (\/ a \in DOMAIN tx.pre \/ a \notin DOMAIN given
                                             \/ given[a].decimals = DecimalsOf[given[a].mint]) =>
                        m[a].decimals = DecimalsOf[m[a].mint])
            /\ \A a \in DOMAIN m :
                 \/ a \in DOMAIN given \cup DOMAIN tx.pre \cup DOMAIN tx.post
                    /\ OpenedAs(tx, a, Origin(given, tx, a).mint)
                 \/ /\ a \in DOMAIN tx.opens /\ ~NotOpened(tx, a)
                    /\ m[a].mint = tx.opens[a].mint /\ m[a].owner = tx.opens[a].owner
<1> DEFINE m1 == FillPre(given, tx.pre)
           m2 == FillPost(m1, tx.post)
           m3 == DecodeInitAccount(m2, tx.opens)
           m4 == FillDecimals(m3)
           o(a) == Origin(given, tx, a)
<1>1. FillTokenAccountMap(given, tx) = m4
  BY DEF FillTokenAccountMap
<1>2. /\ IsMap(m1) /\ DOMAIN m1 = DOMAIN given \cup DOMAIN tx.pre
      /\ \A a \in DOMAIN tx.pre : m1[a].closed /\ m1[a].mint = tx.pre[a].mint
                                  /\ m1[a].owner = tx.pre[a].owner
                                  /\ m1[a].decimals = DecimalsOf[m1[a].mint]
      /\ \A a \in DOMAIN given \ DOMAIN tx.pre : m1[a] = given[a]
  BY FilledPre
<1> HIDE DEF m1
<1>3. /\ IsMap(m2) /\ DOMAIN m2 = DOMAIN m1 \cup DOMAIN tx.post
      /\ \A a \in DOMAIN tx.post : ~m2[a].closed /\ m2[a].value = ParseInt(tx.post[a].amount)
      /\ \A a \in DOMAIN tx.post \cap DOMAIN m1 :
           m2[a].mint = m1[a].mint /\ m2[a].owner = m1[a].owner
           /\ m2[a].decimals = m1[a].decimals
      /\ \A a \in DOMAIN tx.post \ DOMAIN m1 :
           m2[a].mint = tx.post[a].mint /\ m2[a].owner = tx.post[a].owner
           /\ m2[a].decimals = DecimalsOf[m2[a].mint]
      /\ \A a \in DOMAIN m1 \ DOMAIN tx.post : m2[a] = m1[a]
  <2>1. IsMap(m1)
    BY <1>2
  <2> QED
    BY <2>1, FilledPost
<1> HIDE DEF m2
<1>4. /\ IsMap(m3) /\ DOMAIN m2 \subseteq DOMAIN m3
      /\ \A a \in DOMAIN m2 : OpenedAs(tx, a, m2[a].mint) => m3[a] = m2[a]
      /\ \A a \in DOMAIN m3 : a \notin DOMAIN m2 \/ ~OpenedAs(tx, a, m2[a].mint) =>
           /\ a \in DOMAIN tx.opens /\ ~NotOpened(tx, a)
           /\ m3[a].mint = tx.opens[a].mint /\ m3[a].owner = tx.opens[a].owner
           /\ m3[a].decimals = 0
  <2>1. IsMap(m2)
    BY <1>3
  <2> QED
    BY <2>1, FilledOpens
<1> HIDE DEF m3
<1>5. /\ IsMap(m4) /\ DOMAIN m4 = DOMAIN m3
      /\ \A a \in DOMAIN m3 :
           /\ m4[a].closed = m3[a].closed /\ m4[a].value = m3[a].value
           /\ m4[a].mint = m3[a].mint /\ m4[a].owner = m3[a].owner
           /\ m3[a].decimals # 0 => m4[a].decimals = m3[a].decimals
  <2>1. IsMap(m3)
    BY <1>4
  <2> QED
    BY <2>1, FilledDecimals
<1>6. KnownDecimals(m3) => KnownDecimals(m4) /\ SharedDecimals(m4)
  BY <1>4, DecimalsAreShared
<1> HIDE DEF m4
<1>7. ASSUME NEW a \in DOMAIN given \cup DOMAIN tx.pre \cup DOMAIN tx.post
      PROVE  /\ a \in DOMAIN m2 /\ m2[a].mint = o(a).mint /\ m2[a].owner = o(a).owner
             /\ a \in DOMAIN tx.pre \ DOMAIN tx.post => m2[a].closed
             /\ a \notin DOMAIN tx.pre \cup DOMAIN tx.post =>
                  m2[a].closed = given[a].closed /\ m2[a].value = given[a].value
             /\ a \in DOMAIN tx.pre \/ a \notin DOMAIN given => m2[a].decimals = DecimalsOf[m2[a].mint]
             /\ a \in DOMAIN given \ DOMAIN tx.pre =>
                  m2[a].decimals = given[a].decimals /\ m2[a].mint = given[a].mint
  BY <1>2, <1>3, <1>7 DEF Origin
<1>8. DOMAIN m2 = DOMAIN given \cup DOMAIN tx.pre \cup DOMAIN tx.post
  BY <1>2, <1>3
<1> HIDE DEF o
<1>9. KnownDecimals(given) => KnownDecimals(m3)
  BY <1>4, <1>7, <1>8 DEF KnownDecimals
<1>10. ASSUME NEW a \in DOMAIN given \cup DOMAIN tx.pre \cup DOMAIN tx.post, OpenedAs(tx, a, o(a).mint)
       PROVE  /\ m4[a].mint = o(a).mint /\ m4[a].owner = o(a).owner
              /\ a \in DOMAIN tx.post => ~m4[a].closed /\ m4[a].value = ParseInt(tx.post[a].amount)
              /\ a \in DOMAIN tx.pre \ DOMAIN tx.post => m4[a].closed
              /\ a \notin DOMAIN tx.pre \cup DOMAIN tx.post =>
                   m4[a].closed = given[a].closed /\ m4[a].value = given[a].value
              /\ a \in DOMAIN given \ DOMAIN tx.pre /\ given[a].decimals # 0 =>
                   m4[a].decimals = given[a].decimals
              /\ KnownDecimals(given) /\ (\/ a \in DOMAIN tx.pre \/ a \notin DOMAIN given
                                        \/ given[a].decimals = DecimalsOf[given[a].mint]) =>
                   m4[a].decimals = DecimalsOf[m4[a].mint]
  <2>1. m3[a] = m2[a] /\ a \in DOMAIN m3
    BY <1>4, <1>7, <1>10
  <2>2. ASSUME KnownDecimals(given), \/ a \in DOMAIN tx.pre \/ a \notin DOMAIN given
                                   \/ given[a].decimals = DecimalsOf[given[a].mint]
        PROVE  m4[a].decimals = DecimalsOf[m4[a].mint]
    <3>1. m2[a].decimals = DecimalsOf[m2[a].mint]
      BY <1>7, <2>2
    <3>2. m4[a].decimals \in {0, DecimalsOf[m4[a].mint]}
      BY <1>5, <1>6, <1>9, <2>1, <2>2 DEF KnownDecimals
    <3> QED
      BY <1>5, <2>1, <3>1, <3>2
  <2>3. a \in DOMAIN tx.post => ~m2[a].closed /\ m2[a].value = ParseInt(tx.post[a].amount)
    BY <1>3
  <2> QED
    BY <1>5, <1>7, <2>1, <2>2, <2>3
<1>11. ASSUME NEW a \in DOMAIN m4,
              ~(/\ a \in DOMAIN given \cup DOMAIN tx.pre \cup DOMAIN tx.post
                /\ OpenedAs(tx, a, o(a).mint))
       PROVE  /\ a \in DOMAIN tx.opens /\ ~NotOpened(tx, a)
              /\ m4[a].mint = tx.opens[a].mint /\ m4[a].owner = tx.opens[a].owner
  BY <1>4, <1>5, <1>7, <1>8, <1>11
<1>12. \A a \in DOMAIN given \cup DOMAIN tx.pre \cup DOMAIN tx.post : a \in DOMAIN m4
  BY <1>4, <1>5, <1>8
<1> QED
  BY <1>1, <1>5, <1>6, <1>9, <1>10, <1>11, <1>12 DEF o

\* Whatever the transactions before did to the map, after a transaction it has
\* each account that the transaction had a balance of, and did not open, as this
\* transaction left it: open with its balance, or closed; and the accounts that
\* the transaction does not mention as they were (FillTokenAccountMap).
THEOREM FilledMapTheorem ==
  ASSUME NEW given, IsMap(given), NEW tx, IsTx(tx)
  PROVE  LET m == FillTokenAccountMap(given, tx)
         IN /\ IsMap(m)
            /\ \A a \in DOMAIN tx.pre \cup DOMAIN tx.post : NotOpened(tx, a) =>
                 /\ a \in DOMAIN m
                 /\ m[a].closed <=> a \notin DOMAIN tx.post
                 /\ a \in DOMAIN tx.post => m[a].value = ParseInt(tx.post[a].amount)
                 /\ a \in DOMAIN tx.pre => m[a].mint = tx.pre[a].mint
                                           /\ m[a].owner = tx.pre[a].owner
            /\ \A a \in DOMAIN given \ (DOMAIN tx.pre \cup DOMAIN tx.post) : NotOpened(tx, a) =>
                 /\ a \in DOMAIN m
                 /\ m[a].closed = given[a].closed /\ m[a].value = given[a].value
                 /\ m[a].mint = given[a].mint /\ m[a].owner = given[a].owner
                 /\ given[a].decimals # 0 => m[a].decimals = given[a].decimals
<1> DEFINE m == FillTokenAccountMap(given, tx)
<1>1. /\ IsMap(m)
      /\ \A a \in DOMAIN given \cup DOMAIN tx.pre \cup DOMAIN tx.post :
           a \in DOMAIN m /\ (OpenedAs(tx, a, Origin(given, tx, a).mint) =>
             /\ m[a].mint = Origin(given, tx, a).mint /\ m[a].owner = Origin(given, tx, a).owner
             /\ a \in DOMAIN tx.post => ~m[a].closed /\ m[a].value = ParseInt(tx.post[a].amount)
             /\ a \in DOMAIN tx.pre \ DOMAIN tx.post => m[a].closed
             /\ a \notin DOMAIN tx.pre \cup DOMAIN tx.post =>
                  m[a].closed = given[a].closed /\ m[a].value = given[a].value
             /\ a \in DOMAIN given \ DOMAIN tx.pre /\ given[a].decimals # 0 =>
                  m[a].decimals = given[a].decimals)
  BY FilledEntries
<1> HIDE DEF m
<1>2. \A a : NotOpened(tx, a) => OpenedAs(tx, a, Origin(given, tx, a).mint)
  BY DEF OpenedAs
<1> QED
  BY <1>1, <1>2 DEF Origin, m

-----------------------------------------------------------------------------
(* The block: the chain's ledger, and the map as it is filled.             *)


IsLedger(l) == l \in [Accounts -> Balance \cup {Closed}]

\* The transaction that runs: what it did not touch is as it was.
CurInv ==
  /\ cur = [insts |-> cur.insts, events |-> cur.events, opens |-> cur.opens,
            touched |-> cur.touched]
  /\ cur.touched \subseteq Accounts
  /\ \A a \in DOMAIN cur.opens : cur.opens[a].mint \in Mints /\ cur.opens[a].owner \in Owners
  /\ \A a \in Accounts \ cur.touched : ledger[a] = start[a]

\* No transaction reports a balance of the account behind the k-th, up to the m-th.
LastSeenIs(a, k, m) == Seen(a, k) /\ \A i \in 1 .. m : i > k => ~Seen(a, i)

\* The last balance reported of an account is what it has.
Reported(a, k) ==
  /\ start[a] = Closed <=> a \notin DOMAIN blk[k].post
  /\ a \in DOMAIN blk[k].post => blk[k].post[a] = start[a]

BlkInv ==
  /\ \E S : blk \in Seq(S)
  /\ \A i \in 1 .. Len(blk) : IsTx(blk[i])
  /\ \A a \in Accounts, k \in 1 .. Len(blk) : LastSeenIs(a, k, Len(blk)) => Reported(a, k)

ChainInv == IsLedger(ledger) /\ IsLedger(start) /\ CurInv /\ BlkInv

\* The map when the first m transactions have been gone over.
FilledTo(m) ==
  \A a \in Accounts, k \in 1 .. m :
    LastSeenIs(a, k, m) /\ (\A i \in 1 .. m : i >= k => ~Opens(a, i)) =>
      /\ a \in DOMAIN map
      /\ map[a].closed <=> a \notin DOMAIN blk[k].post
      /\ a \in DOMAIN blk[k].post => map[a].value = ParseInt(blk[k].post[a].amount)

FilledInv ==
  /\ phase \in {"chain", "fill", "decode", "accounts", "saved"}
  /\ IsMap(map)
  /\ phase = "chain" => n = 1
  /\ phase # "chain" => cur = EmptyTx
  /\ phase = "fill" => n \in 1 .. Len(blk) /\ FilledTo(n - 1)
  /\ phase \in {"decode", "accounts", "saved"} => FilledTo(Len(blk))

DecodeInv == ChainInv /\ FilledInv

-----------------------------------------------------------------------------
\* A finite set of integers in order: Nth counts it from its least element to its
\* greatest, without gap or repetition.
LEMMA NthCounts ==
  ASSUME NEW S \in SUBSET Int, IsFiniteSet(S)
  PROVE  /\ Cardinality(S) \in Nat
         /\ \A k \in 1 .. Cardinality(S) : Nth(S, k) \in S
         /\ \A k, h \in 1 .. Cardinality(S) : k < h => Nth(S, k) < Nth(S, h)
         /\ \A i \in S : \E k \in 1 .. Cardinality(S) : Nth(S, k) = i
<1> DEFINE U(i) == {j \in S : j <= i}
           rank == [i \in S |-> Cardinality(U(i))]
<1>1. Cardinality(S) \in Nat
  BY FS_CardinalityType
<1>2. \A i \in S : IsFiniteSet(U(i)) /\ Cardinality(U(i)) \in Nat
                   /\ Cardinality(U(i)) <= Cardinality(S) /\ i \in U(i)
  <2> TAKE i \in S
  <2>1. U(i) \in SUBSET S /\ i \in U(i)
    OBVIOUS
  <2> HIDE DEF U
  <2> QED
    BY <2>1, FS_Subset, FS_CardinalityType
<1>3. \A i \in S : Cardinality(U(i)) \in 1 .. Cardinality(S)
  <2> TAKE i \in S
  <2>1. Cardinality(U(i)) # 0
    BY <1>2, FS_EmptySet
  <2> HIDE DEF U
  <2> QED
    BY <1>1, <1>2, <2>1
<1>4. \A i, h \in S : i < h => Cardinality(U(i)) < Cardinality(U(h))
  <2> SUFFICES ASSUME NEW i \in S, NEW h \in S, i < h
               PROVE  Cardinality(U(i)) < Cardinality(U(h))
    OBVIOUS
  <2>1. i \in Int /\ h \in Int /\ \A j \in S : j \in Int
    OBVIOUS
  <2>2. \A j \in U(i) : j \in U(h)
    BY <2>1
  <2>3. h \in U(h) /\ h \notin U(i)
    BY <2>1
  <2> HIDE DEF U
  <2>4. U(i) \in SUBSET U(h) /\ U(i) # U(h)
    BY <2>2, <2>3
  <2> QED
    BY <1>2, <2>4, FS_Subset
<1> HIDE DEF U
<1>5. rank \in Injection(S, 1 .. Cardinality(S))
  <2>1. rank \in [S -> 1 .. Cardinality(S)]
    BY <1>3
  <2>2. \A i, h \in S : rank[i] = rank[h] => i = h
    BY <1>2, <1>4
  <2> QED
    BY <2>1, <2>2 DEF Injection, IsInjective
<1>6. IsFiniteSet(1 .. Cardinality(S)) /\ Cardinality(1 .. Cardinality(S)) = Cardinality(S)
  BY <1>1, FS_Interval
<1>7. rank \in Surjection(S, 1 .. Cardinality(S))
  BY <1>5, <1>6, FS_Injection
<1>8. \A k \in 1 .. Cardinality(S) : \E i \in S : Cardinality(U(i)) = k
  BY <1>7 DEF Surjection
<1>9. \A k \in 1 .. Cardinality(S) : Nth(S, k) \in S /\ Cardinality(U(Nth(S, k))) = k
  BY <1>8 DEF Nth, U
<1>10. ASSUME NEW i \in S, NEW h \in S,
              NEW a \in Int, Cardinality(U(i)) = a, NEW b \in Int, Cardinality(U(h)) = b
       PROVE  (a < b <=> i < h) /\ (a = b <=> i = h)
  <2>1. i \in Int /\ h \in Int
    OBVIOUS
  <2>2. (i < h => a < b) /\ (h < i => b < a) /\ (i = h => a = b)
    BY <1>4, <1>10
  <2> QED
    BY <2>1, <2>2
<1>11. ASSUME NEW k \in 1 .. Cardinality(S), NEW h \in 1 .. Cardinality(S), k < h
       PROVE  Nth(S, k) < Nth(S, h)
  <2>1. k \in Int /\ h \in Int
    BY <1>1
  <2>2. PICK x \in S : x = Nth(S, k) /\ Cardinality(U(x)) = k
    BY <1>9
  <2>3. PICK y \in S : y = Nth(S, h) /\ Cardinality(U(y)) = h
    BY <1>9
  <2>4. x < y
    BY <1>10, <1>11, <2>1, <2>2, <2>3
  <2> QED
    BY <2>2, <2>3, <2>4
<1>12. ASSUME NEW i \in S PROVE \E k \in 1 .. Cardinality(S) : Nth(S, k) = i
  <2>1. PICK k \in 1 .. Cardinality(S) : Cardinality(U(i)) = k
    BY <1>3
  <2>2. PICK x \in S : x = Nth(S, k) /\ Cardinality(U(x)) = k
    BY <1>9
  <2>3. k \in Int
    BY <1>1
  <2>4. x = i
    BY <1>10, <2>1, <2>2, <2>3
  <2> QED
    BY <2>2, <2>4
<1> QED
  BY <1>1, <1>9, <1>11, <1>12

\* A set of numbers up to n that is not empty has a least and a greatest element.
LEMMA LeastAndGreatest ==
  ASSUME NEW n0 \in Nat, NEW S \in SUBSET (1 .. n0), S # {}
  PROVE  /\ IsFiniteSet(S)
         /\ \E i \in S : \A j \in S : i <= j
         /\ \E i \in S : \A j \in S : j <= i
<1>1. IsFiniteSet(S) /\ S \in SUBSET Int
  <2>1. IsFiniteSet(1 .. n0)
    BY FS_Interval
  <2>2. IsFiniteSet(S)
    BY <2>1, FS_Subset
  <2> QED
    BY <2>2
<1> DEFINE c == Cardinality(S)
<1>2. /\ c \in Nat
      /\ \A k \in 1 .. c : Nth(S, k) \in S
      /\ \A k, h \in 1 .. c : k < h => Nth(S, k) < Nth(S, h)
      /\ \A i \in S : \E k \in 1 .. c : Nth(S, k) = i
  BY <1>1, NthCounts
<1> HIDE DEF c
<1>3. 1 \in 1 .. c /\ c \in 1 .. c
  <2>1. PICK i \in S : TRUE
    OBVIOUS
  <2>2. PICK k \in 1 .. c : Nth(S, k) = i
    BY <1>2, <2>1
  <2> QED
    BY <1>2, <2>2
<1>4. \A j \in S : Nth(S, 1) <= j /\ j <= Nth(S, c)
  <2> TAKE j \in S
  <2>1. PICK k \in 1 .. c : Nth(S, k) = j
    BY <1>2
  <2>2. Nth(S, 1) \in Int /\ Nth(S, c) \in Int /\ j \in Int
    BY <1>1, <1>2, <1>3
  <2>3. (k = 1 \/ 1 < k) /\ (k = c \/ k < c)
    BY <1>2
  <2> QED
    BY <1>2, <1>3, <2>1, <2>2, <2>3
<1> QED
  BY <1>1, <1>2, <1>3, <1>4

-----------------------------------------------------------------------------
LEMMA UsersAreAccounts == UserAccounts \subseteq Accounts
BY BlockAssumption DEF UserAccounts

\* A pool's accounts, as they are opened.
LEMMA VaultsAreBalances ==
  ASSUME NEW pool \in Pools
  PROVE  /\ DOMAIN Vaults(pool) = VaultsOf(pool)
         /\ DOMAIN Vaults(pool) \subseteq Accounts
         /\ \A a \in DOMAIN Vaults(pool) : Vaults(pool)[a] \in Balance
<1>1. BaseVault[pool] \in Accounts /\ QuoteVault[pool] \in Accounts
  BY BlockAssumption
<1>2. BaseMint[pool] \in Mints /\ QuoteMint[pool] \in Mints
  BY BlockAssumption
<1>3. (CHOOSE o \in Owners : TRUE) \in Owners /\ 1 \in Amounts
  BY BlockAssumption
<1>4. DOMAIN Vaults(pool) = VaultsOf(pool)
  BY DEF Vaults
<1>5. ASSUME NEW a \in DOMAIN Vaults(pool) PROVE Vaults(pool)[a] \in Balance
  <2> DEFINE mint == IF a = BaseVault[pool] THEN BaseMint[pool] ELSE QuoteMint[pool]
  <2>1. Vaults(pool)[a] = [mint |-> mint, owner |-> CHOOSE o \in Owners : TRUE, amount |-> 1]
    BY <1>4 DEF Vaults
  <2>2. mint \in Mints
    BY <1>2
  <2> QED
    BY <2>1, <2>2, <1>3 DEF Balance
<1> QED
  BY <1>1, <1>4, <1>5 DEF VaultsOf

LEMMA SwapAccounts ==
  ASSUME NEW pool \in Pools
  PROVE  {BaseOf[pool], QuoteOf[pool]} \cup DOMAIN Vaults(pool) \subseteq Accounts
<1>1. BaseOf[pool] \in Accounts /\ QuoteOf[pool] \in Accounts
  BY BlockAssumption
<1>2. DOMAIN Vaults(pool) \subseteq Accounts
  BY VaultsAreBalances
<1> QED
  BY <1>1, <1>2

LEMMA InitDecodeInv == DecodeInit => DecodeInv
<1> SUFFICES ASSUME DecodeInit PROVE DecodeInv
  OBVIOUS
<1> USE DEF DecodeInit
<1>1. IsLedger(ledger)
  <2>1. PICK users \in Ledgers :
          ledger = [a \in Accounts |->
            IF a \in UserAccounts THEN users[a]
            ELSE LET Of == {p \in OldPools : a \in DOMAIN Vaults(p)}
                 IN IF Of = {} THEN Closed ELSE Vaults(CHOOSE p \in Of : TRUE)[a]]
    OBVIOUS
  <2>2. ASSUME NEW a \in Accounts, a \in UserAccounts PROVE ledger[a] \in Balance \cup {Closed}
    <3>1. users \in [UserAccounts -> Balance \cup {Closed}]
      BY BlockAssumption
    <3> QED
      BY <2>1, <2>2, <3>1
  <2>3. ASSUME NEW a \in Accounts, a \notin UserAccounts PROVE ledger[a] \in Balance \cup {Closed}
    <3> DEFINE Of == {p \in OldPools : a \in DOMAIN Vaults(p)}
    <3>1. CASE Of = {}
      BY <2>1, <2>3, <3>1
    <3>2. CASE Of # {}
      <4>1. (CHOOSE p \in Of : TRUE) \in Of
        BY <3>2
      <4>2. ledger[a] = Vaults(CHOOSE p \in Of : TRUE)[a]
        BY <2>1, <2>3, <3>2
      <4> DEFINE p0 == CHOOSE p \in Of : TRUE
      <4>3. p0 \in Pools /\ a \in DOMAIN Vaults(p0)
        BY <4>1, BlockAssumption
      <4> QED
        BY <4>2, <4>3, VaultsAreBalances
    <3> QED
      BY <3>1, <3>2
  <2> QED
    BY <2>1, <2>2, <2>3 DEF IsLedger
<1>2. IsLedger(start) /\ CurInv
  BY <1>1 DEF CurInv, EmptyTx, Nothing
<1>3. BlkInv
  <2>1. blk \in Seq({}) /\ Len(blk) = 0
    BY EmptySeq
  <2> QED
    BY <2>1 DEF BlkInv
<1>4. FilledInv
  BY DEF FilledInv, IsMap, EmptyMap
<1> QED
  BY <1>1, <1>2, <1>3, <1>4 DEF DecodeInv, ChainInv
-----------------------------------------------------------------------------
(* The chain.                                                               *)

\* BlkInv speaks of blk and start only.
LEMMA SameBlk == ASSUME BlkInv, blk' = blk, start' = start PROVE BlkInv'
BY DEF BlkInv, LastSeenIs, Seen, Reported

\* A step of an instruction that changes no other accounts than those of T.
LEMMA TouchStep ==
  ASSUME ChainInv, blk' = blk, start' = start, IsLedger(ledger)',
         NEW T \in SUBSET Accounts, cur'.touched = cur.touched \cup T,
         \A a \in Accounts \ T : ledger'[a] = ledger[a],
         cur' = [insts |-> cur'.insts, events |-> cur'.events, opens |-> cur'.opens,
                 touched |-> cur'.touched],
         \A a \in DOMAIN cur'.opens : cur'.opens[a].mint \in Mints /\ cur'.opens[a].owner \in Owners
  PROVE  ChainInv'
<1>1. BlkInv'
  BY SameBlk DEF ChainInv
<1>2. IsLedger(start)'
  BY DEF ChainInv, IsLedger
<1>3. CurInv'
  BY DEF ChainInv, CurInv
<1> QED
  BY <1>1, <1>2, <1>3 DEF ChainInv

LEMMA CallStep == ASSUME ChainInv, NEW kind, Call(kind) PROVE ChainInv'
<1> USE DEF Call, Step
<1>1. /\ cur' = [insts |-> cur'.insts, events |-> cur'.events, opens |-> cur'.opens,
                 touched |-> cur'.touched]
      /\ cur'.touched = cur.touched \cup {} /\ cur'.opens = cur.opens
  BY DEF ChainInv, CurInv
<1>2. IsLedger(ledger)'
  BY DEF ChainInv, IsLedger
<1> QED
  BY <1>1, <1>2, TouchStep DEF ChainInv, CurInv

LEMMA SwapStep ==
  ASSUME ChainInv, NEW kind, NEW pool \in Pools, NEW base, NEW quote, Swap(kind, pool, base, quote)
  PROVE  ChainInv'
<1> DEFINE T == {BaseOf[pool], QuoteOf[pool]} \cup DOMAIN Vaults(pool)
<1>1. /\ cur' = [insts |-> cur'.insts, events |-> cur'.events, opens |-> cur'.opens,
                 touched |-> cur'.touched]
      /\ cur'.touched = cur.touched \cup T /\ cur'.opens = cur.opens
  BY DEF ChainInv, CurInv, Swap
<1>2. T \in SUBSET Accounts
  BY SwapAccounts
<1>3. ledger' = ledger /\ blk' = blk /\ start' = start
  BY DEF Swap, Step
<1>4. IsLedger(ledger)'
  BY <1>3 DEF ChainInv, IsLedger
<1> HIDE DEF T
<1> QED
  BY <1>1, <1>2, <1>3, <1>4, TouchStep DEF ChainInv, CurInv

LEMMA CreatePoolStep ==
  ASSUME ChainInv, NEW pool \in Pools, CreatePool(pool) PROVE ChainInv'
<1> DEFINE T == {BaseOf[pool], QuoteOf[pool]} \cup DOMAIN Vaults(pool)
           V == Vaults(pool)
<1>1. /\ cur' = [insts |-> cur'.insts, events |-> cur'.events, opens |-> cur'.opens,
                 touched |-> cur'.touched]
      /\ cur'.touched = cur.touched \cup T /\ cur'.opens = Over(V, cur.opens)
  BY DEF ChainInv, CurInv, CreatePool
<1>2. T \in SUBSET Accounts
  BY SwapAccounts
<1>3. ledger' = Over(V, ledger) /\ blk' = blk /\ start' = start
  BY DEF CreatePool, Step
<1>4. DOMAIN V \subseteq Accounts /\ \A a \in DOMAIN V : V[a] \in Balance
  BY VaultsAreBalances
<1>5. DOMAIN V \subseteq T
  OBVIOUS
<1> HIDE DEF T, V
<1>6. IsLedger(ledger)' /\ \A a \in Accounts \ T : ledger'[a] = ledger[a]
  BY <1>3, <1>4, <1>5 DEF ChainInv, IsLedger, Over
<1>7. \A a \in DOMAIN cur'.opens : cur'.opens[a].mint \in Mints /\ cur'.opens[a].owner \in Owners
  BY <1>1, <1>4 DEF ChainInv, CurInv, Over, Balance
<1> QED
  BY <1>1, <1>2, <1>3, <1>6, <1>7, TouchStep

LEMMA OpenStep ==
  ASSUME ChainInv, NEW a \in UserAccounts, NEW mint \in Mints, NEW owner \in Owners,
         Open(a, mint, owner)
  PROVE  ChainInv'
<1> DEFINE opened == [mint |-> mint, owner |-> owner]
<1>1. /\ cur' = [insts |-> cur'.insts, events |-> cur'.events, opens |-> cur'.opens,
                 touched |-> cur'.touched]
      /\ cur'.touched = cur.touched \cup {a} /\ cur'.opens = Over([c \in {a} |-> opened], cur.opens)
  BY DEF ChainInv, CurInv, Open
<1>2. {a} \in SUBSET Accounts
  BY UsersAreAccounts
<1>3. ledger' = [ledger EXCEPT ![a] = [mint |-> mint, owner |-> owner, amount |-> 0]]
  BY DEF Open
<1>4. blk' = blk /\ start' = start
  BY DEF Open, Step
<1>5. [mint |-> mint, owner |-> owner, amount |-> 0] \in Balance
  BY BlockAssumption DEF Balance
<1>6. IsLedger(ledger)' /\ \A b \in Accounts \ {a} : ledger'[b] = ledger[b]
  BY <1>2, <1>3, <1>5 DEF ChainInv, IsLedger
<1>7. \A b \in DOMAIN cur'.opens : cur'.opens[b].mint \in Mints /\ cur'.opens[b].owner \in Owners
  BY <1>1 DEF ChainInv, CurInv, Over
<1> QED
  BY <1>1, <1>2, <1>4, <1>6, <1>7, TouchStep

\* Close, Move and SetOwner.
LEMMA AccountStep ==
  ASSUME ChainInv, NEW a \in UserAccounts, NEW b \in Balance \cup {Closed}, Step,
         ledger' = [ledger EXCEPT ![a] = b],
         cur' = [cur EXCEPT !.touched = @ \cup {a}]
  PROVE  ChainInv'
<1>1. /\ cur' = [insts |-> cur'.insts, events |-> cur'.events, opens |-> cur'.opens,
                 touched |-> cur'.touched]
      /\ cur'.touched = cur.touched \cup {a} /\ cur'.opens = cur.opens
  BY DEF ChainInv, CurInv
<1>2. {a} \in SUBSET Accounts
  BY UsersAreAccounts
<1>3. blk' = blk /\ start' = start
  BY DEF Step
<1>4. IsLedger(ledger)' /\ \A c \in Accounts \ {a} : ledger'[c] = ledger[c]
  BY <1>2 DEF ChainInv, IsLedger
<1> QED
  BY <1>1, <1>2, <1>3, <1>4, TouchStep DEF ChainInv, CurInv

\* The transaction that ends is reported with the balances that the ledger has,
\* and whatever it does not report has not changed.
LEMMA EndTxStep ==
  ASSUME ChainInv, NEW failed \in BOOLEAN, NEW kept, EndTx(failed, kept)
  PROVE  ChainInv'
<1> DEFINE after == IF failed THEN start ELSE ledger
           tx == [failed |-> failed, insts |-> cur.insts,
                  events |-> SubSeq(cur.events, 1, kept), wrote |-> cur.events,
                  opens |-> cur.opens,
                  pre  |-> Held(start, cur.touched),
                  post |-> Held(after, cur.touched)]
<1>1. blk' = Append(blk, tx) /\ ledger' = after /\ start' = after /\ cur' = EmptyTx
  BY DEF EndTx
<1>2. IsLedger(after) /\ IsLedger(start) /\ cur.touched \subseteq Accounts
  BY DEF ChainInv, CurInv
<1>3. /\ tx.pre = Held(start, cur.touched) /\ tx.post = Held(after, cur.touched)
      /\ tx.opens = cur.opens
  OBVIOUS
<1>4. \A a \in Accounts \ cur.touched : after[a] = start[a]
  BY DEF ChainInv, CurInv
<1> HIDE DEF after, tx
<1>5. IsTx(tx)
  <2>1. ASSUME NEW l, IsLedger(l)
        PROVE  Held(l, cur.touched) \in [DOMAIN Held(l, cur.touched) -> Balance]
    BY <1>2, <2>1 DEF Held, IsLedger
  <2> QED
    BY <1>2, <1>3, <2>1 DEF IsTx, ChainInv, CurInv
<1>6. PICK k1 \in Nat : k1 = Len(blk) + 1
  BY DEF ChainInv, BlkInv
<1>7. /\ Len(blk) \in Nat
      /\ Len(blk') = k1 /\ blk'[k1] = tx /\ \A i \in 1 .. Len(blk) : blk'[i] = blk[i]
      /\ \E S : blk' \in Seq(S)
  <2>1. PICK S : blk \in Seq(S)
    BY DEF ChainInv, BlkInv
  <2>2. blk \in Seq(S \cup {tx})
    BY <2>1, SeqMonotonic
  <2>3. Len(blk) \in Nat
    BY <2>1
  <2> QED
    BY <1>1, <1>6, <2>2, <2>3, AppendProperties
<1>8. \A i \in 1 .. Len(blk)' : IsTx(blk'[i])
  <2>1. \A i \in 1 .. Len(blk)' : i \in 1 .. Len(blk) \/ i = k1
    BY <1>6, <1>7
  <2>2. \A i \in 1 .. Len(blk) : IsTx(blk[i])
    BY DEF ChainInv, BlkInv
  <2> QED
    BY <1>5, <1>7, <2>1, <2>2
<1>9. \A a : \A i \in 1 .. Len(blk) : Seen(a, i)' <=> Seen(a, i)
  BY <1>7 DEF Seen
<1>10. \A a \in Accounts : Seen(a, k1)' <=> a \in cur.touched
                                           /\ (start[a] # Closed \/ after[a] # Closed)
  <2>1. \A a \in Accounts : a \in DOMAIN tx.pre \cup DOMAIN tx.post <=>
          a \in cur.touched /\ (start[a] # Closed \/ after[a] # Closed)
    BY <1>3 DEF Held
  <2>2. \A a : Seen(a, k1)' <=> a \in DOMAIN tx.pre \cup DOMAIN tx.post
    BY <1>7 DEF Seen
  <2> QED
    BY <2>1, <2>2
<1>11. ASSUME NEW a \in Accounts, NEW k \in 1 .. Len(blk)', LastSeenIs(a, k, Len(blk))'
       PROVE  Reported(a, k)'
  <2>1. k \in 1 .. Len(blk) \/ k = k1
    BY <1>6, <1>7
  <2>2. CASE k = k1
    <3>1. Seen(a, k1)'
      BY <1>11, <2>2 DEF LastSeenIs
    <3>2. a \in cur.touched
      BY <1>10, <3>1
    <3> QED
      BY <1>1, <1>3, <1>7, <2>2, <3>2 DEF Reported, Held
  <2>3. CASE k \in 1 .. Len(blk)
    <3>1. LastSeenIs(a, k, Len(blk))
      BY <1>6, <1>7, <1>9, <1>11, <2>3 DEF LastSeenIs
    <3>2. ~Seen(a, k1)'
      BY <1>6, <1>7, <1>11, <2>3 DEF LastSeenIs
    <3>3. after[a] = start[a]
      BY <1>4, <1>10, <3>2
    <3>4. Reported(a, k)
      BY <2>3, <3>1 DEF ChainInv, BlkInv
    <3> QED
      BY <1>1, <1>7, <2>3, <3>3, <3>4 DEF Reported
  <2> QED
    BY <2>1, <2>2, <2>3
<1>12. BlkInv'
  BY <1>7, <1>8, <1>11 DEF BlkInv
<1>13. CurInv'
  BY <1>1 DEF CurInv, EmptyTx, Nothing
<1>14. IsLedger(ledger)' /\ IsLedger(start)'
  BY <1>1, <1>2 DEF IsLedger
<1> QED
  BY <1>12, <1>13, <1>14 DEF ChainInv


\* Whatever ProcessBlock does leaves the chain alone.
LEMMA SameChain == ASSUME ChainInv, UNCHANGED chainVars PROVE ChainInv'
<1>1. BlkInv'
  BY SameBlk DEF ChainInv, chainVars
<1>2. CurInv' /\ IsLedger(ledger)' /\ IsLedger(start)'
  BY DEF ChainInv, chainVars, CurInv, IsLedger
<1> QED
  BY <1>1, <1>2 DEF ChainInv

LEMMA ChainStep ==
  ASSUME ChainInv, [DecodeNext]_decodeVars PROVE ChainInv'
<1>1. ASSUME NEW kind, Call(kind) PROVE ChainInv'
  BY <1>1, CallStep
<1>2. ASSUME NEW kind, NEW pool \in Pools, NEW base, NEW quote, Swap(kind, pool, base, quote)
      PROVE  ChainInv'
  BY <1>2, SwapStep
<1>3. ASSUME NEW pool \in Pools, CreatePool(pool) PROVE ChainInv'
  BY <1>3, CreatePoolStep
<1>4. ASSUME NEW a \in UserAccounts, NEW mint \in Mints, NEW owner \in Owners, Open(a, mint, owner)
      PROVE  ChainInv'
  BY <1>4, OpenStep
<1>5. ASSUME NEW a \in UserAccounts, Close(a) PROVE ChainInv'
  <2>1. Step /\ ledger' = [ledger EXCEPT ![a] = Closed]
             /\ cur' = [cur EXCEPT !.touched = @ \cup {a}]
    BY <1>5 DEF Close
  <2> QED
    BY <2>1, AccountStep
<1>6. ASSUME NEW a \in UserAccounts, NEW x \in Funds, Move(a, x) PROVE ChainInv'
  <2> DEFINE b == [ledger[a] EXCEPT !.amount = x]
  <2>1. Step /\ ledger' = [ledger EXCEPT ![a] = b]
             /\ cur' = [cur EXCEPT !.touched = @ \cup {a}]
    BY <1>6 DEF Move
  <2>2. b \in Balance
    <3>1. ledger[a] \in Balance
      BY <1>6, UsersAreAccounts DEF Move, ChainInv, IsLedger
    <3>2. x \in Amounts
      BY BlockAssumption
    <3> QED
      BY <3>1, <3>2 DEF Balance
  <2> HIDE DEF b
  <2> QED
    BY <2>1, <2>2, AccountStep
<1>7. ASSUME NEW a \in UserAccounts, NEW owner \in Owners, SetOwner(a, owner) PROVE ChainInv'
  <2> DEFINE b == [ledger[a] EXCEPT !.owner = owner]
  <2>1. Step /\ ledger' = [ledger EXCEPT ![a] = b]
             /\ cur' = [cur EXCEPT !.touched = @ \cup {a}]
    BY <1>7 DEF SetOwner
  <2>2. b \in Balance
    <3>1. ledger[a] \in Balance
      BY <1>7, UsersAreAccounts DEF SetOwner, ChainInv, IsLedger
    <3> QED
      BY <3>1 DEF Balance
  <2> HIDE DEF b
  <2> QED
    BY <2>1, <2>2, AccountStep
<1>8. ASSUME NEW failed \in BOOLEAN, NEW kept, EndTx(failed, kept) PROVE ChainInv'
  BY <1>8, EndTxStep
<1>9. CASE BlockFetched \/ FillTx \/ DecodeNextTx \/ FindPool \/ InsertPool \/ PoolQueryFails
  BY <1>9, SameChain DEF BlockFetched, FillTx, DecodeNextTx, FindPool, InsertPool, PoolQueryFails
<1>10. ASSUME NEW tokens, NEW stored, SaveTokenAccounts(tokens, stored) PROVE ChainInv'
  BY <1>10, SameChain DEF SaveTokenAccounts
<1>11. ASSUME NEW pool, OtherWorkerInserts(pool) PROVE ChainInv'
  BY <1>11, SameChain DEF OtherWorkerInserts
<1>12. CASE UNCHANGED decodeVars
  BY <1>12, SameChain DEF decodeVars, chainVars
<1> QED
  BY <1>1, <1>2, <1>3, <1>4, <1>5, <1>6, <1>7, <1>8, <1>9, <1>10, <1>11, <1>12 DEF DecodeNext

-----------------------------------------------------------------------------
(* ProcessBlock.                                                            *)

\* FilledTo speaks of blk and map only.
LEMMA SameFilled ==
  ASSUME NEW m, FilledTo(m), blk' = blk, map' = map PROVE FilledTo(m)'
BY DEF FilledTo, LastSeenIs, Seen, Opens

\* One more transaction is gone over.
LEMMA FilledStep ==
  ASSUME ChainInv, IsMap(map), NEW m \in 1 .. Len(blk), FilledTo(m - 1),
         blk' = blk, map' = FillTokenAccountMap(map, blk[m])
  PROVE  IsMap(map)' /\ FilledTo(m)'
<1> DEFINE tx == blk[m]
<1>1. IsTx(tx) /\ Len(blk) \in Nat
  BY DEF ChainInv, BlkInv
<1>2. /\ IsMap(map')
      /\ \A a \in DOMAIN tx.pre \cup DOMAIN tx.post : NotOpened(tx, a) =>
           /\ a \in DOMAIN map'
           /\ map'[a].closed <=> a \notin DOMAIN tx.post
           /\ a \in DOMAIN tx.post => map'[a].value = ParseInt(tx.post[a].amount)
      /\ \A a \in DOMAIN map \ (DOMAIN tx.pre \cup DOMAIN tx.post) : NotOpened(tx, a) =>
           /\ a \in DOMAIN map'
           /\ map'[a].closed = map[a].closed /\ map'[a].value = map[a].value
  BY <1>1, FilledMapTheorem
<1>3. \A a : /\ Opens(a, m)' <=> ~NotOpened(tx, a)
             /\ Seen(a, m)' <=> a \in DOMAIN tx.pre \cup DOMAIN tx.post
  BY DEF Opens, NotOpened, Seen
<1>4. ASSUME NEW a \in Accounts, NEW k \in 1 .. m, LastSeenIs(a, k, m)',
             \A i \in 1 .. m : i >= k => ~Opens(a, i)'
      PROVE  /\ a \in DOMAIN map'
             /\ map'[a].closed <=> a \notin DOMAIN blk[k].post
             /\ a \in DOMAIN blk[k].post => map'[a].value = ParseInt(blk[k].post[a].amount)
  <2>1. NotOpened(tx, a)
    BY <1>3, <1>4
  <2>2. CASE k = m
    BY <1>2, <1>3, <1>4, <2>1, <2>2 DEF LastSeenIs
  <2>3. CASE k # m
    <3>1. k \in 1 .. m - 1 /\ LastSeenIs(a, k, m - 1) /\ \A i \in 1 .. m - 1 : i >= k => ~Opens(a, i)
      BY <1>4, <2>3 DEF LastSeenIs, Seen, Opens
    <3>2. a \notin DOMAIN tx.pre \cup DOMAIN tx.post
      BY <1>3, <1>4, <2>3 DEF LastSeenIs
    <3>3. /\ a \in DOMAIN map
          /\ map[a].closed <=> a \notin DOMAIN blk[k].post
          /\ a \in DOMAIN blk[k].post => map[a].value = ParseInt(blk[k].post[a].amount)
      BY <3>1 DEF FilledTo
    <3> QED
      BY <1>2, <2>1, <3>2, <3>3
  <2> QED
    BY <2>2, <2>3
<1> QED
  BY <1>2, <1>4 DEF FilledTo

LEMMA FillStep ==
  ASSUME DecodeInv, [DecodeNext]_decodeVars PROVE FilledInv'
<1> USE DEF DecodeInv
<1>1. CASE phase = "chain" /\ phase' = "chain" /\ UNCHANGED <<n, map>>
  BY <1>1 DEF FilledInv
<1>2. CASE BlockFetched
  <2>1. FilledTo(0)' /\ cur = EmptyTx /\ n = 1 /\ blk # <<>> /\ phase' = "fill"
        /\ UNCHANGED <<chainVars, n, map>>
    BY <1>2 DEF BlockFetched, FilledInv, FilledTo
  <2>2. Len(blk) \in Nat \ {0}
    <3>1. PICK S : blk \in Seq(S)
      BY DEF ChainInv, BlkInv
    <3> QED
      BY <2>1, <3>1, EmptySeq
  <2> QED
    BY <2>1, <2>2 DEF FilledInv, chainVars
<1>3. CASE FillTx
  <2>1. n \in 1 .. Len(blk) /\ FilledTo(n - 1) /\ IsMap(map) /\ cur = EmptyTx
    BY <1>3 DEF FillTx, FilledInv
  <2>2. blk' = blk /\ cur' = cur /\ map' = FillTokenAccountMap(map, blk[n])
    BY <1>3 DEF FillTx, chainVars
  <2>3. PICK m \in 1 .. Len(blk) : m = n
    BY <2>1
  <2>4. IsMap(map)' /\ FilledTo(m)'
    BY <2>1, <2>2, <2>3, FilledStep
  <2>5. Len(blk) \in Nat
    BY DEF ChainInv, BlkInv
  <2>6. CASE n < Len(blk)
    <3>1. n' = n + 1 /\ phase' = "fill"
      BY <1>3, <2>6 DEF FillTx
    <3>2. FilledTo(n - 1)'
      BY <2>1, <2>3, <2>4, <2>5, <3>1 DEF FilledTo
    <3> QED
      BY <2>1, <2>2, <2>4, <2>5, <2>6, <3>1, <3>2 DEF FilledInv
  <2>7. CASE ~(n < Len(blk))
    <3>1. phase' = "decode"
      BY <1>3, <2>7 DEF FillTx
    <3>2. m = Len(blk)'
      BY <2>1, <2>2, <2>3, <2>5, <2>7
    <3>3. FilledTo(Len(blk))'
      BY <2>4, <3>2 DEF FilledTo
    <3> QED
      BY <2>1, <2>2, <2>4, <3>1, <3>3 DEF FilledInv
  <2> QED
    BY <2>6, <2>7
<1>4. CASE /\ phase \in {"decode", "accounts", "saved"} /\ phase' \in {"decode", "accounts", "saved"}
           /\ UNCHANGED <<chainVars, map>>
  <2>1. FilledTo(Len(blk))'
    BY <1>4 DEF FilledInv, FilledTo, LastSeenIs, Seen, Opens, chainVars
  <2> QED
    BY <1>4, <2>1 DEF FilledInv, chainVars
<1>5. ASSUME DecodeNext, ~BlockFetched, ~FillTx
      PROVE  \/ phase = "chain" /\ phase' = "chain" /\ UNCHANGED <<n, map>>
             \/ /\ phase \in {"decode", "accounts", "saved"}
                /\ phase' \in {"decode", "accounts", "saved"}
                /\ UNCHANGED <<chainVars, map>>
  BY <1>5 DEF DecodeNext, Call, Swap, CreatePool, Open, Close, Move, SetOwner, EndTx, Step,
       DecodeNextTx, Saving, SaveTokenAccounts, FindPool, InsertPool, PoolQueryFails,
       OtherWorkerInserts, saveVars, chainVars
<1>6. CASE UNCHANGED decodeVars
  BY <1>6 DEF decodeVars, FilledInv, FilledTo, LastSeenIs, Seen, Opens
<1> QED
  BY <1>1, <1>2, <1>3, <1>4, <1>5, <1>6

-----------------------------------------------------------------------------
LEMMA BalancesFollow == DecodeInv => BalancesAreTheChains
<1> SUFFICES ASSUME DecodeInv, phase \in {"decode", "accounts", "saved"},
                    NEW a \in Accounts, NEW k \in DOMAIN blk,
                    Seen(a, k), \A i \in DOMAIN blk : i > k => ~Seen(a, i),
                    \A i \in DOMAIN blk : i >= k => ~Opens(a, i)
             PROVE  /\ a \in DOMAIN map
                    /\ map[a].closed <=> ledger[a] = Closed
                    /\ ledger[a] # Closed => map[a].value = ParseInt(ledger[a].amount)
  BY DEF BalancesAreTheChains
<1>1. DOMAIN blk = 1 .. Len(blk)
  BY DEF DecodeInv, ChainInv, BlkInv
<1>2. LastSeenIs(a, k, Len(blk))
  BY <1>1 DEF LastSeenIs
<1>3. /\ a \in DOMAIN map
      /\ map[a].closed <=> a \notin DOMAIN blk[k].post
      /\ a \in DOMAIN blk[k].post => map[a].value = ParseInt(blk[k].post[a].amount)
  BY <1>1, <1>2 DEF DecodeInv, FilledInv, FilledTo
<1>4. Reported(a, k)
  BY <1>1, <1>2 DEF DecodeInv, ChainInv, BlkInv
<1>5. ledger[a] = start[a]
  BY DEF DecodeInv, ChainInv, CurInv, FilledInv, EmptyTx
<1> QED
  BY <1>3, <1>4, <1>5 DEF Reported

\* When the transactions of a block have been gone over, however many there are
\* and whatever they did, the map has every account reported as the chain left
\* it, open or closed and with its balance, unless its last transaction or a
\* later one has an instruction that opens it (FillTokenAccountMap).
THEOREM BalancesTheorem == DecodeSpec => []BalancesAreTheChains
<1>1. DecodeInit => DecodeInv
  BY InitDecodeInv
<1>2. DecodeInv /\ [DecodeNext]_decodeVars => DecodeInv'
  BY ChainStep, FillStep DEF DecodeInv
<1> QED
  BY <1>1, <1>2, BalancesFollow, PTL DEF DecodeSpec

-----------------------------------------------------------------------------
(* Tokens, owners and decimals.                                             *)

\* An account that was closed before the transaction and is open after it was
\* opened in it, with the token that it has.
OpensInv ==
  /\ \A a \in Accounts : start[a] = Closed /\ ledger[a] # Closed =>
       a \in DOMAIN cur.opens /\ cur.opens[a].mint = ledger[a].mint
  /\ \A i \in 1 .. Len(blk), a \in Accounts :
       a \in DOMAIN blk[i].post /\ a \notin DOMAIN blk[i].pre =>
         a \in DOMAIN blk[i].opens /\ blk[i].opens[a].mint = blk[i].post[a].mint

\* The map when the first m transactions have been gone over: where the token and
\* owner of an entry come from, when its decimals are known, and that the entry of
\* an account that was not renewed is what the last transaction said of it.
Traced(m) == \A a \in DOMAIN map : \E b \in Told(a, m) : Same(map[a], b)

Steady(a, m) == \A b, c \in Told(a, m) : b.mint = c.mint

Decided(m) == \A a \in DOMAIN map :
  Steady(a, m) /\ (\A i \in 1 .. m : ~Undone(a, i)) => map[a].decimals = DecimalsOf[map[a].mint]

FollowedTo(m) ==
  \A a \in Accounts, k \in 1 .. m :
    LastSeenIs(a, k, m) /\ ~RenewedIn(a, k, m) =>
      /\ a \in DOMAIN map
      /\ map[a].closed <=> a \notin DOMAIN blk[k].post
      /\ a \in DOMAIN blk[k].post =>
           /\ Same(map[a], blk[k].post[a])
           /\ map[a].value = ParseInt(blk[k].post[a].amount)
           /\ map[a].decimals = DecimalsOf[map[a].mint]

EntriesTo(m) == /\ KnownDecimals(map) /\ SharedDecimals(map)
                /\ Traced(m) /\ Decided(m) /\ FollowedTo(m)

EntriesInv ==
  /\ phase = "chain" => map = EmptyMap
  /\ phase = "fill" => EntriesTo(n - 1)
  /\ phase \in {"decode", "accounts", "saved"} => EntriesTo(Len(blk))

LEMMA InitOpens == DecodeInit => OpensInv /\ EntriesInv
<1> SUFFICES ASSUME DecodeInit PROVE OpensInv /\ EntriesInv
  OBVIOUS
<1>1. start = ledger /\ blk = <<>> /\ phase = "chain" /\ map = EmptyMap
  BY DEF DecodeInit
<1>2. Len(blk) = 0
  BY <1>1
<1> QED
  BY <1>1, <1>2 DEF OpensInv, EntriesInv

\* A step of an instruction: an account that is open was so before with the same
\* token, or the step opens it.
LEMMA OpenedStep ==
  ASSUME OpensInv, blk' = blk, start' = start,
         \A a \in Accounts : start[a] = Closed /\ ledger'[a] # Closed =>
           \/ /\ ledger[a] # Closed /\ ledger'[a].mint = ledger[a].mint
              /\ a \in DOMAIN cur.opens => /\ a \in DOMAIN cur'.opens
                                           /\ cur'.opens[a].mint = cur.opens[a].mint
           \/ a \in DOMAIN cur'.opens /\ cur'.opens[a].mint = ledger'[a].mint
  PROVE  OpensInv'
BY DEF OpensInv

LEMMA OpensEndTx ==
  ASSUME ChainInv, OpensInv, NEW failed \in BOOLEAN, NEW kept, EndTx(failed, kept)
  PROVE  OpensInv'
<1> DEFINE after == IF failed THEN start ELSE ledger
           tx == [failed |-> failed, insts |-> cur.insts,
                  events |-> SubSeq(cur.events, 1, kept), wrote |-> cur.events,
                  opens |-> cur.opens,
                  pre  |-> Held(start, cur.touched),
                  post |-> Held(after, cur.touched)]
<1>1. blk' = Append(blk, tx) /\ ledger' = after /\ start' = after
  BY DEF EndTx
<1>2. /\ tx.pre = Held(start, cur.touched) /\ tx.post = Held(after, cur.touched)
      /\ tx.opens = cur.opens
  OBVIOUS
<1>3. \A a \in Accounts : start[a] = Closed /\ after[a] # Closed =>
        a \in DOMAIN cur.opens /\ cur.opens[a].mint = after[a].mint
  BY DEF OpensInv
<1> HIDE DEF after, tx
<1>4. ASSUME NEW a \in Accounts, a \in DOMAIN tx.post, a \notin DOMAIN tx.pre
      PROVE  a \in DOMAIN tx.opens /\ tx.opens[a].mint = tx.post[a].mint
  BY <1>2, <1>3, <1>4 DEF Held
<1>5. PICK k1 \in Nat : k1 = Len(blk) + 1
  BY DEF ChainInv, BlkInv
<1>6. Len(blk') = k1 /\ blk'[k1] = tx /\ \A i \in 1 .. Len(blk) : blk'[i] = blk[i]
  <2>1. PICK S : blk \in Seq(S)
    BY DEF ChainInv, BlkInv
  <2>2. blk \in Seq(S \cup {tx})
    BY <2>1, SeqMonotonic
  <2> QED
    BY <1>1, <1>5, <2>2, AppendProperties
<1>7. \A i \in 1 .. Len(blk') : i \in 1 .. Len(blk) \/ i = k1
  <2>1. Len(blk) \in Nat
    BY DEF ChainInv, BlkInv
  <2> QED
    BY <1>5, <1>6, <2>1
<1>8. \A i \in 1 .. Len(blk'), a \in Accounts :
        a \in DOMAIN blk'[i].post /\ a \notin DOMAIN blk'[i].pre =>
          a \in DOMAIN blk'[i].opens /\ blk'[i].opens[a].mint = blk'[i].post[a].mint
  BY <1>4, <1>6, <1>7 DEF OpensInv
<1> QED
  BY <1>1, <1>8 DEF OpensInv

LEMMA OpensStep ==
  ASSUME ChainInv, OpensInv, [DecodeNext]_decodeVars PROVE OpensInv'
<1>1. ASSUME NEW kind, Call(kind) PROVE OpensInv'
  <2>1. cur'.opens = cur.opens /\ ledger' = ledger /\ blk' = blk /\ start' = start
    BY <1>1 DEF Call, Step, ChainInv, CurInv
  <2> QED
    BY <2>1, OpenedStep
<1>2. ASSUME NEW kind, NEW pool \in Pools, NEW base, NEW quote, Swap(kind, pool, base, quote)
      PROVE  OpensInv'
  <2>1. cur'.opens = cur.opens /\ ledger' = ledger /\ blk' = blk /\ start' = start
    BY <1>2 DEF Swap, Step, ChainInv, CurInv
  <2> QED
    BY <2>1, OpenedStep
<1>3. ASSUME NEW pool \in Pools, CreatePool(pool) PROVE OpensInv'
  <2> DEFINE V == Vaults(pool)
  <2>1. /\ cur'.opens = Over(V, cur.opens) /\ ledger' = Over(V, ledger)
        /\ blk' = blk /\ start' = start
    BY <1>3 DEF CreatePool, Step, ChainInv, CurInv
  <2> HIDE DEF V
  <2>2. DOMAIN ledger = Accounts
    BY DEF ChainInv, IsLedger
  <2> QED
    BY <2>1, <2>2, OpenedStep DEF Over
<1>4. ASSUME NEW a \in UserAccounts, NEW mint \in Mints, NEW owner \in Owners, Open(a, mint, owner)
      PROVE  OpensInv'
  <2> DEFINE opened == [mint |-> mint, owner |-> owner]
  <2>1. /\ cur'.opens = Over([b \in {a} |-> opened], cur.opens)
        /\ ledger' = [ledger EXCEPT ![a] = [mint |-> mint, owner |-> owner, amount |-> 0]]
        /\ blk' = blk /\ start' = start
    BY <1>4 DEF Open, Step, ChainInv, CurInv
  <2>2. DOMAIN ledger = Accounts /\ a \in Accounts
    BY UsersAreAccounts DEF ChainInv, IsLedger
  <2>3. /\ a \in DOMAIN cur'.opens /\ cur'.opens[a].mint = ledger'[a].mint
        /\ \A b \in Accounts \ {a} : ledger'[b] = ledger[b]
        /\ \A b \in DOMAIN cur.opens : b \in DOMAIN cur'.opens
        /\ \A b \in DOMAIN cur.opens : b # a => cur'.opens[b] = cur.opens[b]
    BY <2>1, <2>2 DEF Over
  <2> QED
    BY <2>1, <2>3, OpenedStep
<1>5. ASSUME NEW a \in UserAccounts, Close(a) \/ (\E x \in Funds : Move(a, x))
                                              \/ (\E owner \in Owners : SetOwner(a, owner))
      PROVE  OpensInv'
  <2>1. cur'.opens = cur.opens /\ blk' = blk /\ start' = start
    BY <1>5 DEF Close, Move, SetOwner, Step, ChainInv, CurInv
  <2>2. DOMAIN ledger = Accounts /\ a \in Accounts
    BY UsersAreAccounts DEF ChainInv, IsLedger
  <2>3. ledger[a] # Closed /\ \A b \in Accounts \ {a} : ledger'[b] = ledger[b]
    BY <1>5, <2>2 DEF Close, Move, SetOwner
  <2>4. ledger'[a] = Closed \/ ledger'[a].mint = ledger[a].mint
    <3>1. CASE Close(a)
      BY <2>2, <3>1 DEF Close
    <3>2. ASSUME NEW x, Move(a, x) PROVE ledger'[a].mint = ledger[a].mint
      <4>1. ledger'[a] = [ledger[a] EXCEPT !.amount = x] /\ ledger[a] \in Balance
        BY <2>2, <2>3, <3>2 DEF Move, ChainInv, IsLedger
      <4> QED
        BY <4>1 DEF Balance
    <3>3. ASSUME NEW owner, SetOwner(a, owner) PROVE ledger'[a].mint = ledger[a].mint
      <4>1. ledger'[a] = [ledger[a] EXCEPT !.owner = owner] /\ ledger[a] \in Balance
        BY <2>2, <2>3, <3>3 DEF SetOwner, ChainInv, IsLedger
      <4> QED
        BY <4>1 DEF Balance
    <3> QED
      BY <1>5, <3>1, <3>2, <3>3
  <2> QED
    BY <2>1, <2>3, <2>4, OpenedStep
<1>6. ASSUME NEW failed \in BOOLEAN, NEW kept, EndTx(failed, kept) PROVE OpensInv'
  BY <1>6, OpensEndTx
<1>7. CASE UNCHANGED chainVars
  BY <1>7 DEF chainVars, OpensInv
<1>8. CASE BlockFetched \/ FillTx \/ DecodeNextTx \/ FindPool \/ InsertPool \/ PoolQueryFails
  BY <1>7, <1>8 DEF BlockFetched, FillTx, DecodeNextTx, FindPool, InsertPool, PoolQueryFails
<1>9. ASSUME NEW tokens, NEW stored, SaveTokenAccounts(tokens, stored) PROVE OpensInv'
  BY <1>7, <1>9 DEF SaveTokenAccounts
<1>10. ASSUME NEW pool, OtherWorkerInserts(pool) PROVE OpensInv'
  BY <1>7, <1>10 DEF OtherWorkerInserts
<1>11. CASE UNCHANGED decodeVars
  BY <1>7, <1>11 DEF decodeVars, chainVars
<1> QED
  BY <1>1, <1>2, <1>3, <1>4, <1>5, <1>6, <1>8, <1>9, <1>10, <1>11 DEF DecodeNext


\* A transaction tells of the accounts of its balances and of those it opens.
LEMMA ToldBy ==
  ASSUME NEW m \in Nat \ {0}, NEW a
  PROVE  /\ Told(a, m - 1) \subseteq Told(a, m)
         /\ a \in DOMAIN blk[m].pre => blk[m].pre[a] \in Told(a, m)
         /\ a \in DOMAIN blk[m].post => blk[m].post[a] \in Told(a, m)
         /\ Opens(a, m) => blk[m].opens[a] \in Told(a, m)
<1>1. m \in 1 .. m /\ 1 .. m - 1 \subseteq 1 .. m
  OBVIOUS
<1> QED
  BY <1>1 DEF Told

\* One more transaction is gone over.
LEMMA EntriesStep ==
  ASSUME ChainInv, OpensInv, IsMap(map), NEW m \in 1 .. Len(blk), EntriesTo(m - 1),
         blk' = blk, map' = FillTokenAccountMap(map, blk[m])
  PROVE  EntriesTo(m)'
<1> DEFINE tx == blk[m]
           o(a) == Origin(map, tx, a)
           All == DOMAIN map \cup DOMAIN tx.pre \cup DOMAIN tx.post
<1>1. IsTx(tx) /\ Len(blk) \in Nat
  BY DEF ChainInv, BlkInv
<1>2. /\ KnownDecimals(map)' /\ SharedDecimals(map)'
      /\ \A a \in All : a \in DOMAIN map' /\ (OpenedAs(tx, a, o(a).mint) =>
           /\ map'[a].mint = o(a).mint /\ map'[a].owner = o(a).owner
           /\ a \in DOMAIN tx.post => ~map'[a].closed /\ map'[a].value = ParseInt(tx.post[a].amount)
           /\ a \in DOMAIN tx.pre \ DOMAIN tx.post => map'[a].closed
           /\ a \notin DOMAIN tx.pre \cup DOMAIN tx.post =>
                map'[a].closed = map[a].closed /\ map'[a].value = map[a].value
           /\ (\/ a \in DOMAIN tx.pre \/ a \notin DOMAIN map
               \/ map[a].decimals = DecimalsOf[map[a].mint]) =>
                map'[a].decimals = DecimalsOf[map'[a].mint])
      /\ \A a \in DOMAIN map' :
           \/ a \in All /\ OpenedAs(tx, a, o(a).mint)
           \/ /\ a \in DOMAIN tx.opens /\ ~NotOpened(tx, a)
              /\ map'[a].mint = tx.opens[a].mint /\ map'[a].owner = tx.opens[a].owner
  <2>1. KnownDecimals(map)
    BY DEF EntriesTo
  <2>2. LET M == FillTokenAccountMap(map, tx)
        IN /\ KnownDecimals(M) /\ SharedDecimals(M)
           /\ \A a \in All : a \in DOMAIN M /\ (OpenedAs(tx, a, o(a).mint) =>
                /\ M[a].mint = o(a).mint /\ M[a].owner = o(a).owner
                /\ a \in DOMAIN tx.post => ~M[a].closed /\ M[a].value = ParseInt(tx.post[a].amount)
                /\ a \in DOMAIN tx.pre \ DOMAIN tx.post => M[a].closed
                /\ a \notin DOMAIN tx.pre \cup DOMAIN tx.post =>
                     M[a].closed = map[a].closed /\ M[a].value = map[a].value
                /\ (\/ a \in DOMAIN tx.pre \/ a \notin DOMAIN map
                    \/ map[a].decimals = DecimalsOf[map[a].mint]) =>
                     M[a].decimals = DecimalsOf[M[a].mint])
           /\ \A a \in DOMAIN M :
                \/ a \in All /\ OpenedAs(tx, a, o(a).mint)
                \/ /\ a \in DOMAIN tx.opens /\ ~NotOpened(tx, a)
                   /\ M[a].mint = tx.opens[a].mint /\ M[a].owner = tx.opens[a].owner
    <3> HIDE DEF tx
    <3> QED
      BY <1>1, <2>1, FilledEntries
  <2> QED
    BY <2>2 DEF KnownDecimals, SharedDecimals
<1>3. \A a : (Opens(a, m) <=> ~NotOpened(tx, a)) /\ (Seen(a, m) <=> a \in DOMAIN tx.pre \cup DOMAIN tx.post)
  BY DEF Opens, NotOpened, Seen
<1>4. \A a : /\ Told(a, m - 1) \subseteq Told(a, m)
             /\ a \in DOMAIN tx.pre => tx.pre[a] \in Told(a, m)
             /\ a \in DOMAIN tx.post => tx.post[a] \in Told(a, m)
             /\ Opens(a, m) => tx.opens[a] \in Told(a, m)
  BY <1>1, ToldBy
<1>5. \A a \in All : \E b \in Told(a, m) : Same(o(a), b)
  BY <1>4 DEF EntriesTo, Traced, Origin, Same
<1>6. \A a, k : Told(a, k)' = Told(a, k) /\ (Undone(a, k)' <=> Undone(a, k))
                /\ (LastSeenIs(a, k, m)' <=> LastSeenIs(a, k, m))
                /\ (RenewedIn(a, k, m)' <=> RenewedIn(a, k, m))
  BY DEF Told, Undone, Opens, LastSeenIs, Seen, RenewedIn
<1> HIDE DEF tx, o
<1>7. \A a \in DOMAIN map' : \E b \in Told(a, m) : Same(map'[a], b)
  BY <1>2, <1>3, <1>4, <1>5 DEF Same
<1>8. ASSUME NEW a \in DOMAIN map', Steady(a, m), \A i \in 1 .. m : ~Undone(a, i)
      PROVE  map'[a].decimals = DecimalsOf[map'[a].mint]
  <2>1. a \in All
    <3>1. ~Undone(a, m)
      BY <1>1, <1>8
    <3> QED
      BY <1>2, <1>3, <3>1 DEF Undone, tx
  <2>2. OpenedAs(tx, a, o(a).mint)
    BY <1>3, <1>4, <1>5, <1>8, <2>1 DEF OpenedAs, Steady, Same
  <2>3. a \in DOMAIN map => map[a].decimals = DecimalsOf[map[a].mint]
    <3>1. Steady(a, m - 1)
      BY <1>4, <1>8 DEF Steady
    <3>2. \A i \in 1 .. m - 1 : ~Undone(a, i)
      BY <1>1, <1>8
    <3> QED
      BY <3>1, <3>2 DEF EntriesTo, Decided
  <2> QED
    BY <1>2, <2>1, <2>2, <2>3
<1>9. ASSUME NEW a \in Accounts, NEW k \in 1 .. m, LastSeenIs(a, k, m), ~RenewedIn(a, k, m)
      PROVE  /\ a \in DOMAIN map'
             /\ map'[a].closed <=> a \notin DOMAIN blk[k].post
             /\ a \in DOMAIN blk[k].post =>
                  /\ Same(map'[a], blk[k].post[a])
                  /\ map'[a].value = ParseInt(blk[k].post[a].amount)
                  /\ map'[a].decimals = DecimalsOf[map'[a].mint]
  <2>1. CASE k = m /\ a \in DOMAIN tx.pre
    <3>1. /\ a \in DOMAIN tx.post => Same(tx.pre[a], tx.post[a])
          /\ Opens(a, m) => tx.opens[a].mint = tx.pre[a].mint
      BY <1>9, <2>1 DEF RenewedIn, tx
    <3>2. o(a) = tx.pre[a] /\ OpenedAs(tx, a, o(a).mint)
      BY <1>3, <2>1, <3>1 DEF OpenedAs, Origin, o
    <3> QED
      BY <1>2, <2>1, <3>1, <3>2 DEF Same, tx
  <2>2. CASE k = m /\ a \notin DOMAIN tx.pre
    <3>1. /\ \A b \in Told(a, m - 1) : Same(b, tx.post[a])
          /\ \A i \in 1 .. m - 1 : ~Undone(a, i)
      BY <1>9, <2>2 DEF RenewedIn, tx
    <3>2. a \in DOMAIN tx.post
      BY <1>3, <1>9, <2>2 DEF LastSeenIs
    <3>3. tx.opens[a].mint = tx.post[a].mint
      BY <2>2, <3>2 DEF OpensInv, tx
    <3>4. CASE a \notin DOMAIN map
      <4>1. o(a) = tx.post[a] /\ OpenedAs(tx, a, o(a).mint)
        BY <2>2, <3>3, <3>4 DEF OpenedAs, Origin, o
      <4> QED
        BY <1>2, <2>2, <3>2, <3>4, <4>1 DEF Same, tx
    <3>5. CASE a \in DOMAIN map
      <4>1. o(a) = map[a] /\ Same(map[a], tx.post[a])
        BY <2>2, <3>1, <3>5 DEF EntriesTo, Traced, Same, Origin, o
      <4>2. OpenedAs(tx, a, o(a).mint)
        BY <3>3, <4>1 DEF OpenedAs, Same
      <4>3. map[a].decimals = DecimalsOf[map[a].mint]
        BY <3>1, <3>5 DEF EntriesTo, Decided, Steady, Same
      <4> QED
        BY <1>2, <2>2, <3>2, <3>5, <4>1, <4>2, <4>3 DEF Same, tx
    <3> QED
      BY <3>4, <3>5
  <2>3. CASE k # m
    <3>1. k \in 1 .. m - 1 /\ LastSeenIs(a, k, m - 1) /\ ~Seen(a, m) /\ ~Opens(a, m)
      BY <1>9, <2>3 DEF LastSeenIs, RenewedIn
    <3>2. ~RenewedIn(a, k, m - 1)
      BY <1>9, <2>3 DEF RenewedIn
    <3>3. /\ a \in DOMAIN map
          /\ map[a].closed <=> a \notin DOMAIN blk[k].post
          /\ a \in DOMAIN blk[k].post =>
               /\ Same(map[a], blk[k].post[a])
               /\ map[a].value = ParseInt(blk[k].post[a].amount)
               /\ map[a].decimals = DecimalsOf[map[a].mint]
      BY <3>1, <3>2 DEF EntriesTo, FollowedTo
    <3>4. o(a) = map[a] /\ OpenedAs(tx, a, o(a).mint) /\ a \notin DOMAIN tx.pre \cup DOMAIN tx.post
      BY <1>3, <3>1, <3>3 DEF OpenedAs, Origin, o
    <3> QED
      BY <1>2, <3>3, <3>4 DEF Same
  <2> QED
    BY <2>1, <2>2, <2>3
<1>10. Traced(m)' /\ Decided(m)'
  BY <1>6, <1>7, <1>8 DEF Traced, Decided, Steady
<1>11. FollowedTo(m)'
  BY <1>6, <1>9 DEF FollowedTo
<1> QED
  BY <1>2, <1>10, <1>11 DEF EntriesTo


LEMMA EntriesFill ==
  ASSUME DecodeInv, OpensInv, EntriesInv, [DecodeNext]_decodeVars PROVE EntriesInv'
<1> USE DEF DecodeInv
<1>1. CASE phase = "chain" /\ phase' = "chain" /\ map' = map
  BY <1>1 DEF EntriesInv
<1>2. CASE BlockFetched
  <2>1. map = EmptyMap /\ map' = map /\ n' = n /\ n = 1 /\ phase' = "fill"
    BY <1>2 DEF BlockFetched, FilledInv, EntriesInv
  <2>2. DOMAIN map' = {}
    BY <2>1 DEF EmptyMap
  <2> QED
    BY <2>1, <2>2 DEF EntriesInv, EntriesTo, KnownDecimals, SharedDecimals, Traced, Decided,
                      FollowedTo
<1>3. CASE FillTx
  <2>1. n \in 1 .. Len(blk) /\ EntriesTo(n - 1) /\ IsMap(map) /\ Len(blk) \in Nat
    BY <1>3 DEF FillTx, FilledInv, EntriesInv, ChainInv, BlkInv
  <2>2. blk' = blk /\ map' = FillTokenAccountMap(map, blk[n])
    BY <1>3 DEF FillTx, chainVars
  <2>3. PICK m \in 1 .. Len(blk) : m = n
    BY <2>1
  <2>4. EntriesTo(m)'
    BY <2>1, <2>2, <2>3, EntriesStep
  <2>5. CASE n < Len(blk)
    <3>1. n' = n + 1 /\ phase' = "fill"
      BY <1>3, <2>5 DEF FillTx
    <3>2. (n - 1)' = m
      BY <2>1, <2>3, <3>1
    <3>3. EntriesTo(n - 1)'
      BY <2>4, <3>2 DEF EntriesTo, Traced, Decided, FollowedTo
    <3> QED
      BY <3>1, <3>3 DEF EntriesInv
  <2>6. CASE ~(n < Len(blk))
    <3>1. phase' = "decode"
      BY <1>3, <2>6 DEF FillTx
    <3>2. m = Len(blk)'
      BY <2>1, <2>2, <2>3, <2>6
    <3>3. EntriesTo(Len(blk))'
      BY <2>4, <3>2 DEF EntriesTo, Traced, Decided, FollowedTo
    <3> QED
      BY <3>1, <3>3 DEF EntriesInv
  <2> QED
    BY <2>5, <2>6
<1>4. CASE /\ phase \in {"decode", "accounts", "saved"} /\ phase' \in {"decode", "accounts", "saved"}
           /\ UNCHANGED <<chainVars, map>>
  BY <1>4 DEF EntriesInv, EntriesTo, KnownDecimals, SharedDecimals, Traced, Decided, Steady, Told,
       Undone, FollowedTo, LastSeenIs, RenewedIn, Seen, Opens, chainVars
<1>5. ASSUME DecodeNext, ~BlockFetched, ~FillTx
      PROVE  \/ phase = "chain" /\ phase' = "chain" /\ map' = map
             \/ /\ phase \in {"decode", "accounts", "saved"}
                /\ phase' \in {"decode", "accounts", "saved"}
                /\ UNCHANGED <<chainVars, map>>
  BY <1>5 DEF DecodeNext, Call, Swap, CreatePool, Open, Close, Move, SetOwner, EndTx, Step,
       DecodeNextTx, Saving, SaveTokenAccounts, FindPool, InsertPool, PoolQueryFails,
       OtherWorkerInserts, saveVars, chainVars
<1>6. CASE UNCHANGED decodeVars
  BY <1>6 DEF decodeVars, EntriesInv, EntriesTo, KnownDecimals, SharedDecimals, Traced, Decided,
       Steady, Told, Undone, FollowedTo, LastSeenIs, RenewedIn, Seen, Opens
<1> QED
  BY <1>1, <1>2, <1>3, <1>4, <1>5, <1>6

\* An account that was reported was reported last.
LEMMA LastSeenExists ==
  ASSUME ChainInv, NEW a, NEW i0 \in DOMAIN blk, Seen(a, i0)
  PROVE  LastSeen(a) \in 1 .. Len(blk) /\ LastSeenIs(a, LastSeen(a), Len(blk))
<1>1. DOMAIN blk = 1 .. Len(blk) /\ Len(blk) \in Nat
  BY DEF ChainInv, BlkInv
<1> DEFINE S == {i \in 1 .. Len(blk) : Seen(a, i)}
<1>2. i0 \in S /\ S \in SUBSET (1 .. Len(blk))
  BY <1>1
<1>3. \E i \in S : \A j \in S : j <= i
  BY <1>1, <1>2, LeastAndGreatest
<1>4. \E i \in DOMAIN blk : Seen(a, i) /\ \A j \in DOMAIN blk : Seen(a, j) => j <= i
  BY <1>1, <1>3
<1>5. /\ LastSeen(a) \in DOMAIN blk /\ Seen(a, LastSeen(a))
      /\ \A j \in DOMAIN blk : Seen(a, j) => j <= LastSeen(a)
  BY <1>4 DEF LastSeen
<1> HIDE DEF S
<1> QED
  BY <1>1, <1>5 DEF LastSeenIs

LEMMA AccountsFollow == DecodeInv /\ EntriesInv => AccountsAreTheChains
<1> SUFFICES ASSUME DecodeInv, EntriesInv, phase \in {"decode", "accounts", "saved"},
                    NEW a \in Accounts, NEW i0 \in DOMAIN blk, Seen(a, i0), ~Renewed(a)
             PROVE  /\ a \in DOMAIN map
                    /\ (map[a].closed <=> ledger[a] = Closed)
                    /\ ledger[a] # Closed =>
                         /\ Same(map[a], ledger[a])
                         /\ map[a].value = ParseInt(ledger[a].amount)
                         /\ map[a].decimals = DecimalsOf[ledger[a].mint]
  BY DEF AccountsAreTheChains
<1>1. PICK k \in 1 .. Len(blk) : k = LastSeen(a) /\ LastSeenIs(a, k, Len(blk))
  BY LastSeenExists DEF DecodeInv
<1>2. ~RenewedIn(a, k, Len(blk))
  BY <1>1 DEF Renewed
<1>3. /\ a \in DOMAIN map
      /\ map[a].closed <=> a \notin DOMAIN blk[k].post
      /\ a \in DOMAIN blk[k].post =>
           /\ Same(map[a], blk[k].post[a])
           /\ map[a].value = ParseInt(blk[k].post[a].amount)
           /\ map[a].decimals = DecimalsOf[map[a].mint]
  BY <1>1, <1>2 DEF EntriesInv, EntriesTo, FollowedTo
<1>4. Reported(a, k)
  BY <1>1 DEF DecodeInv, ChainInv, BlkInv
<1>5. ledger[a] = start[a]
  BY DEF DecodeInv, ChainInv, CurInv, FilledInv, EmptyTx
<1> QED
  BY <1>3, <1>4, <1>5 DEF Reported, Same

\* Token, owner, decimals, balance and whether the account is open: the map has
\* them of every account reported as the chain left them, after any number of
\* transactions, unless the account was renewed in the block (FillTokenAccountMap,
\* DecodeInitAccountInstruction).
THEOREM AccountsTheorem == DecodeSpec => []AccountsAreTheChains
<1> DEFINE Inv == DecodeInv /\ OpensInv /\ EntriesInv
<1>1. DecodeInit => Inv
  BY InitDecodeInv, InitOpens
<1>2. Inv /\ [DecodeNext]_decodeVars => Inv'
  BY ChainStep, FillStep, OpensStep, EntriesFill DEF DecodeInv
<1>3. Inv => AccountsAreTheChains
  BY AccountsFollow
<1> QED
  BY <1>1, <1>2, <1>3, PTL DEF DecodeSpec
=============================================================================
