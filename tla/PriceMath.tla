----------------------------- MODULE PriceMath ------------------------------
(***************************************************************************)
(* How a block's SOL price is found in its transactions: the transfers of  *)
(* a stable coin swap (GetBlockSolPriceByTransfer), the instructions of a  *)
(* transaction that are looked at (GetBlockSolPrice), and the average of   *)
(* the prices found (RemoveMinAndMaxAndCalculateAverage).                  *)
(*                                                                         *)
(* A price is the pair of transfers it divides, a mean is a sum and a      *)
(* count: no division is rounded here.  An instruction is what the scan    *)
(* makes of it: a transfer of SOL or of USD (USDC, USDT) between the       *)
(* owners of two token accounts, a call of a stable coin DEX, or anything  *)
(* else (no token transfer, an unknown account, another token).            *)
(***************************************************************************)
EXTENDS Naturals, Sequences, FiniteSets, SequencesExt

CONSTANTS
  Owners,    \* owners of token accounts
  Values,    \* prices in the averaged list
  MaxNums,   \* the longest list that is averaged
  MaxScan,   \* the longest list of instructions that is scanned
  DexKey     \* the index in AccountKeys of the stable coin DEX

ASSUME PriceMathAssumption ==
  Values \subseteq Nat \ {0} /\ MaxNums \in Nat /\ MaxScan \in Nat /\ DexKey \in Nat

-----------------------------------------------------------------------------
(* RemoveMinAndMaxAndCalculateAverage.                                     *)

\* The loop over the list that adds the values at some positions of it.
SumOver(nums, kept) ==
  LET sum[k \in 0 .. Len(nums)] ==
        IF k = 0 THEN 0 ELSE IF k \in kept THEN sum[k - 1] + nums[k] ELSE sum[k - 1]
  IN sum[Len(nums)]

SumOf(nums) == SumOver(nums, DOMAIN nums)

\* The comparisons are strict, so the first of several equal values counts.
MinIndex(nums) == SelectInSeq(nums, LAMBDA a : \A b \in ToSet(nums) : a <= b)
MaxIndex(nums) == SelectInSeq(nums, LAMBDA a : \A b \in ToSet(nums) : a >= b)

\* Mutant of AverageOf: values are removed where one position of each is meant.
AverageOfValues(nums) ==
  IF Len(nums) <= 2 THEN [sum |-> SumOf(nums), count |-> Len(nums)]
  ELSE LET lo   == nums[MinIndex(nums)]
           hi   == nums[MaxIndex(nums)]
           kept == SelectSeq(nums, LAMBDA a : a \notin {lo, hi})
       IN [sum |-> SumOf(kept), count |-> Len(kept)]

AverageOf(nums) ==
  IF Len(nums) <= 2 THEN [sum |-> SumOf(nums), count |-> Len(nums)]
  ELSE LET kept == {i \in DOMAIN nums : i \notin {MinIndex(nums), MaxIndex(nums)}}
       IN [sum |-> SumOver(nums, kept), count |-> Cardinality(kept)]

-----------------------------------------------------------------------------
(* GetBlockSolPriceByTransfer: `sol` and `usd` are the positions of the    *)
(* two transfers remembered, 0 for nil.                                    *)

Other     == [kind |-> "other"]
DexCall   == [kind |-> "dex"]
Transfers == [kind : {"SOL", "USD"}, from : Owners, to : Owners]

IsSwapTransfer(a, b) == a.from = b.to \/ b.from = a.to

Scan(sol, usd, connect, swap) == [sol |-> sol, usd |-> usd, connect |-> connect, swap |-> swap]
ScanStart == Scan(0, 0, FALSE, FALSE)

\* Mutant of ScanOne: what is no transfer of SOL or USD is passed over.
ScanOneSkips(scan, insts, i) ==
  IF scan.swap THEN scan
  ELSE IF insts[i].kind = "SOL"
       THEN IF scan.usd = 0 THEN Scan(i, 0, TRUE, FALSE)
            ELSE IF IsSwapTransfer(insts[i], insts[scan.usd]) THEN Scan(i, scan.usd, TRUE, TRUE)
            ELSE Scan(i, 0, TRUE, FALSE)
  ELSE IF insts[i].kind = "USD"
       THEN IF scan.sol = 0 THEN Scan(0, i, TRUE, FALSE)
            ELSE IF IsSwapTransfer(insts[scan.sol], insts[i]) THEN Scan(scan.sol, i, TRUE, TRUE)
            ELSE Scan(0, i, TRUE, FALSE)
  ELSE scan

\* One iteration; after the break nothing is looked at.
ScanOne(scan, insts, i) ==
  IF scan.swap THEN scan
  ELSE IF insts[i].kind = "SOL"
       THEN IF ~(scan.connect /\ scan.usd # 0) THEN Scan(i, scan.usd, TRUE, FALSE)
            ELSE IF IsSwapTransfer(insts[i], insts[scan.usd]) THEN Scan(i, scan.usd, TRUE, TRUE)
            ELSE Scan(i, 0, TRUE, FALSE)
  ELSE IF insts[i].kind = "USD"
       THEN IF ~(scan.connect /\ scan.sol # 0) THEN Scan(scan.sol, i, TRUE, FALSE)
            ELSE IF IsSwapTransfer(insts[scan.sol], insts[i]) THEN Scan(scan.sol, i, TRUE, TRUE)
            ELSE Scan(0, i, TRUE, FALSE)
  ELSE ScanStart

\* The transfers whose amounts are divided, <<USD, SOL>>, or no price.
NoPrice == <<>>
PriceByTransfer(insts) ==
  LET scan[k \in 0 .. Len(insts)] ==
        IF k = 0 THEN ScanStart ELSE ScanOne(scan[k - 1], insts, k)
      end == scan[Len(insts)]
  IN IF end.sol # 0 /\ end.usd # 0 /\ end.connect
     THEN <<insts[end.usd], insts[end.sol]>> ELSE NoPrice

-----------------------------------------------------------------------------
(* GetBlockSolPrice over one transaction: `programs` are the ProgramIDIndex *)
(* of its instructions, numbered from 0; `inner` maps the number of an      *)
(* instruction to its inner instructions.                                   *)

TopLevel(t) == 0 .. Len(t.programs) - 1
Program(t, k)   == t.programs[k + 1]
InnerOf(t, key) == IF key \in DOMAIN t.inner THEN t.inner[key] ELSE <<>>

\* GetInnerInstructionByInner: the two instructions that follow a call.
NextTwo(insts, i) == IF i + 2 > Len(insts) THEN <<>> ELSE SubSeq(insts, i + 1, i + 2)

\* The map of GetInnerInstructionMap has the instruction's number as its key;
\* it is asked with the ProgramIDIndex of the instruction.
TopLevelPrices(t) ==
  {PriceByTransfer(InnerOf(t, Program(t, k))) :
     k \in {j \in TopLevel(t) : Program(t, j) = DexKey}}

InnerPrices(t) ==
  LET Calls(k) == {i \in DOMAIN t.inner[k] : t.inner[k][i] = DexCall}
  IN UNION {{PriceByTransfer(NextTwo(t.inner[k], i)) : i \in Calls(k)} :
              k \in DOMAIN t.inner}

PricesFound(t) == (TopLevelPrices(t) \cup InnerPrices(t)) \ {NoPrice}

-----------------------------------------------------------------------------
(* The inputs, one evaluation each.                                        *)

Txs ==
  LET SomeSwap == {<<[kind |-> "SOL", from |-> a, to |-> b],
                     [kind |-> "USD", from |-> b, to |-> a]>> : a \in Owners, b \in Owners}
  IN UNION {[programs : [1 .. n -> 0 .. DexKey],
             inner    : [0 .. n - 1 -> {<<>>} \cup SomeSwap
                                        \cup {<<DexCall>> \o insts : insts \in SomeSwap}]] :
              n \in 1 .. 2}

VARIABLES
  nums, list, tx,            \* the input
  average, price, prices,     \* the result
  done

mathVars == <<nums, list, tx, average, price, prices, done>>

NoTx == [programs |-> <<>>, inner |-> <<>>]

MathInit ==
  /\ \/ nums \in BoundedSeq(Values, MaxNums) \ {<<>>} /\ list = <<>> /\ tx = NoTx
     \/ nums = <<>> /\ tx = NoTx /\ list \in BoundedSeq(Transfers \cup {Other}, MaxScan)
     \/ nums = <<>> /\ list = <<>> /\ tx \in Txs
  /\ average = [sum |-> 0, count |-> 0] /\ price = NoPrice /\ prices = {}
  /\ done = FALSE

Evaluate ==
  /\ ~done /\ done' = TRUE
  /\ average' = AverageOf(nums)
  /\ price' = PriceByTransfer(list)
  /\ prices' = PricesFound(tx)
  /\ UNCHANGED <<nums, list, tx>>

MathSpec == MathInit /\ [][Evaluate]_mathVars

-----------------------------------------------------------------------------
\* The mean of three or more prices is that of the list without one lowest and
\* one highest of them, in whatever order they come, also when all are equal
\* and one position is both the lowest and the highest (util.go 19-43).
AverageIsTrimmedMean ==
  done /\ Len(nums) > 2 =>
    LET lo == nums[MinIndex(nums)]
        hi == nums[MaxIndex(nums)]
    IN /\ average.count > 0
       /\ average.sum * (Len(nums) - 2) = (SumOf(nums) - lo - hi) * average.count

\* The price is that of the first two transfers next to each other that move
\* SOL one way and USD the other between the same owners; a list without such
\* a neighbourhood has no price, whatever the scan remembered (price.go 154-210).
PriceIsFirstSwap ==
  LET Swaps == {i \in 1 .. Len(list) - 1 :
                  /\ {list[i].kind, list[i + 1].kind} = {"SOL", "USD"}
                  /\ IsSwapTransfer(list[i], list[i + 1])}
      first == CHOOSE i \in Swaps : \A j \in Swaps : i <= j
  IN done => IF Swaps = {} THEN price = NoPrice
             ELSE IF list[first].kind = "USD"
                  THEN price = <<list[first], list[first + 1]>>
                  ELSE price = <<list[first + 1], list[first]>>

\* What the comment on the map says, "the index of the inner instruction is the
\* key" (price.go 70): a swap on the DEX is priced by its own transfers.
OwnTransfersPriced ==
  done => \A k \in TopLevel(tx) :
    Program(tx, k) = DexKey /\ PriceByTransfer(InnerOf(tx, k)) # NoPrice
      => PriceByTransfer(InnerOf(tx, k)) \in prices
=============================================================================
