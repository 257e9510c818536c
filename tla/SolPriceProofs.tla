--------------------------- MODULE SolPriceProofs ---------------------------
(***************************************************************************)
(* The price of SOL.  Across blocks (SolPrice): for any number of workers, *)
(* any slots, any set of swapping blocks and any parents.  Within a block  *)
(* (PriceMath): what its loops compute, for lists of any length - the mean *)
(* without one lowest and one highest price, and the first swap among the  *)
(* transfers.  A loop is a recursive function; that there is one, and what *)
(* it is, is an induction over sets of numbers (SetInduction).             *)
(***************************************************************************)
EXTENDS SolPrice, PriceMath, SequenceTheorems, FiniteSetTheorems, WellFoundedInduction, TLAPS

-----------------------------------------------------------------------------
(* Across blocks.                                                           *)

\* What a worker that is about to store holds is its own block's price, or one
\* it read from a row below the parent of its block.
HeldPrice == \A w \in PriceWorkers :
  /\ pc[w] \in {"near", "store"} => job[w] \in Slots
  /\ pc[w] = "store" /\ priced[w] # 0 =>
       \/ priced[w] = job[w] /\ job[w] \in Swapping
       \/ /\ priced[w] < Parent[job[w]]
          /\ priced[w] \in Swapping
          /\ block.status[priced[w]] = BlockProcessed
          /\ solPrice[priced[w]] = priced[w]

\* A slot without a row has no price.
PriceNeedsRow == \A s \in Slots : solPrice[s] # 0 => block.status[s] = BlockProcessed

SolPriceInv == /\ PriceTypeOK /\ HeldPrice /\ PriceNeedsRow
               /\ PriceIsNotOfTheFuture /\ PriceIsTraceable

\* Insert adds a row or leaves the table; a row that is there keeps its status.
LEMMA InsertKeeps ==
  ASSUME NEW table \in Tables, NEW s \in Slots, NEW v \in Verdicts
  PROVE  /\ Insert(table, s, v) \in Tables
         /\ \A t \in Slots : HasRow(table, t) =>
              Insert(table, s, v).status[t] = table.status[t]
         /\ ~HasRow(table, s) => Insert(table, s, v).status[s] = v
BY DEF Insert, Tables, Statuses, HasRow

\* Order of a slot, a price at or below its parent, and a parent above it.
LEMMA BelowParent ==
  ASSUME NEW s \in Slots, NEW r \in Slots, NEW p \in Prices,
         s < Parent[r], p = s \/ p < Parent[s]
  PROVE  p < Parent[r]
<1>1. s \in Nat /\ p \in Nat
  BY SlotsAssumption DEF Prices
<1>2. Parent[s] \in Nat /\ Parent[r] \in Nat /\ Parent[s] < s
  BY SolPriceAssumption
<1> QED
  BY <1>1, <1>2

LEMMA SolPriceInit == PriceInit => SolPriceInv
<1>1. EmptyTable \in Tables
  BY DEF EmptyTable, Tables, Statuses
<1> QED
  BY <1>1 DEF PriceInit, SolPriceInv, PriceTypeOK, HeldPrice, PriceNeedsRow,
              PriceIsNotOfTheFuture, PriceIsTraceable, Prices

\* Every step keeps the invariant.
LEMMA SolPriceStep == SolPriceInv /\ [PriceNext]_priceVars => SolPriceInv'
<1> SUFFICES ASSUME SolPriceInv, [PriceNext]_priceVars PROVE SolPriceInv'
  OBVIOUS
<1>z. /\ 0 \notin Slots /\ Slots \subseteq Nat /\ Swapping \subseteq Slots
      /\ \A s \in Slots : Parent[s] \in Nat /\ Parent[s] < s
  BY SlotsAssumption, SolPriceAssumption
<1>v. BlockProcessed # Absent /\ Verdicts = {BlockProcessed, BlockFailed, BlockSkipped}
  BY DEF BlockProcessed, Absent, Verdicts
<1> USE DEF SolPriceInv, PriceTypeOK, HeldPrice, PriceNeedsRow,
            PriceIsNotOfTheFuture, PriceIsTraceable, Prices
<1>1. CASE UNCHANGED priceVars
  BY <1>1 DEF priceVars
<1>2. ASSUME NEW w \in PriceWorkers, NEW s \in Slots, FetchBlock(w, s)
      PROVE  SolPriceInv'
  BY <1>2, <1>z DEF FetchBlock
<1>3. ASSUME NEW w \in PriceWorkers, NEW s \in Slots, FetchFails(w, s)
      PROVE  SolPriceInv'
  <2>1. PICK verdict \in Verdicts : block' = Insert(block, s, verdict)
    BY <1>3, <1>v DEF FetchFails
  <2>2. block' \in Tables /\ \A t \in Slots : HasRow(block, t) =>
                                block'.status[t] = block.status[t]
    BY <2>1, InsertKeeps
  <2> QED
    BY <1>3, <1>z, <1>v, <2>2 DEF FetchFails, HasRow
<1>4. ASSUME NEW w \in PriceWorkers, ReadNear(w) PROVE SolPriceInv'
  <2>1. job[w] \in Slots /\ UNCHANGED <<block, solPrice, job>>
    BY <1>4 DEF ReadNear
  <2>2. CASE \E s \in NearSlots(job[w]) : priced' = [priced EXCEPT ![w] = solPrice[s]]
    <3>1. PICK s \in Slots : /\ s < Parent[job[w]]
                             /\ priced' = [priced EXCEPT ![w] = solPrice[s]]
      BY <2>2 DEF NearSlots, FindOneByNearSlot
    <3>2. solPrice[s] # 0 => solPrice[s] < Parent[job[w]]
      BY <2>1, <3>1, BelowParent
    <3>3. solPrice[s] # 0 => /\ solPrice[s] \in Swapping
                             /\ block.status[solPrice[s]] = BlockProcessed
                             /\ solPrice[solPrice[s]] = solPrice[s]
      BY <3>1
    <3> QED
      BY <1>4, <1>z, <2>1, <3>1, <3>2, <3>3 DEF ReadNear
  <2>3. CASE priced' = [priced EXCEPT ![w] = 0]
    BY <1>4, <1>z, <2>1, <2>3 DEF ReadNear
  <2> QED
    BY <1>4, <2>2, <2>3 DEF ReadNear
<1>5. ASSUME NEW w \in PriceWorkers, StorePriced(w) PROVE SolPriceInv'
  <2>1. /\ pc[w] = "store" /\ pc' = [pc EXCEPT ![w] = "idle"]
        /\ job[w] \in Slots /\ job' = [job EXCEPT ![w] = 0]
        /\ priced' = [priced EXCEPT ![w] = 0]
    BY <1>5 DEF StorePriced, Leave
  <2>2. block' = Insert(block, job[w], BlockProcessed)
    BY <1>5 DEF StorePriced
  <2>3. /\ block' \in Tables
        /\ \A t \in Slots : HasRow(block, t) => block'.status[t] = block.status[t]
        /\ ~HasRow(block, job[w]) => block'.status[job[w]] = BlockProcessed
    BY <1>v, <2>1, <2>2, InsertKeeps
  <2>4. \/ HasRow(block, job[w]) /\ UNCHANGED solPrice
        \/ /\ ~HasRow(block, job[w]) /\ solPrice[job[w]] = 0
           /\ solPrice' = [solPrice EXCEPT ![job[w]] = priced[w]]
    BY <1>5, <1>v, <2>1 DEF StorePriced, HasRow
  <2>5. PriceTypeOK' /\ PriceNeedsRow'
    BY <1>v, <2>1, <2>3, <2>4 DEF HasRow
  <2>6. \A s \in Slots : solPrice[s] # 0 => solPrice'[s] = solPrice[s]
    BY <2>4, <2>1
  <2>7. PriceIsNotOfTheFuture'
    BY <1>z, <2>1, <2>4
  <2>8. \A s \in Slots : block.status[s] = BlockProcessed => block'.status[s] = BlockProcessed
    BY <1>v, <2>3 DEF HasRow
  <2>9. PriceIsTraceable'
    <3> SUFFICES ASSUME NEW s \in Slots, solPrice'[s] # 0
                 PROVE  /\ solPrice'[s] \in Swapping
                        /\ block'.status[solPrice'[s]] = BlockProcessed
                        /\ solPrice'[solPrice'[s]] = solPrice'[s]
      OBVIOUS
    <3>1. CASE solPrice'[s] = solPrice[s]
      <4>1. /\ solPrice[s] \in Swapping
            /\ block.status[solPrice[s]] = BlockProcessed
            /\ solPrice[solPrice[s]] = solPrice[s]
        BY <3>1
      <4> QED
        BY <1>z, <3>1, <4>1, <2>6, <2>8
    <3>2. CASE solPrice'[s] # solPrice[s]
      <4>1. /\ s = job[w] /\ ~HasRow(block, s) /\ solPrice'[s] = priced[w]
            /\ priced[w] # 0 /\ block'.status[s] = BlockProcessed
        BY <2>1, <2>3, <2>4, <3>2
      <4>2. CASE priced[w] = job[w] /\ job[w] \in Swapping
        BY <4>1, <4>2
      <4>3. CASE /\ priced[w] \in Swapping
                 /\ block.status[priced[w]] = BlockProcessed
                 /\ solPrice[priced[w]] = priced[w]
        BY <1>z, <2>6, <2>8, <4>1, <4>3
      <4> QED
        BY <2>1, <4>1, <4>2, <4>3
    <3> QED
      BY <3>1, <3>2
  <2>10. HeldPrice'
    BY <1>z, <2>1, <2>6, <2>8
  <2> QED
    BY <2>5, <2>7, <2>9, <2>10
<1>6. ASSUME NEW W \in SUBSET PriceWorkers, GiveUp(W) PROVE SolPriceInv'
  BY <1>6, <1>z DEF GiveUp, Leave
<1> QED
  BY <1>1, <1>2, <1>3, <1>4, <1>5, <1>6 DEF PriceNext

\* SolPriceInv holds in every reachable state.
LEMMA SolPriceInvariant == PriceSpec => []SolPriceInv
BY SolPriceInit, SolPriceStep, PTL DEF PriceSpec

\* Types, for every instance.
THEOREM PriceTypeCorrect == PriceSpec => []PriceTypeOK
BY SolPriceInvariant, PTL DEF SolPriceInv

\* However many workers there are and however their blocks are ordered, no
\* block is valued with the price of a later one.
THEOREM NotOfTheFutureTheorem == PriceSpec => []PriceIsNotOfTheFuture
BY SolPriceInvariant, PTL DEF SolPriceInv

\* Every price in the table leads to the processed row whose swaps gave it.
THEOREM TraceableTheorem == PriceSpec => []PriceIsTraceable
BY SolPriceInvariant, PTL DEF SolPriceInv

-----------------------------------------------------------------------------
(* Loops.                                                                   *)

\* Induction, for a set that is given.
LEMMA SetInduction ==
  ASSUME NEW S \in SUBSET Nat, 0 \in S, \A n \in S : n + 1 \in S
  PROVE  S = Nat
<1> SUFFICES ASSUME Nat \ S # {} PROVE FALSE
  OBVIOUS
<1>1. PICK n \in Nat \ S : \A m \in Nat \ S : ~(<<m, n>> \in OpToRel(<, Nat))
  BY NatLessThanWellFounded, WFMin
<1>2. \A m \in Nat \ S : ~(m < n)
  BY <1>1 DEF OpToRel
<1>3. n # 0 /\ n - 1 \in Nat /\ n - 1 < n
  OBVIOUS
<1>4. n - 1 \in S
  BY <1>2, <1>3
<1>5. (n - 1) + 1 = n
  OBVIOUS
<1> QED
  BY <1>4, <1>5

\* The course of a loop from d0 to its m-th step: step[k] is what the k-th does.
Course(f, m, D, d0, step) == /\ f \in [0 .. m -> D] /\ f[0] = d0
                             /\ \A k \in 1 .. m : f[k] = step[k][f[k - 1]]

\* A loop of n steps has a course, whatever its steps do.
LEMMA Recursion ==
  ASSUME NEW n \in Nat, NEW D, NEW d0 \in D, NEW step \in [1 .. n -> [D -> D]]
  PROVE  \E f : Course(f, n, D, d0, step)
<1> DEFINE Runs(f, m) == Course(f, m, D, d0, step)
           S == {m \in Nat : m > n \/ \E f : Runs(f, m)}
<1> USE DEF Course
<1>1. 0 \in S
  <2>1. Runs([k \in 0 .. 0 |-> d0], 0)
    OBVIOUS
  <2> QED
    BY <2>1
<1>2. \A m \in S : m + 1 \in S
  <2> SUFFICES ASSUME NEW m \in Nat, m < n, NEW f, Runs(f, m)
               PROVE  \E g : Runs(g, m + 1)
    OBVIOUS
  <2> DEFINE last == step[m + 1][f[m]]
             g == [k \in 0 .. m + 1 |-> IF k <= m THEN f[k] ELSE last]
  <2>1. f[m] \in D /\ m + 1 \in 1 .. n
    OBVIOUS
  <2>2. last \in D
    BY <2>1
  <2>3. g \in [0 .. m + 1 -> D]
    BY <2>2
  <2>4. g[0] = d0
    OBVIOUS
  <2>5. ASSUME NEW k \in 1 .. m + 1 PROVE g[k] = step[k][g[k - 1]]
    <3>1. CASE k <= m
      <4>1. k \in 1 .. m /\ k - 1 \in 0 .. m /\ g[k] = f[k] /\ g[k - 1] = f[k - 1]
        BY <3>1
      <4> QED
        BY <4>1
    <3>2. CASE k = m + 1
      <4>1. k - 1 = m /\ g[k] = last /\ g[m] = f[m]
        BY <3>2
      <4> QED
        BY <3>2, <4>1
    <3> QED
      BY <3>1, <3>2
  <2>6. Runs(g, m + 1)
    BY <2>3, <2>4, <2>5
  <2> QED
    BY <2>6
<1>3. S = Nat
  <2> HIDE DEF S
  <2>1. S \in SUBSET Nat
    BY DEF S
  <2> QED
    BY <1>1, <1>2, <2>1, SetInduction
<1>4. n > n \/ \E f : Runs(f, n)
  <2>1. n \in S
    BY <1>3
  <2> QED
    BY <2>1
<1> QED
  BY <1>4

LEMMA LeastIsThere ==
  ASSUME NEW T \in SUBSET Nat, T # {}
  PROVE  Min(T) \in T /\ \A x \in T : Min(T) <= x
<1>1. PICK n \in T : \A m \in T : ~(<<m, n>> \in OpToRel(<, Nat))
  BY NatLessThanWellFounded, WFMin
<1>2. \A m \in T : ~(m < n)
  BY <1>1 DEF OpToRel
<1>3. n \in T /\ \A m \in T : n <= m
  BY <1>2
<1> QED
  BY <1>3 DEF Min

LEMMA GreatestIsThere ==
  ASSUME NEW T \in SUBSET Nat, T # {}, NEW b \in Nat, \A x \in T : x <= b
  PROVE  \E h \in T : \A x \in T : x <= h
<1> DEFINE U == {b - x : x \in T}
<1>1. U \in SUBSET Nat /\ U # {}
  <2>1. \A x \in T : b - x \in Nat
    OBVIOUS
  <2>2. PICK x \in T : TRUE
    OBVIOUS
  <2> QED
    BY <2>1, <2>2
<1>2. Min(U) \in U /\ \A y \in U : Min(U) <= y
  BY <1>1, LeastIsThere
<1>3. PICK h \in T : Min(U) = b - h
  BY <1>2
<1>4. \A x \in T : b - h <= b - x
  BY <1>2, <1>3
<1> QED
  BY <1>4

-----------------------------------------------------------------------------
(* Sums.                                                                    *)

\* The course of the sum.
SumsTo(f, ns, kept) ==
  /\ f \in [0 .. Len(ns) -> Nat] /\ f[0] = 0
  /\ \A k \in 1 .. Len(ns) : f[k] = IF k \in kept THEN f[k - 1] + ns[k] ELSE f[k - 1]

LEMMA SumCourse ==
  ASSUME NEW ns \in Seq(Nat), NEW kept
  PROVE  \E f : SumsTo(f, ns, kept) /\ SumOver(ns, kept) = f[Len(ns)]
<1> DEFINE n == Len(ns)
           Body(f) == [k \in 0 .. n |->
             IF k = 0 THEN 0 ELSE IF k \in kept THEN f[k - 1] + ns[k] ELSE f[k - 1]]
           sum == CHOOSE f : f = Body(f)
           step == [k \in 1 .. n |-> [d \in Nat |-> IF k \in kept THEN d + ns[k] ELSE d]]
<1>1. n \in Nat /\ \A k \in 1 .. n : ns[k] \in Nat
  BY ElementOfSeq, LenProperties
<1>2. step \in [1 .. n -> [Nat -> Nat]]
  BY <1>1
<1>3. PICK f : /\ f \in [0 .. n -> Nat] /\ f[0] = 0
               /\ \A k \in 1 .. n : f[k] = step[k][f[k - 1]]
  <2>1. PICK D, zero : D = Nat /\ zero = 0
    OBVIOUS
  <2>2. n \in Nat /\ zero \in D /\ step \in [1 .. n -> [D -> D]]
    BY <1>1, <1>2, <2>1
  <2> HIDE DEF step, n
  <2>3. \E f : Course(f, n, D, zero, step)
    BY <2>2, Recursion
  <2> QED
    BY <2>1, <2>3 DEF Course
<1>4. SumsTo(f, ns, kept)
  <2>1. ASSUME NEW k \in 1 .. n
        PROVE  f[k] = IF k \in kept THEN f[k - 1] + ns[k] ELSE f[k - 1]
    <3>1. k - 1 \in 0 .. n /\ n \in Nat
      BY <1>1
    <3> QED
      BY <1>3, <3>1
  <2> QED
    BY <1>3, <2>1 DEF SumsTo
<1>5. f = Body(f)
  BY <1>1, <1>3, <1>4 DEF SumsTo
<1>6. sum = Body(sum)
  BY <1>5
<1>7. sum = f
  <2> DEFINE S == {m \in Nat : m <= n => sum[m] = f[m]}
  <2>a. \A m \in 0 .. n : sum[m] = IF m = 0 THEN 0 ELSE
                             IF m \in kept THEN sum[m - 1] + ns[m] ELSE sum[m - 1]
    BY <1>6
  <2>b. DOMAIN sum = 0 .. n
    BY <1>6
  <2> HIDE DEF sum
  <2>1. 0 \in S
    BY <1>1, <1>3, <2>a
  <2>2. \A m \in S : m + 1 \in S
    <3> SUFFICES ASSUME NEW m \in Nat, m + 1 <= n, sum[m] = f[m] PROVE sum[m + 1] = f[m + 1]
      BY <1>1
    <3>1. m + 1 \in 1 .. n /\ (m + 1) - 1 = m
      BY <1>1
    <3> QED
      BY <1>4, <2>a, <3>1 DEF SumsTo
  <2>3. S = Nat
    <3> HIDE DEF S
    <3>1. S \in SUBSET Nat
      BY DEF S
    <3> QED
      BY <2>1, <2>2, <3>1, SetInduction
  <2>4. \A m \in 0 .. n : sum[m] = f[m]
    BY <1>1, <2>3
  <2>5. sum = [m \in 0 .. n |-> sum[m]]
    BY <1>6, <2>b DEF sum
  <2> QED
    BY <1>3, <2>4, <2>5
<1>8. SumOver(ns, kept) = sum[n]
  BY DEF SumOver
<1> QED
  BY <1>4, <1>7, <1>8

\* What is left out of a sum is missing in it, once.
LEMMA SumWithout ==
  ASSUME NEW ns \in Seq(Nat), NEW lo \in 1 .. Len(ns), NEW hi \in 1 .. Len(ns)
  PROVE  SumOf(ns) = SumOver(ns, {i \in DOMAIN ns : i \notin {lo, hi}}) + ns[lo]
                       + (IF lo = hi THEN 0 ELSE ns[hi])
<1> DEFINE n == Len(ns)
           kept == {i \in DOMAIN ns : i \notin {lo, hi}}
           Out(k) == (IF lo <= k THEN ns[lo] ELSE 0)
                       + (IF lo # hi /\ hi <= k THEN ns[hi] ELSE 0)
<1>1. n \in Nat /\ DOMAIN ns = 1 .. n /\ \A k \in 1 .. n : ns[k] \in Nat
  BY ElementOfSeq, LenProperties
<1>2. PICK f : SumsTo(f, ns, DOMAIN ns) /\ SumOf(ns) = f[n]
  BY SumCourse DEF SumOf
<1>3. PICK g : SumsTo(g, ns, kept) /\ SumOver(ns, kept) = g[n]
  BY SumCourse
<1> DEFINE S == {m \in Nat : m <= n => f[m] = g[m] + Out(m)}
<1>4. 0 \in S
  BY <1>1, <1>2, <1>3 DEF SumsTo
<1>5. \A m \in S : m + 1 \in S
  <2> SUFFICES ASSUME NEW m \in Nat, m + 1 <= n, f[m] = g[m] + Out(m)
               PROVE  f[m + 1] = g[m + 1] + Out(m + 1)
    BY <1>1
  <2>0. m + 1 \in 1 .. n /\ m \in 0 .. n /\ (m + 1) - 1 = m
    BY <1>1
  <2>1. f[m] \in Nat /\ g[m] \in Nat /\ ns[m + 1] \in Nat
    <3>1. f \in [0 .. n -> Nat] /\ g \in [0 .. n -> Nat]
      BY <1>2, <1>3 DEF SumsTo
    <3> QED
      BY <1>1, <2>0, <3>1
  <2>2. f[m + 1] = f[m] + ns[m + 1]
    BY <1>1, <1>2, <2>0 DEF SumsTo
  <2>3. g[m + 1] = IF m + 1 \in {lo, hi} THEN g[m] ELSE g[m] + ns[m + 1]
    BY <1>1, <1>3, <2>0 DEF SumsTo
  <2>4. /\ ns[lo] \in Nat /\ ns[hi] \in Nat
        /\ Out(m + 1) = IF m + 1 \in {lo, hi} THEN Out(m) + ns[m + 1] ELSE Out(m)
    <3>1. ns[lo] \in Nat /\ ns[hi] \in Nat /\ lo \in Nat /\ hi \in Nat
      BY <1>1
    <3>2. /\ lo <= m + 1 <=> lo <= m \/ lo = m + 1
          /\ hi <= m + 1 <=> hi <= m \/ hi = m + 1
      BY <3>1
    <3>3. CASE m + 1 = lo
      BY <3>1, <3>2, <3>3
    <3>4. CASE m + 1 # lo
      BY <3>1, <3>2, <3>4
    <3> QED
      BY <3>3, <3>4
  <2>5. Out(m) \in Nat
    BY <2>4
  <2> HIDE DEF Out, kept
  <2>6. CASE m + 1 \in {lo, hi}
    BY <2>1, <2>2, <2>3, <2>4, <2>5, <2>6
  <2>7. CASE m + 1 \notin {lo, hi}
    BY <2>1, <2>2, <2>3, <2>4, <2>5, <2>7
  <2> QED
    BY <2>6, <2>7
<1>6. S = Nat
  <2> HIDE DEF S
  <2>1. S \in SUBSET Nat
    BY DEF S
  <2> QED
    BY <1>4, <1>5, <2>1, SetInduction
<1>7. f[n] = g[n] + Out(n)
  <2>1. n \in S
    BY <1>1, <1>6
  <2> QED
    BY <1>1, <2>1
<1>8. /\ ns[lo] \in Nat /\ ns[hi] \in Nat /\ g[n] \in Nat
      /\ Out(n) = ns[lo] + (IF lo = hi THEN 0 ELSE ns[hi])
  <2>1. g \in [0 .. n -> Nat] /\ n \in 0 .. n
    BY <1>1, <1>3 DEF SumsTo
  <2>2. ns[lo] \in Nat /\ ns[hi] \in Nat /\ lo <= n /\ hi <= n
    BY <1>1
  <2> QED
    BY <2>1, <2>2
<1> HIDE DEF Out, kept
<1>9. SumOf(ns) = SumOver(ns, kept) + ns[lo] + (IF lo = hi THEN 0 ELSE ns[hi])
  BY <1>2, <1>3, <1>7, <1>8
<1> QED
  BY <1>9 DEF kept

\* The sum of n equal values.
LEMMA SumOfEquals ==
  ASSUME NEW ns \in Seq(Nat), NEW v \in Nat, \A k \in 1 .. Len(ns) : ns[k] = v
  PROVE  SumOf(ns) = Len(ns) * v
<1> DEFINE n == Len(ns)
<1>1. n \in Nat /\ DOMAIN ns = 1 .. n
  BY LenProperties
<1>2. PICK f : SumsTo(f, ns, DOMAIN ns) /\ SumOf(ns) = f[n]
  BY SumCourse DEF SumOf
<1> DEFINE S == {m \in Nat : m <= n => f[m] = m * v}
<1>3. 0 \in S
  BY <1>1, <1>2 DEF SumsTo
<1>4. \A m \in S : m + 1 \in S
  <2> SUFFICES ASSUME NEW m \in Nat, m + 1 <= n, f[m] = m * v
               PROVE  f[m + 1] = (m + 1) * v
    BY <1>1
  <2>1. m + 1 \in 1 .. n /\ (m + 1) - 1 = m
    BY <1>1
  <2>2. f[m + 1] = m * v + v
    BY <1>1, <1>2, <2>1 DEF SumsTo
  <2> QED
    BY <2>2
<1>5. S = Nat
  <2> HIDE DEF S
  <2>1. S \in SUBSET Nat
    BY DEF S
  <2> QED
    BY <1>3, <1>4, <2>1, SetInduction
<1>6. n \in S
  BY <1>1, <1>5
<1> QED
  BY <1>1, <1>2, <1>6

-----------------------------------------------------------------------------
(* The average.                                                             *)

\* The positions of one lowest and one highest value.
LEMMA Extremes ==
  ASSUME NEW ns \in Seq(Nat), ns # <<>>
  PROVE  /\ MinIndex(ns) \in 1 .. Len(ns) /\ MaxIndex(ns) \in 1 .. Len(ns)
         /\ \A k \in 1 .. Len(ns) : ns[MinIndex(ns)] <= ns[k] /\ ns[k] <= ns[MaxIndex(ns)]
<1> DEFINE n == Len(ns)
           Low  == {i \in 1 .. n : \A b \in ToSet(ns) : ns[i] <= b}
           High == {i \in 1 .. n : \A b \in ToSet(ns) : ns[i] >= b}
<1>1. /\ n \in Nat /\ DOMAIN ns = 1 .. n /\ n # 0 /\ \A k \in 1 .. n : ns[k] \in Nat
      /\ ToSet(ns) = {ns[i] : i \in 1 .. n}
  BY ElementOfSeq, LenProperties, EmptySeq DEF ToSet
<1>2. \E b \in Nat : \A k \in 1 .. n : ns[k] <= b
  <2> DEFINE Bounded(m) == m <= n => \E b \in Nat : \A k \in 1 .. m : ns[k] <= b
             S == {m \in Nat : Bounded(m)}
  <2>1. Bounded(0)
    OBVIOUS
  <2>2. ASSUME NEW m \in Nat, Bounded(m) PROVE Bounded(m + 1)
    <3> SUFFICES ASSUME m + 1 <= n PROVE \E c \in Nat : \A k \in 1 .. m + 1 : ns[k] <= c
      OBVIOUS
    <3>0. PICK b \in Nat : \A k \in 1 .. m : ns[k] <= b
      BY <1>1, <2>2
    <3>1. ns[m + 1] \in Nat /\ b + ns[m + 1] \in Nat
      BY <1>1
    <3>2. ASSUME NEW k \in 1 .. m + 1 PROVE ns[k] <= b + ns[m + 1]
      <4>1. k \in 1 .. m \/ k = m + 1
        OBVIOUS
      <4>2. ns[k] \in Nat
        BY <1>1
      <4> QED
        BY <3>0, <3>1, <4>1, <4>2
    <3> QED
      BY <3>1, <3>2
  <2>3. Bounded(n)
    <3> HIDE DEF Bounded
    <3>1. S \in SUBSET Nat /\ 0 \in S /\ \A m \in S : m + 1 \in S
      BY <2>1, <2>2
    <3> HIDE DEF S
    <3>2. S = Nat
      BY <3>1, SetInduction
    <3>3. n \in S
      BY <1>1, <3>2
    <3> QED
      BY <3>3 DEF S
  <2> QED
    BY <1>1, <2>3
<1>3. Low # {} /\ High # {}
  <2> DEFINE T == {ns[k] : k \in 1 .. n}
  <2>1. T \in SUBSET Nat /\ T # {} /\ ToSet(ns) = T
    BY <1>1
  <2>2. PICK b \in Nat : \A x \in T : x <= b
    BY <1>1, <1>2
  <2>3. Min(T) \in T /\ \A x \in T : Min(T) <= x
    BY <2>1, LeastIsThere
  <2>4. PICK h \in T : \A x \in T : x <= h
    BY <2>1, <2>2, GreatestIsThere
  <2>5. PICK i, j : i \in 1 .. n /\ j \in 1 .. n /\ ns[i] = Min(T) /\ ns[j] = h
    BY <2>3, <2>4
  <2>6. i \in Low /\ j \in High
    BY <2>1, <2>3, <2>4, <2>5
  <2> QED
    BY <2>6
<1>4. /\ MinIndex(ns) = Min(Low) /\ MaxIndex(ns) = Min(High)
  BY <1>3 DEF MinIndex, MaxIndex, SelectInSeq
<1>5. Min(Low) \in Low /\ Min(High) \in High
  <2>1. \A T \in SUBSET Nat : T # {} => Min(T) \in T
    BY LeastIsThere
  <2>2. Low \in SUBSET Nat /\ High \in SUBSET Nat
    BY <1>1
  <2> QED
    BY <1>3, <2>1, <2>2
<1> QED
  BY <1>1, <1>4, <1>5

\* Three or more values without one lowest and one highest.
LEMMA TrimmedMean ==
  ASSUME NEW ns \in Seq(Nat), Len(ns) > 2
  PROVE  /\ AverageOf(ns).count > 0
         /\ AverageOf(ns).sum * (Len(ns) - 2)
              = (SumOf(ns) - ns[MinIndex(ns)] - ns[MaxIndex(ns)]) * AverageOf(ns).count
<1> DEFINE n == Len(ns)
           i == MinIndex(ns)
           j == MaxIndex(ns)
           kept == {k \in DOMAIN ns : k \notin {i, j}}
<1>1. n \in Nat /\ DOMAIN ns = 1 .. n /\ ns # <<>> /\ \A k \in 1 .. n : ns[k] \in Nat
  BY ElementOfSeq, LenProperties, EmptySeq
<1>2. /\ i \in 1 .. n /\ j \in 1 .. n
      /\ \A k \in 1 .. n : ns[i] <= ns[k] /\ ns[k] <= ns[j]
  BY <1>1, Extremes
<1>3. SumOf(ns) = SumOver(ns, kept) + ns[i] + (IF i = j THEN 0 ELSE ns[j])
  BY <1>2, SumWithout
<1>4. Cardinality(kept) = IF i = j THEN n - 1 ELSE n - 2
  <2>1. IsFiniteSet(1 .. n) /\ Cardinality(1 .. n) = n
    BY <1>1, FS_Interval
  <2>2. IsFiniteSet((1 .. n) \ {i}) /\ Cardinality((1 .. n) \ {i}) = n - 1
    BY <1>2, <2>1, FS_RemoveElement
  <2>3. i # j => Cardinality(((1 .. n) \ {i}) \ {j}) = (n - 1) - 1
    <3>1. SUFFICES ASSUME i # j PROVE Cardinality(((1 .. n) \ {i}) \ {j}) = (n - 1) - 1
      OBVIOUS
    <3>2. j \in (1 .. n) \ {i}
      BY <1>2, <3>1
    <3> HIDE DEF i, j, n
    <3> QED
      BY <2>2, <3>2, FS_RemoveElement
  <2>4. kept = ((1 .. n) \ {i}) \ {j}
    BY <1>1
  <2>5. i = j => kept = (1 .. n) \ {i}
    BY <2>4
  <2>6. Cardinality(kept) = n - 1 \/ i # j
    BY <2>2, <2>5
  <2>7. Cardinality(kept) = (n - 1) - 1 \/ i = j
    BY <2>3, <2>4
  <2> HIDE DEF i, j, n, kept
  <2>8. (n - 1) - 1 = n - 2
    BY <1>1
  <2> QED
    BY <2>5, <2>2, <2>6, <2>7, <2>8
<1>5. AverageOf(ns) = [sum |-> SumOver(ns, kept), count |-> Cardinality(kept)]
  BY <1>1 DEF AverageOf
<1>6. SumOver(ns, kept) \in Nat
  <2>1. PICK f : SumsTo(f, ns, kept) /\ SumOver(ns, kept) = f[n]
    BY SumCourse
  <2>2. f \in [0 .. n -> Nat] /\ n \in 0 .. n
    BY <1>1, <2>1 DEF SumsTo
  <2> QED
    BY <2>1, <2>2
<1>7. PICK s, c, v, w, t :
        /\ s = SumOver(ns, kept) /\ c = Cardinality(kept)
        /\ v = ns[i] /\ w = ns[j] /\ t = SumOf(ns)
  OBVIOUS
<1>8. /\ n \in Nat /\ n > 2 /\ s \in Nat /\ v \in Nat /\ w \in Nat
      /\ t = s + v + (IF i = j THEN 0 ELSE w)
      /\ c = IF i = j THEN n - 1 ELSE n - 2
  <2>1. n \in Nat /\ n > 2 /\ v \in Nat /\ w \in Nat
    BY <1>1, <1>2, <1>7
  <2> HIDE DEF n, i, j, kept
  <2> QED
    BY <1>3, <1>4, <1>6, <1>7, <2>1
<1> SUFFICES c > 0 /\ s * (n - 2) = (t - v - w) * c
  <2>1. AverageOf(ns).sum = s /\ AverageOf(ns).count = c
    BY <1>5, <1>7
  <2> QED
    BY <1>7, <2>1
<1>9. CASE i # j
  <2> HIDE DEF n, i, j
  <2>1. t - v - w = s /\ c = n - 2
    BY <1>8, <1>9
  <2> QED
    BY <1>8, <2>1
<1>10. CASE i = j
  <2>1. \A k \in 1 .. n : ns[k] = v
    BY <1>1, <1>2, <1>7, <1>10
  <2>2. t = n * v
    BY <1>7, <1>8, <2>1, SumOfEquals
  <2>3. v = w
    BY <1>7, <1>10
  <2> HIDE DEF n, i, j
  <2>4. s = n * v - v /\ c = n - 1 /\ t - v - w = n * v - v - v
    BY <1>8, <1>10, <2>2, <2>3
  <2>5. (n * v - v) * (n - 2) = (n * v - v - v) * (n - 1)
    BY <1>8
  <2> QED
    BY <1>8, <2>4, <2>5
<1> QED
  BY <1>9, <1>10

-----------------------------------------------------------------------------
(* The scan of a list of transfers.                                         *)

Scannable == Seq(Transfers \cup {Other})

\* The swaps between two neighbours of the first m instructions.
Swapped(l, i) == {l[i].kind, l[i + 1].kind} = {"SOL", "USD"} /\ IsSwapTransfer(l[i], l[i + 1])
SwapsTo(l, m) == {i \in 1 .. m - 1 : Swapped(l, i)}

\* What the scan remembers after m instructions: the last of them, or the first swap.
Remembers(l, m) ==
  IF m = 0 THEN ScanStart
  ELSE IF l[m].kind = "SOL" THEN Scan(m, 0, TRUE, FALSE)
  ELSE IF l[m].kind = "USD" THEN Scan(0, m, TRUE, FALSE)
  ELSE ScanStart

FoundAt(l, i) == IF l[i].kind = "USD"
                 THEN Scan(i + 1, i, TRUE, TRUE)
                 ELSE Scan(i, i + 1, TRUE, TRUE)

Scanned(l, m) == IF SwapsTo(l, m) = {} THEN Remembers(l, m) ELSE FoundAt(l, Min(SwapsTo(l, m)))

LEMMA FirstSwapStays ==
  ASSUME NEW l, NEW m \in Nat, SwapsTo(l, m) # {}
  PROVE  SwapsTo(l, m + 1) # {} /\ Min(SwapsTo(l, m + 1)) = Min(SwapsTo(l, m))
<1> DEFINE A == SwapsTo(l, m)
           B == SwapsTo(l, m + 1)
<1>1. A \in SUBSET Nat /\ B \in SUBSET Nat /\ A \subseteq B /\ \A i \in B : i \in A \/ i = m
  BY DEF SwapsTo
<1>2. \A i \in A : i < m
  BY DEF SwapsTo
<1>3. Min(A) \in A /\ \A x \in A : Min(A) <= x
  BY <1>1, LeastIsThere
<1>4. Min(B) \in B /\ \A x \in B : Min(B) <= x
  BY <1>1, LeastIsThere
<1> HIDE DEF A, B
<1>5. Min(B) <= Min(A) /\ Min(A) < m /\ Min(A) \in Nat /\ Min(B) \in Nat
  BY <1>1, <1>2, <1>3, <1>4
<1>6. Min(B) \in A
  BY <1>1, <1>4, <1>5
<1>7. Min(B) = Min(A)
  BY <1>3, <1>5, <1>6
<1> QED
  BY <1>1, <1>7 DEF A, B

\* One iteration of the loop.
LEMMA ScanStep ==
  ASSUME NEW l \in Scannable, NEW m \in Nat, m + 1 \in 1 .. Len(l)
  PROVE  Scanned(l, m + 1) = ScanOne(Scanned(l, m), l, m + 1)
<1> DEFINE k == m + 1
<1>1. /\ Len(l) \in Nat /\ l[k] \in Transfers \cup {Other}
      /\ m # 0 => l[m] \in Transfers \cup {Other}
  BY ElementOfSeq, LenProperties DEF Scannable
<1>2. l[k].kind \in {"SOL", "USD", "other"} /\ (m # 0 => l[m].kind \in {"SOL", "USD", "other"})
  BY <1>1 DEF Transfers, Other
<1>3. CASE SwapsTo(l, m) # {}
  <2>1. Scanned(l, k) = Scanned(l, m)
    BY <1>3, FirstSwapStays DEF Scanned
  <2>2. Scanned(l, m).swap
    BY <1>3 DEF Scanned, FoundAt, Scan
  <2> QED
    BY <2>1, <2>2 DEF ScanOne
<1>4. CASE SwapsTo(l, m) = {}
  <2>1. Scanned(l, m) = Remembers(l, m)
    BY <1>4 DEF Scanned
  <2>2. SwapsTo(l, k) = IF m # 0 /\ Swapped(l, m) THEN {m} ELSE {}
    BY <1>4 DEF SwapsTo
  <2>3. CASE m # 0 /\ Swapped(l, m)
    <3>1. Min({m}) = m
      BY DEF Min
    <3>2. Scanned(l, k) = FoundAt(l, m)
      BY <2>2, <2>3, <3>1 DEF Scanned
    <3>3. CASE l[m].kind = "USD"
      <4>1. l[k].kind = "SOL" /\ IsSwapTransfer(l[k], l[m])
        BY <1>2, <2>3, <3>3 DEF Swapped, IsSwapTransfer
      <4>2. Remembers(l, m) = Scan(0, m, TRUE, FALSE)
        BY <2>3, <3>3 DEF Remembers, Scan
      <4>3. ScanOne(Remembers(l, m), l, k) = Scan(k, m, TRUE, TRUE)
        BY <2>3, <4>1, <4>2 DEF ScanOne, Scan
      <4> QED
        BY <2>1, <3>2, <3>3, <4>3 DEF FoundAt, Scan
    <3>4. CASE l[m].kind # "USD"
      <4>1. l[m].kind = "SOL" /\ l[k].kind = "USD" /\ IsSwapTransfer(l[m], l[k])
        BY <1>2, <2>3, <3>4 DEF Swapped
      <4>2. Remembers(l, m) = Scan(m, 0, TRUE, FALSE)
        BY <2>3, <4>1 DEF Remembers, Scan
      <4>3. ScanOne(Remembers(l, m), l, k) = Scan(m, k, TRUE, TRUE)
        BY <2>3, <4>1, <4>2 DEF ScanOne, Scan
      <4> QED
        BY <2>1, <3>2, <3>4, <4>3 DEF FoundAt, Scan
    <3> QED
      BY <3>3, <3>4
  <2>4. CASE ~(m # 0 /\ Swapped(l, m))
    <3>1. Scanned(l, k) = Remembers(l, k)
      BY <2>2, <2>4 DEF Scanned
    <3>2. CASE l[k].kind = "SOL"
      <4>1. CASE m # 0 /\ l[m].kind = "USD"
        <5>1. Remembers(l, m) = Scan(0, m, TRUE, FALSE)
          BY <4>1 DEF Remembers, Scan
        <5>2. ~IsSwapTransfer(l[k], l[m])
          BY <2>4, <3>2, <4>1 DEF Swapped, IsSwapTransfer
        <5>3. ScanOne(Remembers(l, m), l, k) = Scan(k, 0, TRUE, FALSE)
          BY <3>2, <4>1, <5>1, <5>2 DEF ScanOne, Scan
        <5> QED
          BY <2>1, <3>1, <3>2, <5>3 DEF Remembers, Scan
      <4>2. CASE ~(m # 0 /\ l[m].kind = "USD")
        <5>1. \/ Remembers(l, m) = Scan(m, 0, TRUE, FALSE)
              \/ Remembers(l, m) = Scan(0, 0, FALSE, FALSE)
          BY <1>2, <4>2 DEF Remembers, ScanStart, Scan
        <5>2. ScanOne(Remembers(l, m), l, k) = Scan(k, 0, TRUE, FALSE)
          <6>1. CASE Remembers(l, m) = Scan(m, 0, TRUE, FALSE)
            BY <3>2, <6>1 DEF ScanOne, Scan
          <6>2. CASE Remembers(l, m) = Scan(0, 0, FALSE, FALSE)
            BY <3>2, <6>2 DEF ScanOne, Scan
          <6> QED
            BY <5>1, <6>1, <6>2
        <5> QED
          BY <2>1, <3>1, <3>2, <5>2 DEF Remembers, Scan
      <4> QED
        BY <4>1, <4>2
    <3>3. CASE l[k].kind = "USD"
      <4>1. CASE m # 0 /\ l[m].kind = "SOL"
        <5>1. Remembers(l, m) = Scan(m, 0, TRUE, FALSE)
          BY <4>1 DEF Remembers, Scan
        <5>2. ~IsSwapTransfer(l[m], l[k])
          BY <2>4, <3>3, <4>1 DEF Swapped
        <5>3. ScanOne(Remembers(l, m), l, k) = Scan(0, k, TRUE, FALSE)
          BY <3>3, <4>1, <5>1, <5>2 DEF ScanOne, Scan
        <5> QED
          BY <2>1, <3>1, <3>3, <5>3 DEF Remembers, Scan
      <4>2. CASE ~(m # 0 /\ l[m].kind = "SOL")
        <5>1. \/ Remembers(l, m) = Scan(0, m, TRUE, FALSE)
              \/ Remembers(l, m) = Scan(0, 0, FALSE, FALSE)
          BY <1>2, <4>2 DEF Remembers, ScanStart, Scan
        <5>2. ScanOne(Remembers(l, m), l, k) = Scan(0, k, TRUE, FALSE)
          <6>1. CASE Remembers(l, m) = Scan(0, m, TRUE, FALSE)
            BY <3>3, <6>1 DEF ScanOne, Scan
          <6>2. CASE Remembers(l, m) = Scan(0, 0, FALSE, FALSE)
            BY <3>3, <6>2 DEF ScanOne, Scan
          <6> QED
            BY <5>1, <6>1, <6>2
        <5> QED
          BY <2>1, <3>1, <3>3, <5>2 DEF Remembers, Scan
      <4> QED
        BY <4>1, <4>2
    <3>4. CASE l[k].kind = "other"
      <4>1. \E s, u, c : Remembers(l, m) = Scan(s, u, c, FALSE)
        BY DEF Remembers, ScanStart, Scan
      <4>2. ScanOne(Remembers(l, m), l, k) = ScanStart
        BY <3>4, <4>1 DEF ScanOne, Scan
      <4>3. Remembers(l, k) = ScanStart
        BY <3>4 DEF Remembers
      <4> QED
        BY <2>1, <3>1, <4>2, <4>3
    <3> QED
      BY <1>2, <3>2, <3>3, <3>4
  <2> QED
    BY <2>3, <2>4
<1> QED
  BY <1>3, <1>4

\* What the scan of a whole list ends with.
LEMMA ScanEnds ==
  ASSUME NEW l \in Scannable
  PROVE  LET end == Scanned(l, Len(l))
         IN PriceByTransfer(l) = IF end.sol # 0 /\ end.usd # 0 /\ end.connect
                                 THEN <<l[end.usd], l[end.sol]>> ELSE NoPrice
<1> DEFINE n == Len(l)
           Body(f) == [k \in 0 .. n |-> IF k = 0 THEN ScanStart ELSE ScanOne(f[k - 1], l, k)]
           scan == CHOOSE f : f = Body(f)
           f == [k \in 0 .. n |-> Scanned(l, k)]
<1>1. n \in Nat
  BY LenProperties DEF Scannable
<1>2. Scanned(l, 0) = ScanStart
  <2>1. SwapsTo(l, 0) = {}
    BY DEF SwapsTo
  <2> QED
    BY <2>1 DEF Scanned, Remembers
<1>3. \A k \in 1 .. n : Scanned(l, k) = ScanOne(Scanned(l, k - 1), l, k)
  <2> SUFFICES ASSUME NEW k \in 1 .. n PROVE Scanned(l, k) = ScanOne(Scanned(l, k - 1), l, k)
    OBVIOUS
  <2>1. PICK m \in Nat : k = m + 1 /\ k - 1 = m
    <3>1. k - 1 \in Nat /\ k = (k - 1) + 1
      BY <1>1
    <3> QED
      BY <3>1
  <2> QED
    BY <2>1, ScanStep
<1>4. f = Body(f)
  <2>1. ASSUME NEW k \in 0 .. n
        PROVE  Scanned(l, k) = IF k = 0 THEN ScanStart ELSE ScanOne(f[k - 1], l, k)
    <3>1. CASE k = 0
      BY <1>2, <3>1
    <3>2. CASE k # 0
      <4>1. k \in 1 .. n /\ k - 1 \in 0 .. n
        BY <1>1, <3>2
      <4>2. f[k - 1] = Scanned(l, k - 1)
        BY <4>1
      <4> QED
        BY <1>3, <3>2, <4>1, <4>2
    <3> QED
      BY <3>1, <3>2
  <2> QED
    BY <2>1
<1>5. scan = Body(scan)
  BY <1>4
<1>6. scan[n] = f[n]
  <2> DEFINE S == {m \in Nat : m <= n => scan[m] = f[m]}
  <2>1. /\ \A k \in 0 .. n : scan[k] = IF k = 0 THEN ScanStart ELSE ScanOne(scan[k - 1], l, k)
        /\ \A k \in 0 .. n : f[k] = IF k = 0 THEN ScanStart ELSE ScanOne(f[k - 1], l, k)
    BY <1>4, <1>5
  <2> HIDE DEF scan, f
  <2>2. 0 \in S
    BY <1>1, <2>1
  <2>3. \A m \in S : m + 1 \in S
    <3> SUFFICES ASSUME NEW m \in S, m + 1 <= n PROVE scan[m + 1] = f[m + 1]
      OBVIOUS
    <3>1. m \in Nat /\ scan[m] = f[m]
      BY <1>1
    <3>2. m + 1 \in 0 .. n /\ (m + 1) - 1 = m /\ m + 1 # 0
      BY <1>1, <3>1
    <3> QED
      BY <2>1, <3>1, <3>2
  <2>4. S = Nat
    <3> HIDE DEF S
    <3>1. S \in SUBSET Nat
      BY DEF S
    <3> QED
      BY <2>2, <2>3, <3>1, SetInduction
  <2>5. n \in S
    BY <1>1, <2>4
  <2> QED
    BY <1>1, <2>5
<1>7. scan[n] = Scanned(l, n)
  BY <1>1, <1>6
<1>8. PriceByTransfer(l) = IF scan[n].sol # 0 /\ scan[n].usd # 0 /\ scan[n].connect
                           THEN <<l[scan[n].usd], l[scan[n].sol]>> ELSE NoPrice
  BY DEF PriceByTransfer
<1> HIDE DEF scan
<1> QED
  BY <1>7, <1>8

\* The price of a list: that of its first swap.
LEMMA FirstSwap ==
  ASSUME NEW l \in Scannable
  PROVE  LET first == Min(SwapsTo(l, Len(l)))
         IN PriceByTransfer(l) = IF SwapsTo(l, Len(l)) = {} THEN NoPrice
                                 ELSE IF l[first].kind = "USD"
                                 THEN <<l[first], l[first + 1]>>
                                 ELSE <<l[first + 1], l[first]>>
<1> DEFINE n == Len(l)
           first == Min(SwapsTo(l, n))
<1>1. n \in Nat
  BY LenProperties DEF Scannable
<1>2. CASE SwapsTo(l, n) = {}
  <2>1. Scanned(l, n) = Remembers(l, n)
    BY <1>2 DEF Scanned
  <2>2. Remembers(l, n).sol = 0 \/ Remembers(l, n).usd = 0
    BY DEF Remembers, ScanStart, Scan
  <2> QED
    BY <1>2, <2>1, <2>2, ScanEnds
<1>3. CASE SwapsTo(l, n) # {}
  <2>1. first \in Nat /\ first # 0 /\ first + 1 # 0
    <3>1. SwapsTo(l, n) \in SUBSET Nat
      BY DEF SwapsTo
    <3>2. first \in SwapsTo(l, n)
      BY <1>3, <3>1, LeastIsThere
    <3> QED
      BY <3>2 DEF SwapsTo
  <2>2. Scanned(l, n) = FoundAt(l, first)
    BY <1>3 DEF Scanned
  <2> HIDE DEF first
  <2>3. CASE l[first].kind = "USD"
    <3>1. Scanned(l, n) = Scan(first + 1, first, TRUE, TRUE)
      BY <2>2, <2>3 DEF FoundAt
    <3>2. PriceByTransfer(l) = <<l[first], l[first + 1]>>
      BY <2>1, <3>1, ScanEnds DEF Scan
    <3> QED
      BY <1>3, <2>3, <3>2 DEF first
  <2>4. CASE l[first].kind # "USD"
    <3>1. Scanned(l, n) = Scan(first, first + 1, TRUE, TRUE)
      BY <2>2, <2>4 DEF FoundAt
    <3>2. PriceByTransfer(l) = <<l[first + 1], l[first]>>
      BY <2>1, <3>1, ScanEnds DEF Scan
    <3> QED
      BY <1>3, <2>4, <3>2 DEF first
  <2> QED
    BY <2>3, <2>4
<1> QED
  BY <1>2, <1>3

-----------------------------------------------------------------------------
(* The evaluation.                                                          *)

\* What is evaluated, and what it gives.
MathInv ==
  /\ nums \in Seq(Nat) /\ list \in Scannable
  /\ done => average = AverageOf(nums) /\ price = PriceByTransfer(list)

LEMMA MathInvariant == MathSpec => []MathInv
<1>1. MathInit => MathInv
  <2> SUFFICES ASSUME MathInit PROVE MathInv
    OBVIOUS
  <2>1. \A set, m : BoundedSeq(set, m) \subseteq Seq(set)
    BY DEF BoundedSeq, SeqOf
  <2>2. <<>> \in Seq(Nat) /\ <<>> \in Scannable
    BY DEF Scannable
  <2>3. nums \in Seq(Nat)
    <3>1. Seq(Values) \subseteq Seq(Nat)
      <4> SUFFICES ASSUME NEW s \in Seq(Values) PROVE s \in Seq(Nat)
        OBVIOUS
      <4> QED
        BY SeqMonotonic, PriceMathAssumption
    <3> QED
      BY <2>1, <2>2, <3>1 DEF MathInit
  <2>4. list \in Scannable
    BY <2>1, <2>2 DEF MathInit, Scannable
  <2>5. ~done
    BY DEF MathInit
  <2> QED
    BY <2>3, <2>4, <2>5 DEF MathInv
<1>2. MathInv /\ [Evaluate]_mathVars => MathInv'
  <2> SUFFICES ASSUME MathInv, [Evaluate]_mathVars PROVE MathInv'
    OBVIOUS
  <2>1. CASE Evaluate
    BY <2>1 DEF MathInv, Evaluate
  <2>2. CASE UNCHANGED mathVars
    BY <2>2 DEF MathInv, mathVars
  <2> QED
    BY <2>1, <2>2
<1> QED
  BY <1>1, <1>2, PTL DEF MathSpec

\* The mean of three or more prices is that of the list without one lowest and
\* one highest, for a list of prices of any length (util.go 19-43).
THEOREM MeanTheorem == MathSpec => []AverageIsTrimmedMean
<1>1. MathInv => AverageIsTrimmedMean
  BY TrimmedMean DEF MathInv, AverageIsTrimmedMean
<1> QED
  BY <1>1, MathInvariant, PTL

\* The price is that of the first two neighbours that swap SOL for USD, for a
\* list of instructions of any length between any owners (price.go 154-210).
THEOREM FirstSwapTheorem == MathSpec => []PriceIsFirstSwap
<1>1. MathInv => PriceIsFirstSwap
  <2> SUFFICES ASSUME list \in Scannable, done, price = PriceByTransfer(list)
               PROVE  PriceIsFirstSwap
    BY DEF MathInv, PriceIsFirstSwap
  <2>1. Min(SwapsTo(list, Len(list)))
          = CHOOSE i \in SwapsTo(list, Len(list)) : \A j \in SwapsTo(list, Len(list)) : i <= j
    BY DEF Min
  <2> QED
    BY <2>1, FirstSwap DEF PriceIsFirstSwap, SwapsTo, Swapped
<1> QED
  BY <1>1, MathInvariant, PTL
=============================================================================
