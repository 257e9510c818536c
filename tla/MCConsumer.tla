----------------------------- MODULE MCConsumer -----------------------------
(***************************************************************************)
(* An instance of Consumer for TLC: a block that swaps SOL and a later one *)
(* that does not, whose parent is between them, so that its price depends  *)
(* on whether the row of the first is there; the later one trades a pair.  *)
(***************************************************************************)
EXTENDS Consumer

CONSTANTS r1, tok, p1

MCSlots   == {1, 3}
MCParent  == [s \in Slots |-> s - 1]
MCTokenOf == [p \in Pairs |-> tok]
MCPairsOf == [s \in Slots |-> IF s \in Swapping THEN {} ELSE Pairs]

\* The state without two histories, which no guard and none of the invariants
\* that are checked here reads.
MCView == <<dbVars, realtimeChannel, errChannel, readerVars, recVars, workerVars,
            ctxVars, swallowed, priceVars, storeVars>>
=============================================================================
