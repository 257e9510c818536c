----------------------------- MODULE MCPairStore ----------------------------
(***************************************************************************)
(* Instances of PairStore for TLC: two pools of one token, as the pools    *)
(* against wrapped SOL are; slot 1 trades in both, slot 2 in the first.    *)
(***************************************************************************)
EXTENDS PairStore, TLC

CONSTANTS tok, w1, w2, p1, p2

MCTokenOf  == [p \in Pairs |-> tok]
MCPairsOf  == [s \in Slots |-> IF s = 1 THEN Pairs ELSE {p1}]
MCSymmetry == Permutations(Workers)
=============================================================================
