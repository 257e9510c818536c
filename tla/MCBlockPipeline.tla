-------------------------- MODULE MCBlockPipeline --------------------------
(* Small instances of BlockPipeline for TLC: one slot, which the feed repeats. *)
EXTENDS BlockPipeline

CONSTANTS r1, f1

MCOneSlot   == {1}
MCAllFaults == AllFaults
=============================================================================
