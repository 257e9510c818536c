------------------------------- MODULE MCData -------------------------------
(* Instances of SolPrice, PriceMath, IdlWire and Token2022Builder for TLC: the *)
(* price that a block has and the messages that tell what is in it.  The four  *)
(* share nothing: a behaviour is one of the price table, where every slot's    *)
(* parent is the slot before it, one evaluation, one of the wire, or one of a  *)
(* builder.                                                                    *)
EXTENDS SolPrice, PriceMath, IdlWire, Token2022Builder, TLC

CONSTANTS w1, w2

MCParent   == [s \in Slots |-> s - 1]
MCSymmetry == Permutations(PriceWorkers)

NoInput == nums = <<>> /\ list = <<>> /\ tx = NoTx
NoBuild == inst = NoInst
NoWire  == msg = NoMessage

MCDataInit == PriceInit /\ MathInit /\ WireInit /\ BuilderInit

MCDataNext ==
  \/ ~NoInput /\ Evaluate /\ UNCHANGED <<priceVars, wireVars, builderVars>>
  \/ NoInput /\ NoBuild /\ NoWire /\ PriceNext /\ UNCHANGED <<mathVars, wireVars, builderVars>>
  \/ NoInput /\ PriceInit /\ NoBuild /\ WireNext /\ UNCHANGED <<priceVars, mathVars, builderVars>>
  \/ NoInput /\ PriceInit /\ NoWire /\ BuilderNext /\ UNCHANGED <<priceVars, mathVars, wireVars>>

MCDataSpec == MCDataInit /\ [][MCDataNext]_<<priceVars, mathVars, wireVars, builderVars>>
=============================================================================
