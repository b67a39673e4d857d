------------------------- MODULE MCTradeProjection -------------------------
(***************************************************************************)
(* Finite instances of TradeProjection.                                    *)
(***************************************************************************)
EXTENDS TradeProjection, TLC

InstanceSymmetry == Permutations(Instances)

=============================================================================
