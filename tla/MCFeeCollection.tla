--------------------------- MODULE MCFeeCollection --------------------------
(* TLC instances of FeeCollection. *)
EXTENDS FeeCollection

\* p1 shares the fee between two recipients, p2 gives it to one of them.
MCPayees == [p \in Policies |-> IF p = "p1" THEN <<"r1", "r2">> ELSE <<"r2">>]
=============================================================================
