--------------------------- MODULE MCDisputeRecord --------------------------
(* TLC instances of DisputeRecord. *)
EXTENDS DisputeRecord, TLC

CallSymmetry == Permutations(Calls)
=============================================================================
