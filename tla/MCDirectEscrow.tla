--------------------------- MODULE MCDirectEscrow ---------------------------
(***************************************************************************)
(* DirectEscrow with two request slots.  The slots are interchangeable and *)
(* no property names one, so permuting them is sound.                      *)
(***************************************************************************)
EXTENDS DirectEscrow, TLC

SlotSymmetry == Permutations(Requests)

=============================================================================
