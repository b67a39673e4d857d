----------------------- MODULE MCSignatureCollection -----------------------
(***************************************************************************)
(* Finite instances of SignatureCollection.                                *)
(***************************************************************************)
EXTENDS SignatureCollection, TLC

RequestSymmetry == Permutations(Requests)

OneArbiter == <<"arbiter">>
TwoPanels == <<"arbiter", "panel">>

=============================================================================
