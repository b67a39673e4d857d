--------------------------- MODULE MCWdkTransfer ----------------------------
(***************************************************************************)
(* WdkTransfer on small instances.                                         *)
(***************************************************************************)
EXTENDS WdkTransfer, TLC


=============================================================================
