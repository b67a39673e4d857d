---------------------------- MODULE EscrowStatus ----------------------------
(***************************************************************************)
(* The escrow status graph of modules/open-settlement/escrow-lifecycle.ts. *)
(* Every writer of Escrow.status - a request handler, a sweep, the         *)
(* reconciler - checks a pair of this table and then moves the row with a  *)
(* compare-and-set on the status it read.                                  *)
(***************************************************************************)

Statuses == {"CREATED", "FUNDS_LOCKED", "PAYMENT_PENDING", "COMPLETED",
             "DISPUTED", "REFUNDED", "SPLIT", "EXPIRED"}

\* The statuses in which the money has been disposed of.
TerminalStatuses == {"COMPLETED", "REFUNDED", "SPLIT"}

VALID_TRANSITIONS ==
  [s \in Statuses |->
     CASE s = "CREATED"         -> {"FUNDS_LOCKED", "REFUNDED"}
       [] s = "FUNDS_LOCKED"    -> {"PAYMENT_PENDING", "DISPUTED", "REFUNDED", "EXPIRED"}
       [] s = "PAYMENT_PENDING" -> {"COMPLETED", "DISPUTED"}
       [] s = "DISPUTED"        -> {"COMPLETED", "REFUNDED", "SPLIT"}
       [] s = "EXPIRED"         -> {"DISPUTED", "REFUNDED"}
       [] OTHER                 -> {}]

=============================================================================
