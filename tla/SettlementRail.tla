--------------------------- MODULE SettlementRail ---------------------------
(***************************************************************************)
(* What a direct-call settlement provider promises to escrow.service.ts:   *)
(* one durable attempt per logical operation of an escrow, carried to the  *)
(* chain at most once.  WdkTransfer.tla shows the WDK provider's code      *)
(* implements this module.                                                 *)
(*                                                                         *)
(* attempt[o] is the durable record of operation o: "unknown" is written   *)
(* before the chain is asked for anything, "submitted" once a transaction  *)
(* hash is known, "confirmed" once a good receipt was read.  landed is the *)
(* chain: the operations whose transfer really happened.                   *)
(***************************************************************************)

CONSTANT Operations

VARIABLES attempt, landed

railVars == <<attempt, landed>>

AttemptStates == {"none", "unknown", "submitted", "confirmed"}

RailTypeOK ==
  /\ attempt \in [Operations -> AttemptStates]
  /\ landed \subseteq Operations

RailInit ==
  /\ attempt = [o \in Operations |-> "none"]
  /\ landed = {}

\* The two legs of a split draw on disjoint shares of the locked amount; every
\* other outgoing transfer draws on all of it.
Competes(o) ==
  IF o \in {"SPLIT_BUYER", "SPLIT_SELLER"}
  THEN {"RELEASE", "REFUND"}
  ELSE {"RELEASE", "REFUND", "SPLIT_BUYER", "SPLIT_SELLER"}

\* The treasury funds LOCK; an outgoing transfer can only take what LOCK put
\* into the escrow's account and no other disposition has taken.
Payable(o) ==
  \/ o = "LOCK"
  \/ /\ "LOCK" \in landed
     /\ landed \cap Competes(o) = {}

\* A call that finds no live attempt, or one whose transfer reverted, writes
\* "unknown" and hands the transfer to the wallet.
RailSubmit(o) ==
  /\ \/ attempt[o] = "none"
     \/ attempt[o] = "submitted" /\ o \notin landed
  /\ attempt' = [attempt EXCEPT ![o] = "unknown"]
  /\ UNCHANGED landed

\* A call, or a retry, that reads a good receipt.
RailConfirm(o) ==
  /\ attempt[o] \in {"unknown", "submitted"}
  /\ o \in landed
  /\ attempt' = [attempt EXCEPT ![o] = "confirmed"]
  /\ UNCHANGED landed

\* A call that learnt the hash but saw no receipt within its bounded wait.
RailPending(o) ==
  /\ attempt[o] = "unknown"
  /\ attempt' = [attempt EXCEPT ![o] = "submitted"]
  /\ UNCHANGED landed

\* A call that read a failed receipt.
RailReverted(o) ==
  /\ attempt[o] \in {"unknown", "submitted"}
  /\ o \notin landed
  /\ attempt' = [attempt EXCEPT ![o] = "none"]
  /\ UNCHANGED landed

\* The chain executes a transfer that was handed to it.
RailLand(o) ==
  /\ attempt[o] \in {"unknown", "submitted"}
  /\ o \notin landed
  /\ Payable(o)
  /\ landed' = landed \cup {o}
  /\ UNCHANGED attempt

RailNext ==
  \E o \in Operations :
     RailSubmit(o) \/ RailConfirm(o) \/ RailPending(o) \/ RailReverted(o) \/ RailLand(o)

RailSpec == RailInit /\ [][RailNext]_railVars

=============================================================================
