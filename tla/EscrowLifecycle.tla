-------------------------- MODULE EscrowLifecycle ---------------------------
(***************************************************************************)
(* What the escrow service promises about Escrow.status, whatever runs     *)
(* concurrently: the status only moves along VALID_TRANSITIONS, and the    *)
(* only way back is that a claim whose work failed is undone by the        *)
(* request that made it, while the escrow still shows that claim.          *)
(***************************************************************************)
EXTENDS EscrowStatus

VARIABLES
  st,   \* the status
  held  \* the <<from, to>> claims whose requests may still undo them

lifecycleVars == <<st, held>>

LifecycleInit ==
  /\ st = "CREATED"
  /\ held = {}

\* A claim wins; a claim that runs the provider stays undoable for a while.
Move ==
  \E to \in VALID_TRANSITIONS[st] :
     /\ st' = to
     /\ \/ held' = held \cup {<<st, to>>}
        \/ held' = held

\* A failed request hands its claim back; without it the status stands.
Undo ==
  \E h \in held :
     /\ st = h[2]
     /\ st' = h[1]
     /\ held' = held \ {h}

\* A request finishes, crashes or fails to undo: its claim stands for good.
Settle ==
  \E h \in held :
     /\ held' = held \ {h}
     /\ UNCHANGED st

LifecycleNext == Move \/ Undo \/ Settle

LifecycleSpec == LifecycleInit /\ [][LifecycleNext]_lifecycleVars

=============================================================================
