---------------------------- MODULE FeeCollection ---------------------------
(***************************************************************************)
(* Collecting the protocol fee of one MULTISIG settlement, and sharing it: *)
(* the FeeObligation row and its append-only evidence (fee-collection-     *)
(* recognition.service.ts), the two sweeps that follow the fee output on   *)
(* chain (multisig-fee-confirmation-job.ts, multisig-fee-reorg-sweep.ts)   *)
(* and the entitlement ledger (entitlement-allocation.service.ts).         *)
(*                                                                         *)
(* One transaction bears the fee.  A generation of the ledger is named by  *)
(* the position of its CONFIRMED row in the evidence.  Every await of a    *)
(* caller is a step; what a database transaction writes is one step.       *)
(***************************************************************************)
EXTENDS Naturals, Sequences, FiniteSets, FiniteSetsExt

CONSTANTS
  Settlers,    \* who finalizes the settlement: the last signer, the reconciler
  Confirmers,  \* runs of the confirmation sweep
  Reorgers,    \* runs of the reorg sweep
  Allocators,  \* callers of allocate()
  Reversers,   \* callers of reverseGeneration()
  Policies,    \* distribution policies, all drafts at first
  Payees,      \* Payees[p]: the recipients of policy p, in row order
  Required,    \* requiredConfirmations of the fee policy
  Window,      \* multisigReorgSafetyWindowBlocks
  MaxTip,      \* bound: height of the chain
  MaxDepth,    \* bound: blocks a reorganization replaces
  MaxReorgs,   \* bound: reorganizations
  MaxFaults    \* bound: deaths of a process and calls that reject

Recipients == UNION {{Payees[p][i] : i \in DOMAIN Payees[p]} : p \in Policies}

ASSUME FeeAssumption ==
  /\ Required \in Nat \ {0} /\ Window \in Nat /\ MaxTip \in Nat \ {0}
  /\ MaxDepth \in Nat /\ MaxReorgs \in Nat /\ MaxFaults \in Nat
  /\ DOMAIN Payees = Policies
  /\ \A p \in Policies : Payees[p] \in Seq(Recipients) \ {<<>>}

VARIABLES
  status,    \* collectionStatus of the obligation; NONE before it exists
  evidence,  \* FeeCollectionEvidence, in the order it was recorded
  ledger,    \* EntitlementLedgerEntry rows: <<generation, recipient, kind>>
  policy,    \* status of every distribution policy
  tip,       \* height of the best chain
  mined,     \* height of the block that holds the transaction, 0 when in none
  reorgs,
  job,       \* what every caller is doing
  faults

vars == <<status, evidence, ledger, policy, tip, mined, reorgs, job, faults>>
chainVars == <<tip, mined, reorgs>>
ledgerVars == <<ledger, policy>>

None == "none"
Callers == Settlers \cup Confirmers \cup Reorgers \cup Allocators \cup Reversers
CollectionStatuses == {"NONE", "PENDING_COLLECTION", "IN_PROGRESS", "COLLECTED"}
PCs == {"idle", "done", "broadcast", "advance", "status", "tip", "assert", "policy", "confirm",
        "depth", "recheck", "read", "reorged", "revert", "allocate", "reverse"}

Row(kind, height, frozen) == [kind |-> kind, height |-> height, policy |-> frozen]
Generations == {i \in DOMAIN evidence : evidence[i].kind = "CONFIRMED"}

\* at: the height the chain source answered; saw: the status or policy read;
\* gen, todo: the generation being reversed and its entries still to do.
Idle == [pc |-> "idle", at |-> 0, saw |-> None, gen |-> 0, todo |-> <<>>]
At(c, pc) == job[c].pc = pc
Goto(c, pc) == job' = [job EXCEPT ![c].pc = pc]
Learn(c, pc, height) == job' = [job EXCEPT ![c].pc = pc, ![c].at = height]
Recall(c, pc, what) == job' = [job EXCEPT ![c].pc = pc, ![c].saw = what]
End(c) == job' = [job EXCEPT ![c] = Idle]
Finish(c) == job' = [job EXCEPT ![c] = [Idle EXCEPT !.pc = "done"]]

\* The settlement transaction has been broadcast.
Init ==
  /\ status = "NONE"
  /\ evidence = <<>> /\ ledger = {}
  /\ policy = [p \in Policies |-> "DRAFT"]
  /\ tip = 1 /\ mined = 0 /\ reorgs = 0
  /\ job = [c \in Callers |-> Idle]
  /\ faults = 0

-----------------------------------------------------------------------------
(* The chain. *)

Mine ==
  /\ tip < MaxTip
  /\ tip' = tip + 1
  /\ mined' \in IF mined = 0 THEN {0, tip + 1} ELSE {mined}
  /\ UNCHANGED <<status, evidence, ledgerVars, reorgs, job, faults>>

\* d blocks are replaced by d + 1; a transaction in one of them goes back to
\* the mempool or is mined again in one of the new ones.
Reorganize(d) ==
  /\ reorgs < MaxReorgs /\ d < tip /\ tip < MaxTip
  /\ reorgs' = reorgs + 1
  /\ tip' = tip + 1
  /\ mined' \in IF mined > tip - d THEN {0} \cup (tip - d + 1 .. tip + 1) ELSE {mined}
  /\ UNCHANGED <<status, evidence, ledgerVars, job, faults>>

-----------------------------------------------------------------------------
(* After the broadcast: the last signer, or the reconciler that finishes   *)
(* for it.  Both may run.                                                  *)

\* recordObligationForEscrowSettlement(): the row is created at most once.
RecordObligation(s) ==
  /\ At(s, "idle")
  /\ status' = IF status = "NONE" THEN "PENDING_COLLECTION" ELSE status
  /\ Goto(s, "broadcast")
  /\ UNCHANGED <<evidence, ledgerVars, chainVars, faults>>

\* recordBroadcastAndAdvance(): evidence first ...
RecordBroadcast(s) ==
  /\ At(s, "broadcast")
  /\ evidence' = Append(evidence, Row("BROADCAST", 0, None))
  /\ Goto(s, "advance")
  /\ UNCHANGED <<status, ledgerVars, chainVars, faults>>

\* ... then the conditional transition; a lost one is only logged.
Advance(s) ==
  /\ At(s, "advance")
  /\ status' = IF status = "PENDING_COLLECTION" THEN "IN_PROGRESS" ELSE status
  /\ Finish(s)
  /\ UNCHANGED <<evidence, ledgerVars, chainVars, faults>>

-----------------------------------------------------------------------------
(* sweepMultisigFeeConfirmations() and recognizeConfirmation(). *)

FindInProgress(c) ==
  /\ At(c, "idle")
  /\ status = "IN_PROGRESS"
  /\ Goto(c, "status")
  /\ UNCHANGED <<status, evidence, ledgerVars, chainVars, faults>>

FetchStatus(c) ==
  /\ At(c, "status")
  /\ IF mined = 0 THEN End(c) ELSE Learn(c, "tip", mined)
  /\ UNCHANGED <<status, evidence, ledgerVars, chainVars, faults>>

\* The tip is fetched apart, and the outputs are the transaction's own
\* wherever it is mined.
FetchTipShort(c) ==
  /\ At(c, "tip")
  /\ IF tip < job[c].at + Required THEN End(c) ELSE Goto(c, "assert")
  /\ UNCHANGED <<status, evidence, ledgerVars, chainVars, faults>>

FetchTip(c) ==
  /\ At(c, "tip")
  /\ IF tip + 1 < job[c].at + Required THEN End(c) ELSE Goto(c, "assert")
  /\ UNCHANGED <<status, evidence, ledgerVars, chainVars, faults>>

AssertInProgress(c) ==
  /\ At(c, "assert")
  /\ IF status = "IN_PROGRESS" THEN Goto(c, "policy") ELSE End(c)
  /\ UNCHANGED <<status, evidence, ledgerVars, chainVars, faults>>

\* findLivePolicy(): at most one policy is PUBLISHED.
LivePolicy ==
  IF \E p \in Policies : policy[p] = "PUBLISHED"
  THEN CHOOSE p \in Policies : policy[p] = "PUBLISHED"
  ELSE None

ReadLivePolicy(c) ==
  /\ At(c, "policy")
  /\ Recall(c, "confirm", LivePolicy)
  /\ UNCHANGED <<status, evidence, ledgerVars, chainVars, faults>>

\* One transaction: the CONFIRMED row with its frozen policy, and the
\* conditional transition whose loss rolls the row back.
ConfirmApart(c) ==
  /\ At(c, "confirm")
  /\ evidence' = Append(evidence, Row("CONFIRMED", job[c].at, job[c].saw))
  /\ status' = IF status = "IN_PROGRESS" THEN "COLLECTED" ELSE status
  /\ End(c)
  /\ UNCHANGED <<ledgerVars, chainVars, faults>>

Confirm(c) ==
  /\ At(c, "confirm")
  /\ IF status = "IN_PROGRESS"
     THEN /\ evidence' = Append(evidence, Row("CONFIRMED", job[c].at, job[c].saw))
          /\ status' = "COLLECTED"
     ELSE UNCHANGED <<evidence, status>>
  /\ End(c)
  /\ UNCHANGED <<ledgerVars, chainVars, faults>>

-----------------------------------------------------------------------------
(* sweepMultisigFeeReorgs() and recordReorgAndRevert(). *)

FindCollected(r) ==
  /\ At(r, "idle")
  /\ status = "COLLECTED"
  /\ Goto(r, "depth")
  /\ UNCHANGED <<status, evidence, ledgerVars, chainVars, faults>>

\* The tip is fetched once, before the evidence is read.
FetchSweepTip(r) ==
  /\ At(r, "depth")
  /\ Learn(r, "recheck", tip)
  /\ UNCHANGED <<status, evidence, ledgerVars, chainVars, faults>>

\* Buried deeper than the window, or still mined: nothing to do.
RecheckShort(r) ==
  /\ At(r, "recheck")
  /\ IF job[r].at + 1 >= evidence[Max(Generations)].height + Window \/ mined # 0
     THEN End(r)
     ELSE Goto(r, "read")
  /\ UNCHANGED <<status, evidence, ledgerVars, chainVars, faults>>

Recheck(r) ==
  /\ At(r, "recheck")
  /\ IF job[r].at + 1 > evidence[Max(Generations)].height + Window \/ mined # 0
     THEN End(r)
     ELSE Goto(r, "read")
  /\ UNCHANGED <<status, evidence, ledgerVars, chainVars, faults>>

ReadObligation(r) ==
  /\ At(r, "read")
  /\ Recall(r, "reorged", status)
  /\ UNCHANGED <<status, evidence, ledgerVars, chainVars, faults>>

RevertUnrecorded(r) ==
  /\ At(r, "reorged")
  /\ status' = IF status = "COLLECTED" THEN "IN_PROGRESS" ELSE status
  /\ End(r)
  /\ UNCHANGED <<evidence, ledgerVars, chainVars, faults>>

RecordReorg(r) ==
  /\ At(r, "reorged")
  /\ evidence' = Append(evidence, Row("REORGED_OUT", 0, None))
  /\ IF job[r].saw = "COLLECTED" THEN Goto(r, "revert") ELSE End(r)
  /\ UNCHANGED <<status, ledgerVars, chainVars, faults>>

Revert(r) ==
  /\ At(r, "revert")
  /\ status' = IF status = "COLLECTED" THEN "IN_PROGRESS" ELSE status
  /\ End(r)
  /\ UNCHANGED <<evidence, ledgerVars, chainVars, faults>>

-----------------------------------------------------------------------------
(* Distribution policies and the entitlement ledger. *)

\* A unique index admits one PUBLISHED policy.
PublishPolicy(p) ==
  /\ policy[p] = "DRAFT"
  /\ \A q \in Policies : policy[q] # "PUBLISHED"
  /\ policy' = [policy EXCEPT ![p] = "PUBLISHED"]
  /\ UNCHANGED <<status, evidence, ledger, chainVars, job, faults>>

RetirePolicy(p) ==
  /\ policy[p] = "PUBLISHED"
  /\ policy' = [policy EXCEPT ![p] = "RETIRED"]
  /\ UNCHANGED <<status, evidence, ledger, chainVars, job, faults>>

\* allocate(): one transaction, but its two reads see what is committed at
\* the time of each.
BeginAllocate(a) ==
  /\ At(a, "idle")
  /\ status = "COLLECTED"
  /\ Goto(a, "allocate")
  /\ UNCHANGED <<status, evidence, ledgerVars, chainVars, faults>>

EntriesOf(g, p, kind) == {<<g, Payees[p][i], kind>> : i \in DOMAIN Payees[p]}

\* The last CONFIRMED row carries the policy; the unique key refuses a
\* generation that has entries.
AllocateLive(a) ==
  LET g == Max(Generations) IN
  /\ At(a, "allocate")
  /\ ledger' = IF LivePolicy = None THEN ledger
               ELSE ledger \cup EntriesOf(g, LivePolicy, "ALLOCATION")
  /\ End(a)
  /\ UNCHANGED <<status, evidence, policy, chainVars, faults>>

Allocate(a) ==
  LET g == Max(Generations)
      frozen == evidence[g].policy
  IN  /\ At(a, "allocate")
      /\ ledger' = IF frozen = None \/ \E e \in ledger : e[1] = g
                   THEN ledger
                   ELSE ledger \cup EntriesOf(g, frozen, "ALLOCATION")
      /\ End(a)
      /\ UNCHANGED <<status, evidence, policy, chainVars, faults>>

Unreversed(g) ==
  {r \in Recipients : <<g, r, "ALLOCATION">> \in ledger /\ <<g, r, "REVERSAL">> \notin ledger}

\* distribution-reconciliation.ts, check (7).
FindReorgedNotReversed ==
  {g \in Generations : /\ Unreversed(g) # {}
                       /\ \E k \in DOMAIN evidence : k > g /\ evidence[k].kind = "REORGED_OUT"}

\* reverseGeneration(), called for a generation that is reported: it lists
\* the ALLOCATION entries, reversed ones included ...
BeginReverse(v, g) ==
  /\ At(v, "idle")
  /\ g \in FindReorgedNotReversed
  /\ job' = [job EXCEPT ![v].pc = "reverse", ![v].gen = g,
                         ![v].todo = Payees[evidence[g].policy]]
  /\ UNCHANGED <<status, evidence, ledgerVars, chainVars, faults>>

\* ... and reverses one after the other, each in its own transaction; the
\* unique key refuses a second reversal, which ends the call.
ReverseEntry(v) ==
  LET e == <<job[v].gen, Head(job[v].todo), "REVERSAL">>
      rest == Tail(job[v].todo)
  IN  /\ At(v, "reverse")
      /\ ledger' = ledger \cup {e}
      /\ IF e \in ledger \/ rest = <<>>
         THEN End(v)
         ELSE job' = [job EXCEPT ![v].todo = rest]
      /\ UNCHANGED <<status, evidence, policy, chainVars, faults>>

-----------------------------------------------------------------------------
\* A process dies or a call rejects.  A settlement whose bookkeeping was
\* rejected is not taken up again; one whose process died is.
Fault(c) ==
  /\ faults < MaxFaults
  /\ job[c].pc \notin {"idle", "done"}
  /\ faults' = faults + 1
  /\ End(c) \/ (c \in Settlers /\ Finish(c))
  /\ UNCHANGED <<status, evidence, ledgerVars, chainVars>>

Settle(s) == RecordObligation(s) \/ RecordBroadcast(s) \/ Advance(s)

SweepConfirmations(c) ==
  \/ FindInProgress(c) \/ FetchStatus(c) \/ FetchTip(c)
  \/ AssertInProgress(c) \/ ReadLivePolicy(c) \/ Confirm(c)

SweepReorgs(r) ==
  \/ FindCollected(r) \/ FetchSweepTip(r) \/ Recheck(r)
  \/ ReadObligation(r) \/ RecordReorg(r) \/ Revert(r)

Reverse(v) == ReverseEntry(v) \/ \E g \in Generations : BeginReverse(v, g)

Next ==
  \/ Mine
  \/ \E d \in 1..MaxDepth : Reorganize(d)
  \/ \E s \in Settlers : Settle(s)
  \/ \E c \in Confirmers : SweepConfirmations(c)
  \/ \E r \in Reorgers : SweepReorgs(r)
  \/ \E p \in Policies : PublishPolicy(p) \/ RetirePolicy(p)
  \/ \E a \in Allocators : BeginAllocate(a) \/ Allocate(a)
  \/ \E v \in Reversers : Reverse(v)
  \/ \E c \in Callers : Fault(c)

Spec == Init /\ [][Next]_vars

\* Timers start the sweeps again and again; an operator who is shown a
\* generation to reverse has it reversed.
Fairness ==
  /\ \A c \in Confirmers : WF_vars(SweepConfirmations(c))
  /\ \A r \in Reorgers : WF_vars(SweepReorgs(r))
  /\ \A v \in Reversers : WF_vars(Reverse(v))

FairSpec == Spec /\ Fairness

-----------------------------------------------------------------------------
(* Properties. *)

JobOK(j) ==
  /\ j.pc \in PCs /\ j.at \in 0..MaxTip
  /\ j.saw \in CollectionStatuses \cup Policies \cup {None}
  /\ j.gen \in {0} \cup Generations
  /\ \A i \in DOMAIN j.todo : j.todo[i] \in Recipients

\* The rows have their columns' types, a ledger entry names a generation, and
\* an obligation that is COLLECTED has a CONFIRMED row: allocate() and the
\* reorg sweep call the opposite structurally impossible.
TypeOK ==
  /\ status \in CollectionStatuses
  /\ \A i \in DOMAIN evidence :
       /\ evidence[i].kind \in {"BROADCAST", "CONFIRMED", "REORGED_OUT"}
       /\ evidence[i].height \in 0..MaxTip
       /\ evidence[i].policy \in Policies \cup {None}
  /\ ledger \subseteq Generations \X Recipients \X {"ALLOCATION", "REVERSAL"}
  /\ policy \in [Policies -> {"DRAFT", "PUBLISHED", "RETIRED"}]
  /\ tip \in 1..MaxTip /\ mined \in 0..tip /\ reorgs \in 0..MaxReorgs
  /\ \A c \in Callers : JobOK(job[c])
  /\ faults \in 0..MaxFaults
  /\ status = "COLLECTED" => Generations # {}

\* What the ledger credits is the revenue collected now, or the reconciliation
\* report shows that it has to be reversed - whatever the sweeps, the callers
\* of allocate() and the chain do between two reads of each other.  (With one
\* reorg sweep at a time; two that overlap break it: README, section 4.)
EntitlementIsBackedOrReported ==
  \A g \in Generations :
    Unreversed(g) = {} \/ g \in FindReorgedNotReversed
      \/ (status = "COLLECTED" /\ g = Max(Generations))

\* A confirmation is recognized once: between two CONFIRMED rows the
\* transaction was seen to leave the chain.
ConfirmedOnce ==
  \A g, h \in Generations :
    g < h => \E k \in (g + 1)..(h - 1) : evidence[k].kind = "REORGED_OUT"

\* A generation is allocated whole and under the policy frozen when its fee
\* was collected, however the live policy changes before allocate() runs.
AllocatedAsFrozen ==
  \A g \in Generations :
    LET credited == {r \in Recipients : <<g, r, "ALLOCATION">> \in ledger} IN
    credited # {} =>
      /\ evidence[g].policy # None
      /\ credited = {Payees[evidence[g].policy][i] : i \in DOMAIN Payees[evidence[g].policy]}

Deep == mined # 0 /\ tip + 1 >= mined + Required
Buried == tip + 1 > evidence[Max(Generations)].height + Window

\* A fee that waits for its confirmations is collected once it has them,
\* unless the chain takes them away first.
FeeIsCollected == (status = "IN_PROGRESS" /\ Deep) ~> (status = "COLLECTED" \/ ~Deep)

\* A collected fee whose transaction left the chain is un-collected, unless
\* it is mined again or lies deeper than the window the sweep looks at.
ReorgIsNoticed ==
  (status = "COLLECTED" /\ mined = 0) ~> (status # "COLLECTED" \/ mined # 0 \/ Buried)

\* Every generation that is reported gets reversed: reverseGeneration()
\* "reverses every currently-net-positive ALLOCATION entry".
\* The code does not keep this: README, section 4.
ReversalCompletes == (FindReorgedNotReversed # {}) ~> (FindReorgedNotReversed = {})
=============================================================================
