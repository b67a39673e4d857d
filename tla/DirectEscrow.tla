---------------------------- MODULE DirectEscrow ----------------------------
(***************************************************************************)
(* One escrow on a direct-call rail: the handlers of escrow.service.ts     *)
(* (lockFunds, markPaymentSent, releaseFunds, openDispute as called by     *)
(* raiseDispute, refundFunds, splitFunds), the expiry sweep and the        *)
(* completion-effects reconciler, run by concurrent requests that may      *)
(* crash or fail between any two of their awaits.                          *)
(*                                                                         *)
(* A handler reads the row and checks authority, claims the target status  *)
(* with a compare-and-set, calls the provider, writes the result, records  *)
(* the fee obligation, appends the EscrowEvent row and publishes on the    *)
(* bus.  A failure after the claim hands the claim back.                   *)
(***************************************************************************)
EXTENDS Naturals, Sequences, FiniteSets, EscrowStatus

CONSTANTS Requests,          \* request slots of the server processes
          failureThreshold,  \* conflicts in one window that open the circuit
          requireDualApprovalForRelease,
          Approvers,         \* the counterparties that call approve-release
          reconcilerRuns,    \* an operator runs reconcilePendingSettlements
          MaxFaults          \* bound on the failures and crashes of one behaviour

ASSUME ThresholdAssumption == failureThreshold \in Nat \ {0}
ASSUME DualAssumption == requireDualApprovalForRelease \in BOOLEAN
ASSUME ApproversAssumption == Approvers \subseteq {"buyer", "seller"}
ASSUME ReconcilerAssumption == reconcilerRuns \in BOOLEAN
ASSUME FaultsAssumption == MaxFaults \in Nat

VARIABLES
  status,       \* Escrow.status
  txLockId,     \* Escrow.txLockId (with expiresAt) is set
  txReleaseId,  \* which disposition Escrow.txReleaseId stands for, or "none"
  obligation,   \* FeeObligation row: the outcome it was written for, or "none"
  approvals,    \* EscrowReleaseApproval rows
  dispute,      \* Dispute row: "none", "opened", "assigned" (arbiterId set)
  events,       \* EscrowEvent rows, in createdAt order
  bus,          \* domain events published, in order
  conflicts,    \* failures counter of the circuit breaker's window
  circuitOpen,  \* openCircuits.peek(escrowId) > 0
  req,          \* the requests in flight
  acked,        \* operations that returned success to a caller
  faults,       \* failures and crashes so far
  attempt, landed

Operations == {"LOCK", "RELEASE", "REFUND", "SPLIT_BUYER", "SPLIT_SELLER"}

Rail == INSTANCE SettlementRail

rowVars == <<status, txLockId, txReleaseId, obligation>>
sideVars == <<approvals, dispute>>
logVars == <<events, bus, acked>>
breakerVars == <<conflicts, circuitOpen>>
vars == <<rowVars, sideVars, logVars, breakerVars, req, faults, attempt, landed>>

\* The status each handler moves the escrow to.
Target ==
  [lock |-> "FUNDS_LOCKED", pay |-> "PAYMENT_PENDING", release |-> "COMPLETED",
   dispute |-> "DISPUTED", refund |-> "REFUNDED", split |-> "SPLIT"]

Handlers == DOMAIN Target

\* Handlers that call the provider inside try/catch, with the transfers they make.
Legs ==
  [lock |-> <<"LOCK">>, release |-> <<"RELEASE">>, refund |-> <<"REFUND">>,
   split |-> <<"SPLIT_BUYER", "SPLIT_SELLER">>]

Guarded == DOMAIN Legs

Dispositions == {"release", "refund", "split"}

\* The disposition a terminal status stands for.
DispositionOf == [COMPLETED |-> "release", REFUNDED |-> "refund", SPLIT |-> "split"]

Idle == [pc |-> "idle", op |-> "none", from |-> "CREATED", to |-> "CREATED", leg |-> 1]

PCs == {"idle", "claim", "call", "sent", "record", "oblige", "emit", "publish",
        "row", "assign", "revert"}

TypeOK ==
  /\ status \in Statuses
  /\ txLockId \in BOOLEAN
  /\ txReleaseId \in {"none"} \cup Dispositions
  /\ obligation \in {"none"} \cup Dispositions
  /\ approvals \subseteq Approvers
  /\ dispute \in {"none", "opened", "assigned"}
  /\ events \in Seq(Statuses \X Statuses)
  /\ bus \in Seq(Statuses)
  /\ conflicts \in 0 .. failureThreshold
  /\ circuitOpen \in BOOLEAN
  /\ req \in [Requests -> [pc : PCs, op : Handlers \cup {"none", "reconcile"},
                           from : Statuses, to : Statuses, leg : 1 .. 2]]
  /\ acked \subseteq Handlers
  /\ faults \in 0 .. MaxFaults
  /\ Rail!RailTypeOK

Init ==
  /\ status = "CREATED"
  /\ txLockId = FALSE
  /\ txReleaseId = "none"
  /\ obligation = "none"
  /\ approvals = {}
  /\ dispute = "none"
  /\ events = <<>>
  /\ bus = <<>>
  /\ conflicts = 0
  /\ circuitOpen = FALSE
  /\ req = [r \in Requests |-> Idle]
  /\ acked = {}
  /\ faults = 0
  /\ Rail!RailInit

-----------------------------------------------------------------------------

\* The request moves on; fields not named keep their values.
Goto(r, pc) == req' = [req EXCEPT ![r].pc = pc]
Finish(r) == req' = [req EXCEPT ![r] = Idle]

Fault == faults < MaxFaults /\ faults' = faults + 1

\* loadEscrowWithAuthorization: while DISPUTED only the assigned arbiter
\* disposes of the funds; otherwise the seller always may.
Authorized(op) ==
  (op \in Dispositions /\ status = "DISPUTED") => dispute = "assigned"

hasDualApproval == Cardinality(approvals) >= 2

BeginWithoutDualApproval(r, op) ==
  /\ req[r].pc = "idle"
  /\ Target[op] \in VALID_TRANSITIONS[status]
  /\ Authorized(op)
  /\ req' = [req EXCEPT ![r] = [pc |-> "claim", op |-> op, from |-> status,
                                to |-> Target[op], leg |-> 1]]
  /\ UNCHANGED <<rowVars, sideVars, logVars, breakerVars, faults, attempt, landed>>

\* The reads and checks of a handler, up to its claim.
Begin(r, op) ==
  /\ req[r].pc = "idle"
  /\ Target[op] \in VALID_TRANSITIONS[status]
  /\ Authorized(op)
  /\ (requireDualApprovalForRelease /\ op = "release" /\ status = "PAYMENT_PENDING")
        => hasDualApproval
  /\ req' = [req EXCEPT ![r] = [pc |-> "claim", op |-> op, from |-> status,
                                to |-> Target[op], leg |-> 1]]
  /\ UNCHANGED <<rowVars, sideVars, logVars, breakerVars, faults, attempt, landed>>

SweepNever(r) == FALSE /\ Begin(r, "refund")

\* sweepExpiredEscrows on this rail: refundFunds in the seller's name once
\* the lock's expiresAt has passed.
SweepExpired(r) ==
  /\ status = "FUNDS_LOCKED"
  /\ txLockId
  /\ Begin(r, "refund")

approveRelease(party) ==
  /\ approvals' = approvals \cup {party}
  /\ approvals' # approvals
  /\ UNCHANGED <<rowVars, dispute, logVars, breakerVars, req, faults, attempt, landed>>

-----------------------------------------------------------------------------

\* recordEscrowConflict
recordEscrowConflict ==
  /\ conflicts' = IF conflicts < failureThreshold THEN conflicts + 1 ELSE conflicts
  /\ circuitOpen' = IF conflicts' >= failureThreshold THEN TRUE ELSE circuitOpen

\* claimEscrowTransition throws on an open circuit.  markPaymentSent claims
\* through the repository and does not consult the breaker.
ClaimRefused(r) ==
  /\ req[r].pc = "claim"
  /\ req[r].op # "pay"
  /\ circuitOpen
  /\ Finish(r)
  /\ UNCHANGED <<rowVars, sideVars, logVars, breakerVars, faults, attempt, landed>>

CircuitAllows(r) == req[r].op = "pay" \/ ~circuitOpen

ClaimWithoutCompare(r) ==
  /\ req[r].pc = "claim"
  /\ CircuitAllows(r)
  /\ status' = req[r].to
  /\ Goto(r, IF req[r].op \in Guarded THEN "call" ELSE "emit")
  /\ UNCHANGED <<txLockId, txReleaseId, obligation, sideVars, logVars, breakerVars,
                 faults, attempt, landed>>

\* claimTransition: updateMany where status = the status read.
ClaimWins(r) ==
  /\ req[r].pc = "claim"
  /\ CircuitAllows(r)
  /\ status = req[r].from
  /\ status' = req[r].to
  /\ Goto(r, IF req[r].op \in Guarded THEN "call" ELSE "emit")
  /\ UNCHANGED <<txLockId, txReleaseId, obligation, sideVars, logVars, breakerVars,
                 faults, attempt, landed>>

ClaimLost(r) ==
  /\ req[r].pc = "claim"
  /\ CircuitAllows(r)
  /\ status # req[r].from
  /\ IF req[r].op = "pay" THEN UNCHANGED breakerVars ELSE recordEscrowConflict
  /\ Finish(r)
  /\ UNCHANGED <<rowVars, sideVars, logVars, faults, attempt, landed>>

\* The window of the failures counter, and the cooldown, run out.
WindowEnds ==
  /\ conflicts > 0
  /\ conflicts' = 0
  /\ UNCHANGED <<rowVars, sideVars, logVars, circuitOpen, req, faults, attempt, landed>>

CooldownEnds ==
  /\ circuitOpen
  /\ circuitOpen' = FALSE
  /\ UNCHANGED <<rowVars, sideVars, logVars, conflicts, req, faults, attempt, landed>>

-----------------------------------------------------------------------------

\* The transfer the request is at.
Leg(r) == Legs[req[r].op][req[r].leg]

LegDoneTooEarly(r) == Goto(r, "record")

\* A leg is done: the next leg, or the write of the result.
LegDone(r) ==
  IF req[r].leg = Len(Legs[req[r].op])
  THEN Goto(r, "record")
  ELSE req' = [req EXCEPT ![r].leg = req[r].leg + 1, ![r].pc = "call"]

unchangedByProvider == UNCHANGED <<rowVars, sideVars, logVars, breakerVars, faults>>

\* The provider hands the current leg's transfer to the wallet.
CallProvider(r) ==
  /\ req[r].pc = "call"
  /\ Rail!RailSubmit(Leg(r))
  /\ Goto(r, "sent")
  /\ unchangedByProvider

\* The provider finds the leg already confirmed, by itself or by its receipt.
ResumeConfirmed(r) ==
  /\ req[r].pc = "call"
  /\ \/ attempt[Leg(r)] = "confirmed" /\ UNCHANGED <<attempt, landed>>
     \/ attempt[Leg(r)] = "submitted" /\ Rail!RailConfirm(Leg(r))
  /\ LegDone(r)
  /\ unchangedByProvider

\* ensureAttempt refuses the leg: an earlier attempt's outcome is unknown, its
\* transaction is still pending, or it was made for another split of the amount.
ProviderRefuses(r) ==
  /\ req[r].pc = "call"
  /\ \/ attempt[Leg(r)] = "unknown"
     \/ attempt[Leg(r)] = "submitted" /\ Leg(r) \notin landed
     \/ attempt[Leg(r)] # "none" /\ req[r].op = "split"
  /\ Goto(r, "revert")
  /\ UNCHANGED <<attempt, landed>>
  /\ unchangedByProvider

\* The provider reads a good receipt within its bounded wait.
ProviderReturns(r) ==
  /\ req[r].pc = "sent"
  /\ Rail!RailConfirm(Leg(r))
  /\ LegDone(r)
  /\ unchangedByProvider

PendingTakenAsDone(r) ==
  /\ req[r].pc = "sent"
  /\ Rail!RailPending(Leg(r))
  /\ LegDone(r)
  /\ unchangedByProvider

\* The bounded wait ends without a receipt: the provider throws.
ProviderPending(r) ==
  /\ req[r].pc = "sent"
  /\ Rail!RailPending(Leg(r))
  /\ Goto(r, "revert")
  /\ unchangedByProvider

\* The provider throws on a failed receipt, or the wallet threw and the
\* attempt stays unknown.
ProviderThrows(r) ==
  /\ Fault
  /\ req[r].pc = "sent"
  /\ \/ Rail!RailReverted(Leg(r))
     \/ UNCHANGED <<attempt, landed>>
  /\ Goto(r, "revert")
  /\ UNCHANGED <<rowVars, sideVars, logVars, breakerVars>>

\* The chain executes a transfer whenever it likes.
Land(o) ==
  /\ Rail!RailLand(o)
  /\ UNCHANGED <<rowVars, sideVars, logVars, breakerVars, req, faults>>

\* updateLockResult, updateReleaseResult, updateRefundResult, updateSplitResult
RecordResult(r) ==
  /\ req[r].pc = "record"
  /\ IF req[r].op = "lock"
     THEN txLockId' = TRUE /\ UNCHANGED txReleaseId
     ELSE txReleaseId' = req[r].op /\ UNCHANGED txLockId
  /\ Goto(r, IF req[r].op = "lock" THEN "emit" ELSE "oblige")
  /\ UNCHANGED <<status, obligation, sideVars, logVars, breakerVars, faults, attempt, landed>>

\* recordObligationForEscrowSettlement: the first outcome recorded stays, and
\* every error is swallowed.  The reconciler cannot rebuild a split's basis.
RecordObligation(r) ==
  /\ req[r].pc = "oblige"
  /\ IF obligation # "none" \/ (req[r].op = "reconcile" /\ req[r].to = "SPLIT")
     THEN UNCHANGED obligation
     ELSE obligation' \in {"none", DispositionOf[req[r].to]}
  /\ Goto(r, "emit")
  /\ UNCHANGED <<status, txLockId, txReleaseId, sideVars, logVars, breakerVars,
                 faults, attempt, landed>>

-----------------------------------------------------------------------------

\* The handler returns: raiseDispute goes on to its own rows, every other
\* handler answers its caller.
Returned(r) ==
  CASE req[r].op = "dispute" -> Goto(r, "row") /\ UNCHANGED acked
    [] req[r].op = "reconcile" -> Finish(r) /\ UNCHANGED acked
    [] OTHER -> Finish(r) /\ acked' = acked \cup {req[r].op}

Emitted(to) == \E i \in DOMAIN events : events[i][2] = to

EmitRowAlways(r) ==
  /\ req[r].pc = "emit"
  /\ events' = Append(events, <<req[r].from, req[r].to>>)
  /\ Goto(r, "publish")
  /\ UNCHANGED <<rowVars, sideVars, bus, acked, breakerVars, faults, attempt, landed>>

\* emitEscrowTransition, inside withEscrowFundingLock: one row per toStatus.
EmitRow(r) ==
  /\ req[r].pc = "emit"
  /\ ~Emitted(req[r].to)
  /\ events' = Append(events, <<req[r].from, req[r].to>>)
  /\ Goto(r, "publish")
  /\ UNCHANGED <<rowVars, sideVars, bus, acked, breakerVars, faults, attempt, landed>>

EmitSkipped(r) ==
  /\ req[r].pc = "emit"
  /\ Emitted(req[r].to)
  /\ Returned(r)
  /\ UNCHANGED <<rowVars, sideVars, events, bus, breakerVars, faults, attempt, landed>>

\* emitEscrowTransition, after the lock: eventBus.emit.
Publish(r) ==
  /\ req[r].pc = "publish"
  /\ bus' = Append(bus, req[r].to)
  /\ Returned(r)
  /\ UNCHANGED <<rowVars, sideVars, events, breakerVars, faults, attempt, landed>>

\* raiseDispute after openDispute: dispute.create, unique per trade.
CreateDispute(r) ==
  /\ req[r].pc = "row"
  /\ IF dispute = "none"
     THEN dispute' = "opened" /\ Goto(r, "assign")
     ELSE UNCHANGED dispute /\ Finish(r)
  /\ UNCHANGED <<rowVars, approvals, logVars, breakerVars, faults, attempt, landed>>

\* raiseDispute: provider.assign, dispute.update, answer.
AssignArbiter(r) ==
  /\ req[r].pc = "assign"
  /\ dispute' = "assigned"
  /\ acked' = acked \cup {"dispute"}
  /\ Finish(r)
  /\ UNCHANGED <<rowVars, approvals, events, bus, breakerVars, faults, attempt, landed>>

\* An await of the handler rejects.  Inside lockFunds, releaseFunds,
\* refundFunds and splitFunds the catch block reverts the claim;
\* markPaymentSent, raiseDispute and the reconciler have none.
Throw(r) ==
  /\ Fault
  /\ req[r].pc \in {"call", "record", "emit", "publish", "row", "assign"}
  /\ IF req[r].op \in Guarded THEN Goto(r, "revert") ELSE Finish(r)
  /\ UNCHANGED <<rowVars, sideVars, logVars, breakerVars, attempt, landed>>

RevertUnconditionally(r) ==
  /\ req[r].pc = "revert"
  /\ status' = req[r].from
  /\ Finish(r)
  /\ UNCHANGED <<txLockId, txReleaseId, obligation, sideVars, logVars, breakerVars,
                 faults, attempt, landed>>

\* revertEscrowStatus: compare-and-set back; its own failure is swallowed.
Revert(r) ==
  /\ req[r].pc = "revert"
  /\ \/ /\ status' = IF status = req[r].to THEN req[r].from ELSE status
        /\ UNCHANGED faults
     \/ Fault /\ UNCHANGED status
  /\ Finish(r)
  /\ UNCHANGED <<txLockId, txReleaseId, obligation, sideVars, logVars, breakerVars,
                 attempt, landed>>

\* The process running the request dies.
Crash(r) ==
  /\ Fault
  /\ req[r].pc # "idle"
  /\ Finish(r)
  /\ UNCHANGED <<rowVars, sideVars, logVars, breakerVars, attempt, landed>>

lastKnownStatus(fallback) ==
  IF events = <<>> THEN fallback ELSE events[Len(events)][2]

\* reconcileMissingCompletionEffects: a terminal row with a txReleaseId and no
\* EscrowEvent for its status gets the obligation and the event it misses.
Reconcile(r) ==
  /\ reconcilerRuns
  /\ req[r].pc = "idle"
  /\ status \in TerminalStatuses
  /\ txReleaseId # "none"
  /\ ~Emitted(status)
  /\ req' = [req EXCEPT ![r] = [pc |-> "oblige", op |-> "reconcile",
                                from |-> lastKnownStatus(status), to |-> status,
                                leg |-> 1]]
  /\ UNCHANGED <<rowVars, sideVars, logVars, breakerVars, faults, attempt, landed>>

-----------------------------------------------------------------------------

Step(r) ==
  \/ ClaimRefused(r) \/ ClaimWins(r) \/ ClaimLost(r)
  \/ CallProvider(r) \/ ResumeConfirmed(r) \/ ProviderRefuses(r)
  \/ ProviderReturns(r) \/ ProviderPending(r) \/ ProviderThrows(r)
  \/ RecordResult(r) \/ RecordObligation(r)
  \/ EmitRow(r) \/ EmitSkipped(r) \/ Publish(r)
  \/ CreateDispute(r) \/ AssignArbiter(r)
  \/ Throw(r) \/ Revert(r)

Next ==
  \/ \E r \in Requests : \/ \E op \in Handlers : Begin(r, op)
                        \/ SweepExpired(r)
                        \/ Reconcile(r)
                        \/ Step(r)
                        \/ Crash(r)
  \/ \E party \in Approvers : approveRelease(party)
  \/ \E o \in Operations : Land(o)
  \/ WindowEnds
  \/ CooldownEnds

Spec == Init /\ [][Next]_vars

\* A handler that is running goes on or fails; the chain executes what was
\* handed to it; the breaker's timers run out; the sweep's own timer
\* (app.ts) and the reconciler find a slot again and again.
Fairness ==
  /\ \A r \in Requests : WF_vars(Step(r))
  /\ \A o \in Operations : WF_vars(Land(o))
  /\ WF_vars(WindowEnds) /\ WF_vars(CooldownEnds)
  /\ SF_vars(\E r \in Requests : SweepExpired(r))
  /\ SF_vars(\E r \in Requests : Reconcile(r))

FairSpec == Spec /\ Fairness

-----------------------------------------------------------------------------

\* A request that has won its claim and has not yet answered or reverted.
Holds(r) == req[r].op # "reconcile" /\ req[r].pc \notin {"idle", "claim"}

\* At most one request at a time holds a claim to dispose of the money, and
\* while it does the row shows exactly the status it claimed: two releases, a
\* release and a refund, or a sweep and a ruling never run the provider
\* side by side (claim before execute, escrow.service.ts).
SoleDisposition ==
  \A r \in Requests :
     (Holds(r) /\ req[r].op \in Dispositions) =>
        /\ status = req[r].to
        /\ \A q \in Requests \ {r} : ~(Holds(q) /\ req[q].op \in Dispositions)

\* Once a release, refund or split has answered success, its transfers are on
\* the chain, its transaction is the recorded one, and no later request, sweep
\* or late failure moves the escrow out of that status.
AckedIsFinal ==
  \A op \in acked \cap Dispositions :
     /\ status = Target[op]
     /\ txReleaseId = op
     /\ \A i \in DOMAIN Legs[op] : Legs[op][i] \in landed

\* The domain event of each status is published at most once per escrow, even
\* when a handler, its retry and the reconciler all try to announce it.
AnnouncedOnce ==
  \A i, j \in DOMAIN bus : bus[i] = bus[j] => i = j

\* The event of a lock or of a disposition is published only after the
\* transfers it announces really happened.
AnnouncedIsTrue ==
  \A i \in DOMAIN bus : \A op \in Guarded :
     bus[i] = Target[op] => \A k \in DOMAIN Legs[op] : Legs[op][k] \in landed

\* The fee obligation written for an escrow is the one of the disposition that
\* really took the money, whatever was tried, failed and reverted before it.
ObligationMatchesMoney ==
  obligation # "none" => \A k \in DOMAIN Legs[obligation] : Legs[obligation][k] \in landed

\* With two-person control on, the only ways to COMPLETED are both approvals
\* or a dispute's arbiter.
CompletedUnderControl ==
  (requireDualApprovalForRelease /\ status = "COMPLETED") =>
     (hasDualApproval \/ dispute = "assigned")

\* The claims a catch block may still revert.
Undoable ==
  {<<req[r].from, req[r].to>> : r \in {q \in Requests : Holds(q) /\ req[q].op \in Guarded}}

Lifecycle == INSTANCE EscrowLifecycle WITH st <- status, held <- Undoable

\* The handlers implement the lifecycle's promise: the status moves only along
\* VALID_TRANSITIONS or back by the revert of the very request that claimed it.
ImplementsLifecycle == Lifecycle!LifecycleSpec

\* A locked escrow nobody acts on does not stay locked: the expiry sweep
\* refunds it for good once its transfer gets through.
ExpiryDisposes ==
  [](status = "FUNDS_LOCKED" /\ txLockId => <>[](status # "FUNDS_LOCKED"))

\* A settled escrow's event is published in the end (INV-OP-11: safe catch-up
\* of missing completion effects).
\* The code does not keep this: README, section 4.
SettledIsAnnounced ==
  \A op \in Dispositions :
     [](op \in acked \/ (status = Target[op] /\ txReleaseId = op)
          => <>(\/ \E i \in DOMAIN bus : bus[i] = Target[op]
                \/ status # Target[op]))

=============================================================================
