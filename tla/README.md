# TLA+ models of the Sails Protocol settlement core

Sails is a protocol server for peer-to-peer trades. An *intent* is matched into
an *offer* and a *trade*; an *escrow* holds the money of the trade on one of
several *rails*; a *dispute* hands the decision over the money to an arbiter.
These modules model the part that decides where money goes: the escrow, its
rails, disputes and recovery jobs, the collection of fees, the idempotent
creation of offers and trades, and how trades, intents and reputation follow
the escrow's events. Paths below are relative to `src/src/`, and `OS` is
`modules/open-settlement`.

## 1. Inventory

| Part | State | Operations | What is hard | Should hold |
|---|---|---|---|---|
| Escrow (`OS/escrow.service.ts`, `escrow-lifecycle.ts`, `escrow-repository.ts`) | `Escrow` row, `EscrowEvent` rows | lock, mark paid, release, dispute, refund, split, expire | the status is claimed *before* the money moves and reverted if it does not; every `await` lets another request in | one disposition at a time; an acknowledged one is final and real; each event once |
| Circuit breaker, two-person control | in-memory counters, approvals | count conflicts, approve | limits, reads made before the claim | nothing completes without control |
| WDK rail (`OS/wdk-*.ts`) | transfer attempts | ensure attempt, submit, wait, reconcile | a wallet call whose answer is lost; two retries | never two live transfers for one operation |
| Signature rails (`OS/escrow-pending-tx.ts`, `multisig.provider.ts`) | pending transaction, signatures, execution record | initiate, sign, finalise, broadcast | two last signers, crash after broadcast, a pending transaction that outlives its authority | only the authorised transaction executes; what was broadcast gets recorded |
| Commit gates (`economic-disposition-authority.ts`, `capability-execution-authorization.ts`) | dispute generation, capability grants | authorise once | authority revoked or superseded in between | nothing is executed outside a gate |
| Disputes (`dispute.service.ts`, `dispute-*.ts`) | `Dispute` row, ruling record | raise, rule, appeal, evidence, automatic resolution | ruling and money movement are separate steps, a failed one is handed back | an appeal stands; a dispute can be decided |
| Recovery (`escrow-settlement-reconciliation.service.ts`, dispute jobs, reorg sweeps) | none of their own | finish or repair what a crash left | race with the request they repair | convergence, no double effect |
| Fees (`fee-*.ts`, `entitlement-*.ts`, `distribution-*.ts`) | obligations, evidence, ledger | record, confirm, reverse, allocate | reorganisations, stale reads, rounding | one obligation per settlement, shares add up |
| Idempotency (`common/idempotency.ts`) | claims | claim, reclaim, settle, recover | retry after a lost acknowledgement or a crash | one object per key, answers agree |
| Offers, trades, intents | rows, intent event chain | create, match, transition, expire | claim and event are two writes; trade status written without compare | one chain, legal status order |
| Events (`common/events/*`) | event log, streams, handlers | publish, deliver, reclaim | duplicates, reordering, lost reclaim | projections agree with the escrow |
| Identity, agents, transport, evidence storage, UI | — | — | none that settlement depends on | — |

`PROJECT.json` lists every part with its status, and every hazard with its line.

## 2. Plan

The project keeps at most a dozen questions; a later step may replace a run.

1. *Done:* direct-call rails, the WDK provider under them, signature rails with
   disputes and recovery, idempotent creation.
2. *Done:* intent engine, trades, event store and handlers as one composed module;
   the dispute row with evidence and automatic resolution; fee collection,
   allocation and reversal under reorganisations.
3. Funding and release evidence under reorganisations
   (`multisig-release-reorg-sweep.ts` and the funding sweep), escrow creation and
   participant keys.
4. Pure operators: fee reserve and dust arithmetic, largest-remainder shares, split
   amounts, the semantic core's evaluators, each against a reference definition.
5. *Done:* a proof of every safety property and of both refinements the runs check.
   Next: what of them survives recovery jobs that overlap requests, on the rails
   where section 6 excludes them.

## 3. Modules

| Module | Models | State and actions |
|---|---|---|
| `EscrowStatus` | `VALID_TRANSITIONS` | constants only |
| `EscrowLifecycle` | what an escrow promises: claims along the table, and reverts of one's own claim | abstract specification |
| `SettlementRail` | what a direct-call provider promises: one transfer per operation, confirmed only if mined | abstract specification, used by `DirectEscrow` as its rail |
| `DirectEscrow` | the escrow handlers on rails where one call moves money | one record per running request with a program counter; one action per `await`; a crash or rejection at any of them |
| `WdkTransfer` | `executeTransfer` and the attempt rows | calls, attempts, transactions of the chain |
| `SignatureCollection` | initiate and sign, gates, disputes, recovery jobs on signature rails | request and job slots; rows for the escrow, the pending transaction, the dispute and the ruling record |
| `IdempotentCreate` | `withIdempotency` around `createOffer` and `createTrade` | calls, claims, rows |
| `IntentEngine` | `create` and `transition` of one intent and its event chain | status, events in the order written, one record per call in flight |
| `TradeProjection` | event handlers, trade and intent requests, event bus | a handler or request is a flow, the list of queries it still has to run; one action per kind of query; calls of the engine are steps of `IntentEngine` |
| `DisputeRecord` | everything that writes one `Dispute` row on a direct rail in market arbitration | one record per call; evidence, proposal, contest, sweep, ruling with claim, money and hand-back, slash, fee, appeal |
| `FeeCollection` | the obligation's collection status, evidence rows, sweeps, policies and the entitlement ledger of one escrow | jobs with a program counter over a chain that grows and reorganizes |
| `*Proofs` | — | inductive invariants and proofs |
| `MC*` | — | symmetry sets and panels for TLC |

Composition: `WdkTransfer` is shown to implement `SettlementRail`, the module
whose steps `DirectEscrow` takes when a handler calls its provider; `DirectEscrow`
is shown to implement `EscrowLifecycle`; `TradeProjection` instantiates
`IntentEngine` with its flows as callers and is proved to be an execution of it.

An action is the code from one `await` to the next, because that is what another
request can come between. Database transactions are one step. A `fault` is a
rejected await, a lost answer or a crash; `MaxFaults` bounds how many happen.
Amounts, addresses, keys and texts are abstracted to the values the properties
tell apart (a transaction's kind, a ruling's generation, a payload's identity).

## 4. Runs

The `TypeOK` of a module documents its variables; the runs spend their properties
elsewhere.

Passing:

* `direct_escrow` — two requests of any kind, one fault. `SoleDisposition`,
  `AckedIsFinal`, `AnnouncedIsTrue`, `ObligationMatchesMoney`.
* `direct_escrow_reconciled` — the same with the completion-effects reconciler and
  two-person control, without faults. `AnnouncedOnce`, `CompletedUnderControl`,
  and the refinement `ImplementsLifecycle`.
* `direct_escrow_expiry` — liveness: a locked escrow does not stay locked.
* `wdk_transfer` — two calls, three attempts, two amounts. At most one live
  transfer, success only if mined, one amount, refinement of the rail, and
  the liveness of a retry.
* `idempotent_create` — two calls, two payloads, lost acknowledgements of the
  offer's writes. The state constraint `OneScope` keeps each behaviour within one
  scope: rows of different scopes never meet in the code.
* `signature_collection` — two requests with appeals to a second panel, one fault.
* `signature_recovery` — one request at a time and the recovery jobs, two faults,
  two-person control and capabilities on: `ExecutedUnderAuthority`,
  `AnnouncedIsFinal`, and the liveness `Converges`.
* `trade_projection` — one trade, one instance, up to two flows beside the events
  they raise, one ruling, one fault. The intent's events tell no status twice and,
  undisturbed, account for its status (`AuditOnce`, `AuditComplete`); trade and
  intent claim no settlement the escrow did not reach (`ClaimsAreBacked`); negative
  outcomes and burnt vouches need a ruling; nothing is counted twice; and a
  settlement reaches the trade (`SettlementIsProjected`).
* `dispute_record` — two calls of any kind on one dispute, one appeal, one fault. A
  dispute that reads `RESOLVED` was executed, slashes and fees follow what was
  ruled and executed, and an open proposal ends.
* `fee_collection` — two overlapping confirmation sweeps, one reorg sweep, an
  operator who allocates and reverses, one reorganisation up to two blocks deep, one
  fault. What the ledger credits is collected or reported
  (`EntitlementIsBackedOrReported`), one recognition per confirmation, allocation
  under the frozen policy, and the two liveness properties of the sweeps.

Two requests are enough for every race of the claim, whose compare-and-set leaves
one winner; a third only repeats the loser's part. One or two faults are
enough to strand a request and then disturb its recovery. One conflict
opens the circuit (`failureThreshold = 1`) so that the open state is reached.
One trade is enough for its projection: flows of two trades meet only at the
intent, whose audit trail is proved for any number. In `fee_collection`, `MaxTip`
leaves room to confirm, reorganize, confirm again and pass the sweep's window;
`Required = 1` and `Window = 3` stand for the configured depths, whose ratio
decides nothing that the properties tell apart.

Divergences between the code and its own text, one run each:

* `signature_blocked` — a pending transaction from before the ruling blocks the
  dispute for good.
* `dispute_superseded` — on the direct rails an appeal that commits between a
  ruling's authorisation and the escrow's claim does not stop the ruling.

Divergences that the modules state and that are not kept as runs. TLC refutes each
within seconds when the named property replaces those of the named configuration,
with the changes given:

* `SettledIsAnnounced` (`DirectEscrow.cfg`, `FairSpec`, `reconcilerRuns = TRUE`): the
  `EscrowEvent` row is written before the event is published, so a failed publish is
  never repeated, by anyone (`escrow-lifecycle.ts:449`, against
  `docs/PROTOCOL_INVARIANTS.md:1166-1168`, "safe catch-up when missing").
* `OneTradePerKey` (`IdempotentCreate.cfg`, `LostTradeAcks = TRUE`): a Trade insert
  that commits without an acknowledgement is repeated by the retry; Offers are
  guarded against exactly this (`trade.service.ts:136`, against
  `common/idempotency.ts:289`, "at most once per (scope, participantId, key)").
* `AnnouncedIsFinal` (`SignatureRecovery.cfg`, `Overlap = TRUE`, `Rejects = TRUE`): the
  reconciliation of a live submission announces a settlement which the submission
  then reverts (`escrow-pending-tx.ts:498`, against `escrow-lifecycle.ts:358-359`).
* `RulingObeyed` (`SignatureCollection.cfg`): the gate compares the ruling's
  generation, not its kind (`economic-disposition-authority.ts:183`, against
  `escrow-lifecycle.ts:123-124`).
* `CompletedStays` (`TradeProjection.cfg`): `Trade.status` is written with no condition
  on what it replaces, so a handler still running for the locked event, or a
  cancellation that read an earlier status, overwrites `COMPLETED`
  (`trade-repository.ts:176`, against the comment at `trade.service.ts:36-50`).
* `CountedOnce` (`TradeProjection.cfg`, two instances): every handler runs at every
  instance, and one settlement counts once per instance (`event-store.ts:290`,
  against `docs/DEPLOYMENT.md:554`).
* `EvidenceKept` (`DisputeRecord.cfg`, `Evidence = {"e1", "e2"}`): of two overlapping
  submissions one acknowledged entry is lost (`dispute.service.ts:1168`, against
  `dispute.service.ts:1139-1148`, "durably appends the evidence entry").
* `ReversalCompletes` (`FeeCollection.cfg`, allocator and reverser distinct): a
  reversal that died after its first entry is never completed, because the next call
  stops at the entry already reversed (`entitlement-allocation.service.ts:306`,
  against lines 293-299).
* `EntitlementIsBackedOrReported` (`FeeCollection.cfg`, two reorg sweeps): two sweeps
  that overlap revert a generation that was confirmed again in between, and no
  later row reports it (`multisig-fee-reorg-sweep.ts:44`). `app.ts` starts the sweep
  from a timer that does not wait for the previous one.

Divergences met in the same models and stated by no property: the completion-effects
pass trusts the `txReleaseId` of a disposition that was reverted
(`escrow-settlement-reconciliation.service.ts:464`); payment can be marked against
a lock that is only claimed (`escrow.service.ts:660`); an open circuit
refuses refunds and disputes as well (`escrow-lifecycle.ts:333`); a crash before
the dispute row leaves `DISPUTED` without an arbiter (`dispute.service.ts:250`); a
cooperative transaction can execute out of `DISPUTED` in the same window
(`economic-disposition-authority.ts:129`); two-person control is decided on a read
that is stale when used (`escrow-pending-tx.ts:222`); a ruling record can outlive
its ruling after a crash (`dispute.service.ts:722`); a refund that was broadcast with
a lost answer and reverted can become unrecordable once payment is marked
(`escrow-pending-tx.ts:498`); evidence, contest and sweep write the dispute on no
condition and can un-resolve it (`dispute.service.ts:1149`); a ruling signed for an
earlier round can be claimed after two appeals (`dispute.service.ts:451`); a ruling
handed back leaves `AUTO_PROPOSED` without a deadline, which no sweep finds
(`dispute.service.ts:533`); an appeal after execution on a direct rail can never be
ruled, and its fee stays due (`dispute.service.ts:1039`); a process that dies holding
a claim leaves `RESOLVED` with nothing executed (`dispute.service.ts:480`).

## 5. Fairness

* `DirectEscrow`: weak fairness of a running request's steps (the event loop resumes
  a settled promise), of the chain executing what it accepted and of the circuit's
  two windows, which end by the clock; strong fairness of the sweep, a timer in
  `app.ts` that needs a free slot only now and then, and of the reconciler (where
  it runs at all). No fairness of users.
* `WdkTransfer`: weak fairness of a call's steps; strong fairness of the retry, of
  the receipt query being answered and of the mined receipt being seen. So
  `RetryReconciles` is about callers that keep trying against a node that is
  reachable again and again.
* `SignatureCollection`: strong fairness of the jobs, because a job may be
  interrupted by requests any number of times but is run again. The settlement
  reconciliation is started by an operator, so `Converges` says what happens if
  the operator keeps running it. `ResponsiveSpec` adds arbiters and signers who
  keep acting; it is used only to show that even so a dispute can stay undecided.
* `TradeProjection`: weak fairness of some started flow going on and of a request
  publishing what it acknowledged: continuations of a running event loop. A fault
  ends a flow for good, so `SettlementIsProjected` allows for one.
* `DisputeRecord`: see `Fairness` there: the steps of a running call and the sweep, a
  timer. No fairness of parties or arbiters.
* `FeeCollection`: weak fairness of running jobs, of the two sweeps, timers of
  `app.ts`, and of the reversal of a generation whose confirmation was reverted, which
  an operator is told of and is taken to run in the end; none of the chain, of
  allocations or of policies.

## 6. Proofs

Every safety property and both refinements of the passing runs are proved by TLAPS,
for every value of the constants: any number of requests, jobs, instances, rows and
faults. Where a theorem needs more than the modules' named assumptions (which every
run evaluates too), it says so in an `ASSUME` of its own, given below. No property
is inductive as it stands; each entry says what had to be added.

* `DirectEscrow` (`DirectEscrowProofs`). `TypeOK`, `SoleDisposition`, `AckedIsFinal`:
  that a revert is harmless depends on which request owns the status, so `Inv` ties
  each program counter to the row and the rail: a request past its claim owns the
  status it claimed until it answers or throws, and money moves only for an owner.
  `AnnouncedOnce`: a status that is published or about to be has its `EscrowEvent` row,
  and one publisher only. `AnnouncedIsTrue`, `ObligationMatchesMoney` assume
  `~reconcilerRuns`: the reconciler trusts the transaction id of a disposition that was reverted (section 4).
  `CompletedUnderControl`: a release in flight has its approvals, which only grow.
  `LifecycleImplemented`: every step is a claim along the table, a revert of one's own
  claim, or a stutter of `EscrowLifecycle`; the mapping needs that the first claim,
  out of `CREATED`, is the only one of its kind while it lasts.
* `WdkTransfer` (`WdkTransferProofs`). `TypeOK`, `OneLiveTransfer`, `ReturnedIsMined`,
  `OneAmount`, and that the provider implements `SettlementRail`. The invariant says
  that an operation has one active attempt, that only it may have a live transaction,
  and which statuses allow a submission.
* `IdempotentCreate` (`IdempotentCreateProofs`). `TypeOK`, `OneOfferPerKey`,
  `AnswersAgree`, `SettledStays`, `AnnouncedOnce`; `OneTradePerKey` assumes
  `~LostTradeAcks`, see the divergence in section 4. The invariant says that a claim
  in progress has one holder, which rows the holder may already have written, and
  that nobody else has anything left to announce for the key.
* `SignatureCollection` (`SignatureCollectionProofs`). `Base` says, per program counter,
  what a call has read and what of it still holds. It gives `AppealStands`, and with
  the gates coming first `SupersededNeverExecutes`: the gate compares the row's
  generation with the dispute in one transaction, a round never returns, and
  `MULTISIG`, where a job broadcasts without the gates, has no appeals.
  `AckedIsFinal` and `AnnouncedIsFinal` assume that no job runs while requests are
  served (`Quiet`), and add that a status claimed by a call is the call's until it
  leaves (`Held`). `AnnouncedIsTrue` assumes that there are no jobs at all.
  `ExecutedUnderAuthority` (`GatesFirst`) assumes that the rail is not `MULTISIG`, or
  that there are no jobs, or that one call runs at a time: the job for terminal
  rows broadcasts what it finds pending under a terminal status and asks no gate, so
  it relies on the pending row being the one that was claimed. With `Overlap = TRUE` in
  `SignatureRecovery.cfg` TLC refutes it, after some minutes.
* `IntentEngine` (`IntentEngineProofs`). `AuditOnce` for any set of callers. An event is
  written after the status was claimed, so the trail alone is not inductive. `IInv`
  ranks the statuses so that every allowed move raises the rank, and says that the
  statuses told or still owed by a call past its claim are distinct and none ranks
  above the row's. `TellOK` adds that every status the row has passed is told or owed.
* `TradeProjection` (`TradeProjectionProofs`). Every step of the handlers and requests is
  a step of the intent engine or leaves it alone (`EngineIsRun`); with `IInv`,
  `AuditOnce` holds of the composition. `ClaimsAreBacked` and `PenaltyNeedsRuling`:
  each query a flow still has to run is warranted by the escrow or a ruling
  (`WInv`). `AuditComplete`: each event is raised once, each flow of a trade is
  started once and calls the engine once at a time (`Once`), so without faults
  nothing owed to the trail is forgotten (`TrailOK`). `CountedOnce` assumes one
  instance, as with two it is false (section 4); `TallyOK` adds that what some flow or
  event is still to count has not been counted. A few lemmas carry facts between
  the two instances of the engine's module, which the prover takes for different
  operators.
* `DisputeRecord` (`DisputeRecordProofs`). `ResolvedIsExecuted`, `SlashIsEarned`,
  `FeeIsJust`. The invariant says that the ruling of a resolved row was executed or some
  call holds it, that a call's copy of the row is true of the round it was read in,
  and that each round reviews a ruling that was given in the round before.
* `FeeCollection` (`FeeCollectionProofs`). `AllocatedAsFrozen`; `ConfirmedOnce` and
  `EntitlementIsBackedOrReported` assume one reorg sweep at a time
  (`\A q, r \in Reorgers : q = r`; with two the latter is false, section 4). The invariant
  says that while the fee is not collected every generation has left the chain after
  it was confirmed, and that a sweep about to revert has recorded so.

Only model-checked is what the prover does not reach, liveness under fairness:
`ExpiryDisposes`, `RetryReconciles`, `Converges`, `SettlementIsProjected`,
`ProposalEnds`, `FeeIsCollected`, `ReorgIsNoticed`. `TypeOK` is proved for the first three
modules only; the invariants of the others contain the types their proofs use.

## 7. Not modelled

HTTP validation, authentication, the client packages, agents, peer-to-peer
transport and evidence storage: no settlement decision is taken there. PSBT,
script and key derivation and the on-chain contract: data, not control. Intent
expiry: no code writes `expiresAt`, so the branches are dead.
`RedisStreamsEventStore`: nothing constructs it (its reclaim, `event-store.ts:695`,
moves stale entries to a consumer that only reads new ones). Amounts of shares,
reputation scores, funding keys and the funding sweep's own reads are planned
(section 2).

Of the repository's lines more than half are scripts of an editor skill under
`.github/skills`, and most of the rest are the SDK, the user interface, providers'
encodings and comments; the modules cover the control of the settlement core, which
is a small share of all lines.
