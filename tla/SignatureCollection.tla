------------------------ MODULE SignatureCollection ------------------------
(***************************************************************************)
(* One funded escrow on a rail whose parties sign client-side:             *)
(* escrow-pending-tx.ts (initiate, submit signature), the two commit gates *)
(* (economic-disposition-authority.ts, capability-execution-               *)
(* authorization.ts), the ruling half of dispute.service.ts, and the       *)
(* recovery jobs for MULTISIG.  A handler is a call that advances from     *)
(* await to await; rows[i] is the i-th EscrowPendingTransaction ever       *)
(* created and stands for the one transaction its signatures finalize.     *)
(***************************************************************************)
EXTENDS Naturals, Sequences, FiniteSets, EscrowStatus

CONSTANTS Requests,   \* request slots of the server processes
          Jobs,       \* slots of the recovery jobs; none where nobody runs them
          Handlers,   \* the entry points the requests use
          Kinds,      \* pending kinds: "release", "refund", "split"
          Panel,      \* the arbiter of each appeal round, in order
          MULTISIG,   \* TRUE: committed arbiter, durable rulings and recovery jobs
          requireDualApprovalForRelease,
          enforceCapabilities,
          Overlap,    \* jobs run while requests are being served
          Rejects,    \* awaits may reject; otherwise a call only dies
          MaxRows,    \* bound on pending transactions ever created
          MaxFaults   \* bound on thrown awaits, lost answers and crashes

ASSUME CollectionAssumption ==
  /\ Kinds \subseteq {"release", "refund", "split"}
  /\ Panel \in Seq(STRING) /\ Panel # <<>>
  /\ MULTISIG \in BOOLEAN
  /\ requireDualApprovalForRelease \in BOOLEAN
  /\ enforceCapabilities \in BOOLEAN
  /\ {Overlap, Rejects} \subseteq BOOLEAN
  /\ MaxRows \in Nat /\ MaxFaults \in Nat

VARIABLES
  status,     \* Escrow.status
  tx,         \* Escrow.txReleaseId: 0, or the row whose transaction it is
  rows,       \* EscrowPendingTransaction rows ever created, with their signatures
  live,       \* the row that exists now, or 0 (escrowId is unique)
  spent,      \* the row whose transaction spent the funding outpoint, or 0
  dispute,    \* the Dispute row
  record,     \* the durable ruling of each appeal round
  econ,       \* rows with an EconomicDispositionAuthorization
  capa,       \* rows with a CapabilityExecutionAuthorization
  grant,      \* the initiator's capability grant is live
  approvals,  \* EscrowReleaseApproval rows
  uncertain,  \* the funding evidence is uncertain
  obligation, \* the settlement kind of the FeeObligation, or "none"
  events,     \* terminal EscrowEvents: status and transaction
  acked,      \* rows whose submitter was told complete
  call,
  faults

escrowVars == <<status, tx>>
rowVars == <<rows, live>>
rulingVars == <<dispute, record>>
gateVars == <<econ, capa, grant>>
sideVars == <<approvals, uncertain>>
effectVars == <<obligation, events, acked>>
vars == <<escrowVars, rowVars, spent, rulingVars, gateVars, sideVars, effectVars, call, faults>>

Calls == Requests \cup Jobs
Rounds == 0..(Len(Panel) - 1)
Arbiters == {Panel[i] : i \in 1..Len(Panel)}
Parties == {"buyer", "seller"}

\* Enough signatures that a new one differs from every one still remembered.
Sigs == 1..(MaxRows + Cardinality(Calls) + 2)

Gens == [disputed : BOOLEAN, round : Rounds, arbiter : Arbiters \cup {"none"},
         ruling : Kinds \cup {"none"}, sig : Sigs \cup {0}]
NoGen == [disputed |-> FALSE, round |-> 0, arbiter |-> "none", ruling |-> "none", sig |-> 0]

Target(k) ==
  CASE k = "release" -> "COMPLETED" [] k = "refund" -> "REFUNDED" [] k = "split" -> "SPLIT"

\* requiredSigners of buildUnsignedRelease, buildUnsignedRefund, buildUnsignedSplit.
RequiredSigners(i) ==
  CASE ~rows[i].gen.disputed      -> Parties
    [] rows[i].kind = "refund"    -> {"seller"}
    [] OTHER                      -> {"buyer"}

allSubmitted(i) == RequiredSigners(i) \subseteq rows[i].signed

Idle == [pc |-> "idle", op |-> "none", kind |-> "release", by |-> "seller",
         from |-> "FUNDS_LOCKED", id |-> 0, row |-> 0, gen |-> NoGen, was |-> "OPENED",
         round |-> 0, sig |-> 0]

\* Inside the try of submitTransactionSignature.
InTry == {"broadcast", "result", "obligation", "emit"}

PCs == InTry \cup {"idle", "core", "authority", "exists", "create", "pending", "upsert",
                   "signatures", "economic", "capability", "claim", "delete", "revert",
                   "opened", "assign", "commit", "eligible", "guard", "unrule", "unrecord",
                   "appeal", "ask", "stale"}

Ops == {"none", "initiate", "sign", "dispute", "resolve", "appeal",
        "unclaimed", "terminal", "effects", "resume", "stale"}

TypeOK ==
  /\ status \in Statuses
  /\ rows \in Seq([kind : Kinds, by : Arbiters \cup {"seller"}, gen : Gens,
                   signed : SUBSET Parties])
  /\ {tx, live, spent} \subseteq 0..Len(rows)
  /\ dispute \in [status : {"none", "OPENED", "RESOLVED", "APPEALED"}, round : Rounds,
                  arbiter : Arbiters \cup {"none"}, ruling : Kinds \cup {"none"},
                  sig : Sigs \cup {0}]
  /\ record \in [Rounds -> Kinds \cup {"none"}]
  /\ econ \cup capa \cup acked \subseteq 1..Len(rows)
  /\ {grant, uncertain} \subseteq BOOLEAN
  /\ approvals \subseteq Parties
  /\ obligation \in Kinds \cup {"none"}
  /\ events \subseteq [status : TerminalStatuses, tx : 1..Len(rows)]
  /\ call \in [Calls -> [pc : PCs, op : Ops, kind : Kinds \cup {"release"},
                         by : Arbiters \cup Parties, from : Statuses, id : 0..Len(rows),
                         row : 0..Len(rows), gen : Gens, was : {"OPENED", "APPEALED"},
                         round : Rounds, sig : Sigs \cup {0}]]
  /\ faults \in 0..MaxFaults

Init ==
  /\ status = "FUNDS_LOCKED"
  /\ tx = 0 /\ rows = <<>> /\ live = 0 /\ spent = 0
  /\ dispute = [status |-> "none", round |-> 0, arbiter |-> "none", ruling |-> "none", sig |-> 0]
  /\ record = [r \in Rounds |-> "none"]
  /\ econ = {} /\ capa = {} /\ grant = TRUE
  /\ approvals = {} /\ uncertain = FALSE
  /\ obligation = "none" /\ events = {} /\ acked = {}
  /\ call = [c \in Calls |-> Idle]
  /\ faults = 0

-----------------------------------------------------------------------------

Goto(c, pc) == call' = [call EXCEPT ![c].pc = pc]
Leave(c) == call' = [call EXCEPT ![c] = Idle]
At(c, pc) == call[c].pc = pc

\* Mutant of Throw: the best-effort delete of the pending row is inside the try.
ThrowFromDelete(c) ==
  CASE call[c].op = "sign" /\ call[c].pc \in InTry \cup {"delete"}        -> Goto(c, "revert")
    [] call[c].op = "resolve" /\ call[c].pc \notin {"commit", "unrule", "unrecord"} ->
          Goto(c, "unrule")
    [] OTHER                                                             -> Leave(c)

\* A rejected await: the catch of submitTransactionSignature hands the claim back,
\* the catch of a ruling hands the ruling back, every other caller just throws.
Throw(c) ==
  CASE call[c].op = "sign" /\ call[c].pc \in InTry                       -> Goto(c, "revert")
    [] call[c].op = "resolve" /\ call[c].pc \notin {"commit", "unrule", "unrecord"} ->
          Goto(c, "unrule")
    [] OTHER                                                             -> Leave(c)

\* The transitions of other handlers: each claims with a compare-and-set on the
\* status it read, so read and claim are one step here.
MarkPaymentSent ==
  /\ status = "FUNDS_LOCKED" /\ ~(MULTISIG /\ uncertain)
  /\ status' = "PAYMENT_PENDING"
  /\ UNCHANGED <<tx, rowVars, spent, rulingVars, gateVars, sideVars, effectVars, call, faults>>

SweepExpired ==
  /\ "expire" \in Handlers
  /\ status = "FUNDS_LOCKED"
  /\ status' = "EXPIRED"
  /\ UNCHANGED <<tx, rowVars, spent, rulingVars, gateVars, sideVars, effectVars, call, faults>>

approveRelease(p) ==
  /\ requireDualApprovalForRelease
  /\ p \notin approvals
  /\ approvals' = approvals \cup {p}
  /\ UNCHANGED <<escrowVars, rowVars, spent, rulingVars, gateVars, uncertain, effectVars, call,
                 faults>>

\* The funding sweep's view of the chain changes; FundingEvidence has the detail.
FundingSweep ==
  /\ "sweep" \in Handlers
  /\ uncertain' = ~uncertain
  /\ UNCHANGED <<escrowVars, rowVars, spent, rulingVars, gateVars, approvals, effectVars, call,
                 faults>>

RevokeCapability ==
  /\ enforceCapabilities /\ grant
  /\ grant' = FALSE
  /\ UNCHANGED <<escrowVars, rowVars, spent, rulingVars, econ, capa, sideVars, effectVars, call,
                 faults>>

-----------------------------------------------------------------------------
\* initiateRelease, initiateRefund, initiateSplit.

hasDualApproval == approvals = Parties

\* initiateRelease reads the escrow once for two-person control, before the core.
ReleaseAllowed(k) ==
  k = "release" /\ requireDualApprovalForRelease /\ status = "PAYMENT_PENDING" => hasDualApproval

Initiate(c, k, by) ==
  /\ At(c, "idle")
  /\ ReleaseAllowed(k)
  /\ call' = [call EXCEPT ![c] = [Idle EXCEPT !.pc = "core", !.op = "initiate", !.kind = k,
                                              !.by = by]]
  /\ UNCHANGED <<escrowVars, rowVars, spent, rulingVars, gateVars, sideVars, effectVars, faults>>

FundingRefuses(k) == MULTISIG /\ k \in {"release", "split"} /\ uncertain

\* initiateSignatureCollectionCore reads the escrow again.
ReadForInitiate(c) ==
  /\ At(c, "core")
  /\ IF Target(call[c].kind) \in VALID_TRANSITIONS[status] /\ ~FundingRefuses(call[c].kind)
     THEN call' = [call EXCEPT ![c].pc = "authority", ![c].from = status]
     ELSE Throw(c)
  /\ UNCHANGED <<escrowVars, rowVars, spent, rulingVars, gateVars, sideVars, effectVars, faults>>

IsAssignedArbiter(a) == dispute.status # "none" /\ dispute.arbiter = a

Generation == [disputed |-> TRUE, round |-> dispute.round, arbiter |-> dispute.arbiter,
               ruling |-> dispute.ruling, sig |-> dispute.sig]

\* While disputed only the assigned arbiter disposes, and the ruling generation it
\* acts under is copied; otherwise the seller or the arbiter.  Then the capability.
CheckAuthority(c) ==
  LET disputed == call[c].from = "DISPUTED"
      allowed  == /\ IsAssignedArbiter(call[c].by) \/ (~disputed /\ call[c].by = "seller")
                  /\ enforceCapabilities => grant
  IN  /\ At(c, "authority")
      /\ IF allowed
         THEN call' = [call EXCEPT ![c].pc = "exists",
                                   ![c].gen = IF disputed THEN Generation ELSE NoGen]
         ELSE Throw(c)
      /\ UNCHANGED <<escrowVars, rowVars, spent, rulingVars, gateVars, sideVars, effectVars,
                     faults>>

CheckExisting(c) ==
  /\ At(c, "exists")
  /\ IF live = 0 THEN Goto(c, "create") ELSE Throw(c)
  /\ UNCHANGED <<escrowVars, rowVars, spent, rulingVars, gateVars, sideVars, effectVars, faults>>

\* Under the funding lock: the evidence once more, and the insert (escrowId is unique).
CreatePending(c) ==
  /\ At(c, "create")
  /\ \/ /\ live = 0 /\ ~FundingRefuses(call[c].kind)
        /\ Len(rows) < MaxRows
        /\ rows' = Append(rows, [kind |-> call[c].kind, by |-> call[c].by, gen |-> call[c].gen,
                                 signed |-> {}])
        /\ live' = Len(rows) + 1
        /\ IF MULTISIG /\ call[c].op \in {"resolve", "resume"} THEN Goto(c, "guard") ELSE Leave(c)
     \/ /\ live # 0 \/ FundingRefuses(call[c].kind)
        /\ Throw(c)
        /\ UNCHANGED rowVars
  /\ UNCHANGED <<escrowVars, spent, rulingVars, gateVars, sideVars, effectVars, faults>>

-----------------------------------------------------------------------------
\* submitTransactionSignature.

Submit(c, p) ==
  /\ At(c, "idle")
  /\ call' = [call EXCEPT ![c] = [Idle EXCEPT !.pc = "pending", !.op = "sign", !.by = p,
                                              !.from = status]]
  /\ UNCHANGED <<escrowVars, rowVars, spent, rulingVars, gateVars, sideVars, effectVars, faults>>

ReadPending(c) ==
  /\ At(c, "pending") /\ call[c].op = "sign"
  /\ IF live # 0 /\ call[c].by \in RequiredSigners(live)
     THEN call' = [call EXCEPT ![c].pc = "upsert", ![c].id = live, ![c].row = live,
                               ![c].kind = rows[live].kind]
     ELSE Leave(c)
  /\ UNCHANGED <<escrowVars, rowVars, spent, rulingVars, gateVars, sideVars, effectVars, faults>>

\* Signatures are deleted with their row, and cannot be added to a deleted one.
UpsertSignature(c) ==
  /\ At(c, "upsert")
  /\ IF live = call[c].id
     THEN /\ rows' = [rows EXCEPT ![live].signed = @ \cup {call[c].by}]
          /\ Goto(c, "signatures")
     ELSE UNCHANGED rows /\ Leave(c)
  /\ UNCHANGED <<escrowVars, live, spent, rulingVars, gateVars, sideVars, effectVars, faults>>

ReadSignatures(c) ==
  /\ At(c, "signatures")
  /\ IF live = call[c].id /\ allSubmitted(live) THEN Goto(c, "economic") ELSE Leave(c)
  /\ UNCHANGED <<escrowVars, rowVars, spent, rulingVars, gateVars, sideVars, effectVars, faults>>

IsCurrent(g) == dispute.status = "RESOLVED" /\ g = Generation

\* Mutant of AuthorizeDisputed: any ruling of the dispute authorises the row.
AuthorizeAnyRuling(c) ==
  /\ At(c, "economic")
  /\ IF rows[call[c].id].gen.disputed
     THEN econ' = econ \cup {call[c].id} /\ Goto(c, "capability")
     ELSE UNCHANGED econ /\ IF dispute.status = "none" THEN Goto(c, "capability") ELSE Throw(c)
  /\ UNCHANGED <<escrowVars, rowVars, spent, rulingVars, capa, grant, sideVars, effectVars,
                 faults>>

\* authorizeDisputedPendingExecution.
AuthorizeDisputed(c) ==
  LET i == call[c].id
  IN  /\ At(c, "economic")
      /\ \/ /\ ~rows[i].gen.disputed
            /\ IF dispute.status = "none" THEN Goto(c, "capability") ELSE Throw(c)
            /\ UNCHANGED econ
         \/ /\ rows[i].gen.disputed
            /\ IF i \in econ \/ IsCurrent(rows[i].gen)
               THEN econ' = econ \cup {i} /\ Goto(c, "capability")
               ELSE UNCHANGED econ /\ Throw(c)
      /\ UNCHANGED <<escrowVars, rowVars, spent, rulingVars, capa, grant, sideVars, effectVars,
                     faults>>

\* The recovery jobs ask the chain before they claim; a request claims first.
AfterGates(c) == IF call[c].op = "sign" THEN "claim" ELSE "broadcast"

\* authorizePendingExecution.
AuthorizeCapability(c) ==
  LET i == call[c].id
  IN  /\ At(c, "capability")
      /\ CASE ~enforceCapabilities      -> UNCHANGED capa /\ Goto(c, AfterGates(c))
           [] enforceCapabilities /\ (i \in capa \/ grant) ->
                capa' = capa \cup {i} /\ Goto(c, AfterGates(c))
           [] OTHER                     -> UNCHANGED capa /\ Throw(c)
      /\ UNCHANGED <<escrowVars, rowVars, spent, rulingVars, econ, grant, sideVars, effectVars,
                     faults>>

\* Mutant of ClaimTerminal: the update does not compare the status.
ClaimWithoutCompare(c) ==
  /\ At(c, "claim")
  /\ IF Target(call[c].kind) \in VALID_TRANSITIONS[call[c].from]
     THEN /\ status' = Target(call[c].kind)
          /\ Goto(c, IF call[c].op = "sign" THEN "broadcast" ELSE "result")
     ELSE UNCHANGED status /\ Throw(c)
  /\ UNCHANGED <<tx, rowVars, spent, rulingVars, gateVars, sideVars, effectVars, faults>>

\* claimEscrowTransition from the status the call read when it started.
ClaimTerminal(c) ==
  /\ At(c, "claim")
  /\ IF Target(call[c].kind) \in VALID_TRANSITIONS[call[c].from] /\ status = call[c].from
     THEN /\ status' = Target(call[c].kind)
          /\ Goto(c, IF call[c].op = "sign" THEN "broadcast" ELSE "result")
     ELSE UNCHANGED status /\ Throw(c)
  /\ UNCHANGED <<tx, rowVars, spent, rulingVars, gateVars, sideVars, effectVars, faults>>

\* What follows a broadcast: the request and the txReleaseId pass already have the claim.
AfterBroadcast(c) == IF call[c].op = "unclaimed" THEN "claim" ELSE "result"

\* Mutant of Broadcast: the answer of the network is not looked at.
BroadcastUnchecked(c) ==
  /\ At(c, "broadcast")
  /\ \/ spent = 0 /\ spent' = call[c].id
     \/ UNCHANGED spent
  /\ Goto(c, AfterBroadcast(c))
  /\ UNCHANGED <<escrowVars, rowVars, rulingVars, gateVars, sideVars, effectVars, faults>>

\* finalizeRelease, finalizeRefund, finalizeSplit.  The network takes the first spend of
\* the funding outpoint; it may take it and the answer be lost, and it may
\* answer a transaction it already has with an error.
Broadcast(c) ==
  LET i == call[c].id
  IN  /\ At(c, "broadcast")
      /\ \/ /\ spent \in {0, i}
            /\ spent' = i
            /\ Goto(c, AfterBroadcast(c))
            /\ UNCHANGED faults
         \/ /\ spent \in {0, i} /\ Rejects /\ faults < MaxFaults
            /\ spent' = i
            /\ Throw(c)
            /\ faults' = faults + 1
         \/ /\ spent # 0
            /\ Throw(c)
            /\ UNCHANGED <<spent, faults>>
      /\ UNCHANGED <<escrowVars, rowVars, rulingVars, gateVars, sideVars, effectVars>>

\* updateSignatureCollectionResult; the txReleaseId pass writes only a missing id.
RecordResult(c) ==
  /\ At(c, "result")
  /\ tx' = IF call[c].op = "terminal" /\ tx # 0 THEN tx ELSE call[c].id
  /\ Goto(c, "obligation")
  /\ UNCHANGED <<status, rowVars, spent, rulingVars, gateVars, sideVars, effectVars, faults>>

\* recordObligationForEscrowSettlement never throws, and keeps an existing row.
RecordObligation(c) ==
  /\ At(c, "obligation")
  /\ obligation' = IF obligation = "none" THEN call[c].kind ELSE obligation
  /\ Goto(c, "emit")
  /\ UNCHANGED <<escrowVars, rowVars, spent, rulingVars, gateVars, sideVars, events, acked,
                 faults>>

\* emitEscrowTransition, once per terminal status.
EmitTransition(c) ==
  LET s == Target(call[c].kind)
  IN  /\ At(c, "emit")
      /\ events' = IF \E e \in events : e.status = s THEN events
                   ELSE events \cup {[status |-> s, tx |-> call[c].id]}
      /\ Goto(c, "delete")
      /\ UNCHANGED <<escrowVars, rowVars, spent, rulingVars, gateVars, sideVars, obligation,
                     acked, faults>>

\* The row is deleted by its id, best effort, and the caller answered.
DeletePending(c) ==
  /\ At(c, "delete")
  /\ \/ live' = (IF live = call[c].row THEN 0 ELSE live) /\ UNCHANGED faults
     \/ faults < MaxFaults /\ faults' = faults + 1 /\ UNCHANGED live
  /\ acked' = IF call[c].op = "sign" THEN acked \cup {call[c].id} ELSE acked
  /\ Leave(c)
  /\ UNCHANGED <<escrowVars, rows, spent, rulingVars, gateVars, sideVars, obligation, events>>

\* revertEscrowStatus: only while the row still shows the claimed status.
RevertClaim(c) ==
  /\ At(c, "revert")
  /\ status' = IF status = Target(call[c].kind) THEN call[c].from ELSE status
  /\ Leave(c)
  /\ UNCHANGED <<tx, rowVars, spent, rulingVars, gateVars, sideVars, effectVars, faults>>

-----------------------------------------------------------------------------
\* dispute.service.ts.

\* raiseDispute: openDispute first, the Dispute row after it, the arbiter last.
OpenDispute(c) ==
  /\ At(c, "idle")
  /\ "DISPUTED" \in VALID_TRANSITIONS[status]
  /\ status' = "DISPUTED"
  /\ call' = [call EXCEPT ![c] = [Idle EXCEPT !.pc = "opened", !.op = "dispute"]]
  /\ UNCHANGED <<tx, rowVars, spent, rulingVars, gateVars, sideVars, effectVars, faults>>

CreateDispute(c) ==
  /\ At(c, "opened")
  /\ IF dispute.status = "none"
     THEN dispute' = [dispute EXCEPT !.status = "OPENED"] /\ Goto(c, "assign")
     ELSE UNCHANGED dispute /\ Leave(c)
  /\ UNCHANGED <<escrowVars, rowVars, spent, record, gateVars, sideVars, effectVars, faults>>

AssignArbiter(c) ==
  /\ At(c, "assign")
  /\ dispute' = [dispute EXCEPT !.arbiter = Panel[1]]
  /\ Leave(c)
  /\ UNCHANGED <<escrowVars, rowVars, spent, record, gateVars, sideVars, effectVars, faults>>

\* resolveDispute, up to the ruling's transaction.
Resolve(c, k, a) ==
  /\ At(c, "idle")
  /\ dispute.status \notin {"none", "RESOLVED"} /\ IsAssignedArbiter(a)
  /\ call' = [call EXCEPT ![c] = [Idle EXCEPT !.pc = "commit", !.op = "resolve", !.kind = k,
                                              !.by = a, !.was = dispute.status,
                                              !.round = dispute.round]]
  /\ UNCHANGED <<escrowVars, rowVars, spent, rulingVars, gateVars, sideVars, effectVars, faults>>

\* The authority signature of a new decision; Sigs bounds how many there are.
NewSig ==
  LET used == {rows[i].gen.sig : i \in 1..Len(rows)} \cup {dispute.sig}
                 \cup {call[c].sig : c \in Calls} \cup {call[c].gen.sig : c \in Calls}
  IN  CHOOSE s \in Sigs : s \notin used

\* applyRuling's and commitAuthoritativeDisputeRuling's claim of the Dispute row; for
\* MULTISIG with the durable record, unique per appeal round.
CommitRuling(c) ==
  LET r == call[c].round
  IN  /\ At(c, "commit") /\ NewSig \in Sigs
      /\ IF /\ dispute.status # "RESOLVED" /\ dispute.arbiter = call[c].by
            /\ MULTISIG => record[r] = "none"
         THEN /\ dispute' = [dispute EXCEPT !.status = "RESOLVED", !.ruling = call[c].kind,
                                            !.sig = NewSig]
              /\ record' = IF MULTISIG THEN [record EXCEPT ![r] = call[c].kind] ELSE record
              /\ call' = [call EXCEPT ![c].pc = "eligible", ![c].sig = NewSig]
         ELSE UNCHANGED rulingVars /\ Leave(c)
      /\ UNCHANGED <<escrowVars, rowVars, spent, gateVars, sideVars, effectVars, faults>>

\* assertDisputeDispatchEligible (MULTISIG), then the initiate of the ruling's kind.
DispatchEligible(c) ==
  MULTISIG => /\ record[call[c].round] # "none"
              /\ live = 0
              /\ status \notin TerminalStatuses

Dispatch(c) ==
  /\ At(c, "eligible")
  /\ IF DispatchEligible(c) /\ ReleaseAllowed(call[c].kind) THEN Goto(c, "core") ELSE Throw(c)
  /\ UNCHANGED <<escrowVars, rowVars, spent, rulingVars, gateVars, sideVars, effectVars, faults>>

\* assertTranslationMatchesOutcome: on a mismatch the escrow's pending row is deleted.
TranslationGuard(c) ==
  /\ At(c, "guard")
  /\ \/ Leave(c) /\ UNCHANGED <<live, faults>>
     \/ /\ faults < MaxFaults /\ faults' = faults + 1
        /\ live' = 0
        /\ Throw(c)
  /\ UNCHANGED <<escrowVars, rows, spent, rulingVars, gateVars, sideVars, effectVars>>

\* Mutant of RevertRuling: the dispute is updated by its id alone.
RevertRulingById(c) ==
  /\ At(c, "unrule")
  /\ dispute' = [dispute EXCEPT !.status = call[c].was, !.ruling = "none", !.sig = 0]
  /\ IF MULTISIG THEN Goto(c, "unrecord") ELSE Leave(c)
  /\ UNCHANGED <<escrowVars, rowVars, spent, record, gateVars, sideVars, effectVars, faults>>

\* The ruling is handed back only while it is still this decision.
RevertRuling(c) ==
  LET mine == /\ dispute.status = "RESOLVED" /\ dispute.ruling = call[c].kind
              /\ dispute.arbiter = call[c].by /\ dispute.round = call[c].round
              /\ dispute.sig = call[c].sig
  IN  /\ At(c, "unrule")
      /\ dispute' = IF mine THEN [dispute EXCEPT !.status = call[c].was, !.ruling = "none",
                                                 !.sig = 0]
                    ELSE dispute
      /\ IF MULTISIG THEN Goto(c, "unrecord") ELSE Leave(c)
      /\ UNCHANGED <<escrowVars, rowVars, spent, record, gateVars, sideVars, effectVars, faults>>

\* revertDisputeRulingRecord.
RevertRecord(c) ==
  /\ At(c, "unrecord")
  /\ record' = [record EXCEPT ![call[c].round] = "none"]
  /\ Leave(c)
  /\ UNCHANGED <<escrowVars, rowVars, spent, dispute, gateVars, sideVars, effectVars, faults>>

\* appeal: refused where the arbiter is committed, else a new panel takes over.
Appeal(c) ==
  /\ At(c, "idle")
  /\ ~MULTISIG /\ dispute.status = "RESOLVED" /\ dispute.round + 1 \in Rounds
  /\ call' = [call EXCEPT ![c] = [Idle EXCEPT !.pc = "appeal", !.op = "appeal",
                                              !.round = dispute.round]]
  /\ UNCHANGED <<escrowVars, rowVars, spent, rulingVars, gateVars, sideVars, effectVars, faults>>

CommitAppeal(c) ==
  /\ At(c, "appeal")
  /\ dispute' = IF dispute.status = "RESOLVED" /\ dispute.round = call[c].round
                THEN [dispute EXCEPT !.status = "APPEALED", !.round = @ + 1, !.ruling = "none",
                                     !.arbiter = Panel[dispute.round + 2]]
                ELSE dispute
  /\ Leave(c)
  /\ UNCHANGED <<escrowVars, rowVars, spent, record, gateVars, sideVars, effectVars, faults>>

-----------------------------------------------------------------------------
\* Recovery jobs, MULTISIG only.

\* Mutant of ReadUnclaimed: only disputed escrows are looked at.
ReadUnclaimedDisputed(c) ==
  /\ At(c, "idle")
  /\ MULTISIG /\ live # 0 /\ allSubmitted(live) /\ status = "DISPUTED"
  /\ call' = [call EXCEPT ![c] = [Idle EXCEPT !.pc = "ask", !.op = "unclaimed", !.id = live,
                                              !.row = live, !.kind = rows[live].kind,
                                              !.from = status]]
  /\ UNCHANGED <<escrowVars, rowVars, spent, rulingVars, gateVars, sideVars, effectVars, faults>>

\* reconcileUnclaimedFullySignedPending: fully signed, not terminal.
ReadUnclaimed(c) ==
  /\ At(c, "idle")
  /\ MULTISIG /\ live # 0 /\ allSubmitted(live) /\ status \notin TerminalStatuses
  /\ call' = [call EXCEPT ![c] = [Idle EXCEPT !.pc = "ask", !.op = "unclaimed", !.id = live,
                                              !.row = live, !.kind = rows[live].kind,
                                              !.from = status]]
  /\ UNCHANGED <<escrowVars, rowVars, spent, rulingVars, gateVars, sideVars, effectVars, faults>>

\* reconcileTxReleaseId: terminal, no txReleaseId, and the pending row agrees.  The
\* escrow was read before the row.
ReadTerminal(c) ==
  /\ At(c, "idle")
  /\ MULTISIG /\ status \in TerminalStatuses /\ tx = 0
  /\ call' = [call EXCEPT ![c] = [Idle EXCEPT !.pc = "pending", !.op = "terminal",
                                              !.from = status]]
  /\ UNCHANGED <<escrowVars, rowVars, spent, rulingVars, gateVars, sideVars, effectVars, faults>>

ReadTerminalPending(c) ==
  /\ At(c, "pending") /\ call[c].op = "terminal"
  /\ IF live # 0 /\ Target(rows[live].kind) = call[c].from /\ allSubmitted(live)
     THEN call' = [call EXCEPT ![c].pc = "ask", ![c].id = live, ![c].row = live,
                               ![c].kind = rows[live].kind]
     ELSE Leave(c)
  /\ UNCHANGED <<escrowVars, rowVars, spent, rulingVars, gateVars, sideVars, effectVars, faults>>

\* Mutant of AskChain: a first broadcast does not pass the commit gates.
AskChainUngated(c) ==
  /\ At(c, "ask")
  /\ CASE spent = call[c].id -> Goto(c, AfterBroadcast(c))
       [] spent = 0          -> Goto(c, "broadcast")
       [] OTHER              -> Leave(c)
  /\ UNCHANGED <<escrowVars, rowVars, spent, rulingVars, gateVars, sideVars, effectVars, faults>>

\* reconcilePendingSettlement: what does the chain say of this transaction?
AskChain(c) ==
  LET i == call[c].id
  IN  /\ At(c, "ask")
      /\ CASE spent = i -> Goto(c, AfterBroadcast(c))
           [] spent = 0 -> Goto(c, IF call[c].op = "unclaimed" THEN "economic" ELSE "broadcast")
           [] OTHER     -> Leave(c)
      /\ UNCHANGED <<escrowVars, rowVars, spent, rulingVars, gateVars, sideVars, effectVars,
                     faults>>

SettledKind == CHOOSE k \in {"release", "refund", "split"} : Target(k) = status

\* reconcileMissingCompletionEffects: terminal with a txReleaseId and no event.
ReadEffects(c) ==
  /\ At(c, "idle")
  /\ status \in TerminalStatuses /\ tx # 0
  /\ \A e \in events : e.status # status
  /\ call' = [call EXCEPT ![c] = [Idle EXCEPT !.pc = IF status = "SPLIT" /\ live = 0
                                                     THEN "emit" ELSE "obligation",
                                              !.op = "effects", !.id = tx, !.row = live,
                                              !.kind = SettledKind]]
  /\ UNCHANGED <<escrowVars, rowVars, spent, rulingVars, gateVars, sideVars, effectVars, faults>>

\* reconcileMissingDispatch: a RESOLVED dispute whose dispatch was lost.
ResumeDispatch(c) ==
  /\ At(c, "idle")
  /\ MULTISIG /\ dispute.status = "RESOLVED" /\ status \notin TerminalStatuses
  /\ live = 0 /\ record[dispute.round] # "none"
  /\ ReleaseAllowed(record[dispute.round])
  /\ call' = [call EXCEPT ![c] = [Idle EXCEPT !.pc = "core", !.op = "resume",
                                              !.kind = record[dispute.round],
                                              !.by = dispute.arbiter]]
  /\ UNCHANGED <<escrowVars, rowVars, spent, rulingVars, gateVars, sideVars, effectVars, faults>>

\* reconcileStalePendingDisputeTranslations: an old row without signatures that does
\* not translate the durable ruling is deleted by its id.
ReadStale(c) ==
  /\ At(c, "idle")
  /\ MULTISIG /\ dispute.status = "RESOLVED" /\ live # 0 /\ rows[live].signed = {}
  /\ call' = [call EXCEPT ![c] = [Idle EXCEPT !.pc = "stale", !.op = "stale", !.row = live]]
  /\ UNCHANGED <<escrowVars, rowVars, spent, rulingVars, gateVars, sideVars, effectVars, faults>>

DeleteStale(c) ==
  /\ At(c, "stale")
  /\ live' = IF /\ live = call[c].row /\ dispute.status = "RESOLVED"
                /\ rows[call[c].row].kind # record[dispute.round]
             THEN 0 ELSE live
  /\ Leave(c)
  /\ UNCHANGED <<escrowVars, rows, spent, rulingVars, gateVars, sideVars, effectVars, faults>>

-----------------------------------------------------------------------------

\* An await rejects, or the process dies.
Fault(c) ==
  /\ ~At(c, "idle") /\ faults < MaxFaults
  /\ faults' = faults + 1
  /\ (Rejects /\ Throw(c)) \/ Leave(c)
  /\ UNCHANGED <<escrowVars, rowVars, spent, rulingVars, gateVars, sideVars, effectVars>>

AllIdle(S) == \A c \in S : At(c, "idle")

Request(c) ==
  /\ Overlap \/ AllIdle(Jobs)
  /\ \/ "initiate" \in Handlers /\ \E k \in Kinds, a \in Arbiters \cup {"seller"} : Initiate(c, k, a)
     \/ "sign" \in Handlers /\ \E p \in Parties : Submit(c, p)
     \/ "dispute" \in Handlers /\ OpenDispute(c)
     \/ "resolve" \in Handlers /\ \E k \in Kinds, a \in Arbiters : Resolve(c, k, a)
     \/ "appeal" \in Handlers /\ Appeal(c)

Job(c) ==
  /\ Overlap \/ AllIdle(Requests)
  /\ \/ ReadUnclaimed(c) \/ ReadTerminal(c) \/ ReadEffects(c)
     \/ ResumeDispatch(c) \/ ReadStale(c)

Step(c) ==
  \/ ReadForInitiate(c) \/ CheckAuthority(c) \/ CheckExisting(c) \/ CreatePending(c)
  \/ ReadPending(c) \/ UpsertSignature(c) \/ ReadSignatures(c)
  \/ AuthorizeDisputed(c) \/ AuthorizeCapability(c) \/ ClaimTerminal(c) \/ Broadcast(c)
  \/ RecordResult(c) \/ RecordObligation(c) \/ EmitTransition(c) \/ DeletePending(c)
  \/ RevertClaim(c)
  \/ CreateDispute(c) \/ AssignArbiter(c)
  \/ CommitRuling(c) \/ Dispatch(c) \/ TranslationGuard(c) \/ RevertRuling(c) \/ RevertRecord(c)
  \/ CommitAppeal(c)
  \/ ReadTerminalPending(c) \/ AskChain(c) \/ DeleteStale(c)

Other ==
  \/ MarkPaymentSent \/ SweepExpired \/ FundingSweep \/ RevokeCapability
  \/ \E p \in Parties : approveRelease(p)

Next ==
  \/ Other
  \/ \E c \in Requests : Request(c)
  \/ \E c \in Jobs : Job(c)
  \/ \E c \in Calls : Step(c) \/ Fault(c)

Spec == Init /\ [][Next]_vars

\* A handler that was started runs on, and the recovery jobs are run again and again.
Fairness ==
  /\ \A c \in Calls : WF_vars(Step(c))
  /\ \A c \in Jobs : SF_vars(Job(c))

FairSpec == Spec /\ Fairness

\* The arbiter rules and the signers sign again and again while they can.
ResponsiveSpec ==
  /\ FairSpec
  /\ \A c \in Requests :
        /\ SF_vars(\E k \in Kinds, a \in Arbiters : Resolve(c, k, a) /\ AllIdle(Jobs))
        /\ \A p \in Parties : SF_vars(Submit(c, p) /\ AllIdle(Jobs))

-----------------------------------------------------------------------------

\* A caller told that the settlement is complete was told the truth, and it stays true:
\* status, txReleaseId and the chain show that transaction.
AckedIsFinal ==
  \A i \in acked : status = Target(rows[i].kind) /\ tx = i /\ spent = i

\* An escrow event and the fee obligation are about the transaction that moved the money.
AnnouncedIsTrue ==
  /\ \A e \in events : e.tx = spent /\ e.status = Target(rows[spent].kind)
  /\ obligation # "none" => spent # 0 /\ obligation = rows[spent].kind

\* revertEscrowStatus: "A delayed worker may restore the prior state only while it still
\* owns the exact claimed state".  What was announced is never taken back.
AnnouncedIsFinal == \A e \in events : status = e.status

\* No transaction reaches the network before both commit gates authorised its row,
\* whoever broadcasts it.
ExecutedUnderAuthority ==
  spent # 0 => /\ rows[spent].gen.disputed => spent \in econ
               /\ enforceCapabilities => spent \in capa

\* An appeal supersedes the ruling it appeals.  A row of an older round that the commit
\* gate had not authorised when the appeal committed is never authorised and never executed.
SupersededNeverExecutes ==
  [][\A i \in 1..Len(rows) :
        /\ rows[i].gen.disputed /\ rows[i].gen.round < dispute.round /\ i \notin econ
        => i \notin econ' /\ spent' # i]_vars

\* A failed ruling that hands its decision back never undoes an appeal that committed in
\* between: an appealed dispute waits for its new arbiter's ruling and for nothing else.
AppealStands ==
  [][dispute.status = "APPEALED" => dispute'.status \in {"APPEALED", "RESOLVED"}]_vars

\* assertDisputedDispositionAuthority: while disputed, a disposition is "the economic
\* effect of the dispute's current ruling".
\* The code does not keep this: README, section 4.
RulingObeyed ==
  spent # 0 /\ rows[spent].gen.disputed => rows[spent].kind = rows[spent].gen.ruling

\* Once the money moved, the status can still be brought in line with it.
Recoverable ==
  spent # 0 => LET s == Target(rows[spent].kind)
               IN  status = s \/ s \in VALID_TRANSITIONS[status]

Recorded ==
  /\ spent # 0 /\ tx = spent /\ status = Target(rows[spent].kind)
  /\ \E e \in events : e.tx = spent

\* Recovery converges: whatever call died after a broadcast, the escrow ends up in
\* the status, with the txReleaseId and the event, of the transaction that moved the money.
Converges == spent # 0 ~> (Recorded \/ ~Recoverable)

\* A dispute with an arbiter ends: an escrow is not left with "no path forward at all".
DisputeDecided == dispute.arbiter # "none" ~> status \in TerminalStatuses

=============================================================================
