---------------------------- MODULE DisputeRecord ---------------------------
(***************************************************************************)
(* modules/open-settlement/dispute.service.ts: the Dispute row of one      *)
(* escrow on a direct-call rail in market arbitration, and everything that *)
(* writes it - evidence, the advisory automated proposal with its contest  *)
(* window and sweep, rulings, appeals, the appeal fee and the slash.       *)
(* Every await of a call is a step; "seen" keeps the columns a call has    *)
(* read and uses later.                                                    *)
(***************************************************************************)
EXTENDS Naturals, FiniteSets

CONSTANTS
  Calls,      \* request handlers, event handlers and sweeps
  Ops,        \* what they may be asked for
  Arbiters,
  Evidence,   \* descriptors the parties submit
  Rulings,
  MaxRounds,  \* bound: appeals
  MaxFaults   \* bound: deaths of a process and rejected provider calls

ASSUME DisputeAssumption ==
  /\ Arbiters # {} /\ MaxRounds \in Nat /\ MaxFaults \in Nat
  /\ "none" \notin Rulings \cup Arbiters

VARIABLES
  row,       \* the Dispute row
  executed,  \* the ruling the escrow has executed, if it left DISPUTED
  call,
  fee,       \* DisputeAppealFee per round: its outcome, and the ruling appealed against
  slashes,   \* history: <<slashed arbiter, round, ruling that overruled>>
  ruled,     \* history: <<round, arbiter, ruling>> of every claim
  acked,     \* history: evidence whose submission was acknowledged
  cut,       \* history: a process died holding a claimed ruling
  faults

vars == <<row, executed, call, fee, slashes, ruled, acked, cut, faults>>
historyVars == <<slashes, ruled, acked, cut>>

None == "none"
Open == {"OPENED", "EVIDENCE_SUBMITTED"}
DisputeStatuses == Open \cup {"AUTO_PROPOSED", "RESOLVED", "APPEALED"}
Rounds == 0..MaxRounds

RowType ==
  [status : DisputeStatuses, evidence : SUBSET Evidence, deadline : {"none", "open", "past"},
   ruling : Rulings \cup {None}, signedFor : Rounds, arbiter : Arbiters, round : Rounds,
   previousRuling : Rulings \cup {None}, previousArbiter : Arbiters \cup {None}]

PCs == {"idle", "append", "announce", "assess", "propose", "contest", "sweep",
        "claim", "authorize", "move", "handBack", "slash", "settle", "appeal"}
Holding == {"authorize", "move", "handBack"}

NoFee == [outcome |-> "unpaid", against |-> None]

\* by: the arbiter ruling or chosen for an appeal; arg: a ruling or a descriptor;
\* held: the round of the row the call has claimed.
Idle == [pc |-> "idle"]
At(c, pc) == call[c].pc = pc
Goto(c, pc) == call' = [call EXCEPT ![c].pc = pc]
End(c) == call' = [call EXCEPT ![c] = Idle]
Begin(c, pc, columns, by, arg) ==
  /\ At(c, "idle")
  /\ call' = [call EXCEPT ![c] = [pc |-> pc, seen |-> [k \in columns |-> row[k]],
                                   by |-> by, arg |-> arg, held |-> 0]]

\* raiseDispute() has opened the dispute and assigned its arbiter; arbiters
\* are interchangeable.
Init ==
  /\ row = [status |-> "OPENED", evidence |-> {}, deadline |-> "none", ruling |-> None,
             signedFor |-> 0, arbiter |-> CHOOSE a \in Arbiters : TRUE, round |-> 0,
             previousRuling |-> None, previousArbiter |-> None]
  /\ executed = None
  /\ call = [c \in Calls |-> Idle]
  /\ fee = [n \in Rounds |-> NoFee]
  /\ slashes = {} /\ ruled = {} /\ acked = {} /\ cut = FALSE
  /\ faults = 0

-----------------------------------------------------------------------------
(* Evidence and the proposal it triggers. *)

\* persistEvidence() reads the row and checks its status ...
SubmitEvidence(c, e) ==
  /\ row.status \in Open
  /\ Begin(c, "append", {"evidence"}, None, e)
  /\ UNCHANGED <<row, executed, fee, historyVars, faults>>

\* ... and writes the list it read with the new entry, on no condition.
AppendEvidence(c) ==
  /\ At(c, "append")
  /\ row' = [row EXCEPT !.evidence = call[c].seen.evidence \cup {call[c].arg},
                        !.status = "EVIDENCE_SUBMITTED"]
  /\ call' = [call EXCEPT ![c].pc = "announce", ![c].seen = [k \in {} |-> row[k]]]
  /\ UNCHANGED <<executed, fee, historyVars, faults>>

\* The event is published, the request answered, and the handler runs on.
AnnounceEvidence(c) ==
  /\ At(c, "announce")
  /\ acked' = acked \cup {call[c].arg}
  /\ call' = [call EXCEPT ![c].pc = "assess", ![c].arg = None]
  /\ UNCHANGED <<row, executed, fee, slashes, ruled, cut, faults>>

\* The handler gives up, or has a confident recommendation some time later.
Assess(c) ==
  /\ At(c, "assess")
  /\ \/ row.status \in Open /\ row.evidence # {} /\ Goto(c, "propose")
     \/ End(c)
  /\ UNCHANGED <<row, executed, fee, historyVars, faults>>

\* proposeAutoResolution(): a compare-and-set on an open, unruled dispute.
Propose(c) ==
  /\ At(c, "propose")
  /\ row' = IF row.status \in Open /\ row.ruling = None
            THEN [row EXCEPT !.status = "AUTO_PROPOSED", !.deadline = "open"]
            ELSE row
  /\ End(c)
  /\ UNCHANGED <<executed, fee, historyVars, faults>>

WindowCloses ==
  /\ row.deadline = "open"
  /\ row' = [row EXCEPT !.deadline = "past"]
  /\ UNCHANGED <<executed, call, fee, historyVars, faults>>

\* contestAutoResolution() and sweepExpiredAutoResolutions() check what they
\* read and write by id.
Contest(c) ==
  /\ row.status = "AUTO_PROPOSED"
  /\ row.deadline # "past"
  /\ Begin(c, "contest", {}, None, None)
  /\ UNCHANGED <<row, executed, fee, historyVars, faults>>

\* Mutant: the sweep compares the deadline the wrong way round.
SweepFindsRunning(c) ==
  /\ row.status = "AUTO_PROPOSED"
  /\ row.deadline = "open"
  /\ Begin(c, "sweep", {}, None, None)
  /\ UNCHANGED <<row, executed, fee, historyVars, faults>>

SweepFinds(c) ==
  /\ row.status = "AUTO_PROPOSED"
  /\ row.deadline = "past"
  /\ Begin(c, "sweep", {}, None, None)
  /\ UNCHANGED <<row, executed, fee, historyVars, faults>>

Reopen(c) ==
  /\ call[c].pc \in {"contest", "sweep"}
  /\ row' = [row EXCEPT !.status = "EVIDENCE_SUBMITTED", !.deadline = "none"]
  /\ End(c)
  /\ UNCHANGED <<executed, fee, historyVars, faults>>

-----------------------------------------------------------------------------
(* Rulings and appeals. *)

\* resolveDispute() checks the row it read.
Resolve(c, a, r) ==
  /\ row.status # "RESOLVED"
  /\ row.arbiter = a
  /\ Begin(c, "claim", {"status", "round", "previousRuling", "previousArbiter"}, a, r)
  /\ UNCHANGED <<row, executed, fee, historyVars, faults>>

\* The claim of applyRuling(), under the dispute's advisory lock.
ClaimRuling(c) ==
  /\ At(c, "claim")
  /\ IF row.status # "RESOLVED" /\ row.arbiter = call[c].by
     THEN /\ row' = [row EXCEPT !.status = "RESOLVED", !.ruling = call[c].arg,
                                !.signedFor = call[c].seen.round]
          /\ call' = [call EXCEPT ![c].pc = "authorize", ![c].held = row.round]
          /\ ruled' = ruled \cup {<<row.round, call[c].by, call[c].arg>>}
     ELSE UNCHANGED <<row, ruled>> /\ End(c)
  /\ UNCHANGED <<executed, fee, slashes, acked, cut, faults>>

\* Mutant: a refusal is thrown outside the try whose catch hands back.
AuthorizeOutsideTry(c) ==
  /\ At(c, "authorize")
  /\ IF row.arbiter = call[c].by /\ executed = None THEN Goto(c, "move") ELSE End(c)
  /\ UNCHANGED <<row, executed, fee, historyVars, faults>>

\* releaseFunds(), refundFunds() and splitFunds() look for a dispute of the
\* trade that is assigned to the caller, and refuse an escrow that is settled.
AuthorizeRuling(c) ==
  /\ At(c, "authorize")
  /\ Goto(c, IF row.arbiter = call[c].by /\ executed = None THEN "move" ELSE "handBack")
  /\ UNCHANGED <<row, executed, fee, historyVars, faults>>

\* They claim the escrow's status by comparing it, and the provider pays.
MoveMoney(c) ==
  /\ At(c, "move")
  /\ IF executed = None
     THEN executed' = call[c].arg /\ Goto(c, "slash")
     ELSE UNCHANGED executed /\ Goto(c, "handBack")
  /\ UNCHANGED <<row, fee, historyVars, faults>>

\* The provider's call, or an await before or after it, rejects.  The handler
\* reverts the escrow's status, unless that fails as well.
FailRuling(c) ==
  /\ call[c].pc \in {"authorize", "move"}
  /\ faults < MaxFaults
  /\ faults' = faults + 1
  /\ \/ UNCHANGED executed
     \/ At(c, "move") /\ executed = None /\ executed' = call[c].arg
  /\ Goto(c, "handBack")
  /\ UNCHANGED <<row, fee, historyVars>>

\* The claim is handed back if the row is still the one this call claimed.
HandBack(c) ==
  /\ At(c, "handBack")
  /\ row' = IF /\ row.status = "RESOLVED" /\ row.ruling = call[c].arg
               /\ row.signedFor = call[c].seen.round
               /\ row.arbiter = call[c].by /\ row.round = call[c].held
            THEN [row EXCEPT !.status = call[c].seen.status, !.ruling = None]
            ELSE row
  /\ End(c)
  /\ UNCHANGED <<executed, fee, historyVars, faults>>

Overrules(c) == call[c].seen.previousRuling \notin {None, call[c].arg}

\* finalizeResolveDispute(): the overruled arbiter is slashed ...
SlashOverruled(c) ==
  /\ At(c, "slash")
  /\ slashes' = IF Overrules(c)
                THEN slashes \cup {<<call[c].seen.previousArbiter, call[c].seen.round, call[c].arg>>}
                ELSE slashes
  /\ Goto(c, "settle")
  /\ UNCHANGED <<row, executed, fee, ruled, acked, cut, faults>>

\* Mutant: the fee of every appeal that is ruled on goes back.
SettleFeeBack(c) ==
  LET n == call[c].seen.round
  IN  /\ At(c, "settle")
      /\ fee' = IF n > 0 /\ fee[n].outcome = "due"
                THEN [fee EXCEPT ![n].outcome = "REFUNDED"]
                ELSE fee
      /\ End(c)
      /\ UNCHANGED <<row, executed, historyVars, faults>>

\* ... and the appeal fee of the round settled, once.
SettleFee(c) ==
  LET n == call[c].seen.round
  IN  /\ At(c, "settle")
      /\ fee' = IF n > 0 /\ fee[n].outcome = "due"
                THEN [fee EXCEPT ![n].outcome = IF Overrules(c) THEN "REFUNDED" ELSE "FORFEITED"]
                ELSE fee
      /\ End(c)
      /\ UNCHANGED <<row, executed, historyVars, faults>>

\* appeal() reads a resolved row and lets the market choose another arbiter.
Appeal(c, a) ==
  /\ row.status = "RESOLVED"
  /\ row.round < MaxRounds
  /\ a # row.arbiter
  /\ Begin(c, "appeal", {"round", "ruling", "arbiter"}, a, None)
  /\ UNCHANGED <<row, executed, fee, historyVars, faults>>

\* Mutant: the arbiter recorded as overruled is the one just assigned.
ClaimAppealOfNew(c) ==
  LET seen == call[c].seen
  IN  /\ At(c, "appeal")
      /\ IF row.status = "RESOLVED" /\ row.round = seen.round
         THEN /\ row' = [row EXCEPT !.status = "APPEALED", !.round = @ + 1, !.ruling = None,
                                    !.arbiter = call[c].by, !.previousRuling = seen.ruling,
                                    !.previousArbiter = call[c].by]
              /\ fee' = [fee EXCEPT ![row.round + 1] = [outcome |-> "due", against |-> seen.ruling]]
         ELSE UNCHANGED <<row, fee>>
      /\ End(c)
      /\ UNCHANGED <<executed, historyVars, faults>>

ClaimAppeal(c) ==
  LET seen == call[c].seen
  IN  /\ At(c, "appeal")
      /\ IF row.status = "RESOLVED" /\ row.round = seen.round
         THEN /\ row' = [row EXCEPT !.status = "APPEALED", !.round = @ + 1, !.ruling = None,
                                    !.arbiter = call[c].by, !.previousRuling = seen.ruling,
                                    !.previousArbiter = seen.arbiter]
              /\ fee' = [fee EXCEPT ![row.round + 1] = [outcome |-> "due", against |-> seen.ruling]]
         ELSE UNCHANGED <<row, fee>>
      /\ End(c)
      /\ UNCHANGED <<executed, historyVars, faults>>

\* The process of a call dies; nothing resumes the call.
Crash(c) ==
  /\ ~At(c, "idle")
  /\ faults < MaxFaults
  /\ faults' = faults + 1
  /\ cut' = (cut \/ call[c].pc \in Holding)
  /\ End(c)
  /\ UNCHANGED <<row, executed, fee, slashes, ruled, acked>>

Start(c) ==
  \/ "evidence" \in Ops /\ \E e \in Evidence : SubmitEvidence(c, e)
  \/ "contest" \in Ops /\ Contest(c)
  \/ "resolve" \in Ops /\ \E a \in Arbiters, r \in Rulings : Resolve(c, a, r)
  \/ "appeal" \in Ops /\ \E a \in Arbiters : Appeal(c, a)

Step(c) ==
  \/ AppendEvidence(c) \/ AnnounceEvidence(c) \/ Assess(c) \/ Propose(c) \/ Reopen(c)
  \/ ClaimRuling(c) \/ AuthorizeRuling(c) \/ MoveMoney(c) \/ HandBack(c)
  \/ SlashOverruled(c) \/ SettleFee(c) \/ ClaimAppeal(c)

Next ==
  \/ WindowCloses
  \/ \E c \in Calls : Start(c) \/ SweepFinds(c) \/ Step(c) \/ FailRuling(c) \/ Crash(c)

Spec == Init /\ [][Next]_vars

\* The sweep runs on a timer (app.ts), windows end, and a process that is not
\* killed finishes the call it has begun.
Fairness ==
  /\ WF_vars(WindowCloses)
  /\ WF_vars(\E c \in Calls : SweepFinds(c))
  /\ \A c \in Calls : WF_vars(Step(c))

FairSpec == Spec /\ Fairness

-----------------------------------------------------------------------------
CallOK(c) ==
  /\ call[c].pc \in PCs \ {"idle"}
  /\ call[c].by \in Arbiters \cup {None}
  /\ call[c].arg \in Rulings \cup Evidence \cup {None}
  /\ call[c].held \in Rounds
  /\ DOMAIN call[c].seen \subseteq DOMAIN row

\* The Dispute row, the appeal fees and the calls in flight hold what their
\* columns and parameters allow.
TypeOK ==
  /\ row \in RowType
  /\ executed \in Rulings \cup {None}
  /\ \A c \in Calls : call[c] = Idle \/ CallOK(c)
  /\ fee \in [Rounds -> [outcome : {"unpaid", "due", "REFUNDED", "FORFEITED"},
                         against : Rulings \cup {None}]]
  /\ slashes \subseteq Arbiters \X Rounds \X Rulings
  /\ ruled \subseteq Rounds \X Arbiters \X Rulings
  /\ acked \subseteq Evidence
  /\ cut \in BOOLEAN /\ faults \in 0..MaxFaults

\* A dispute that reads RESOLVED names the ruling the escrow has executed, once
\* no call holds a claimed ruling and none died holding one: the claim comes
\* before the money, and every way the money can be refused ends in a hand-back
\* that must not strand the claim.
ResolvedIsExecuted ==
  (/\ row.status = "RESOLVED"
   /\ ~cut
   /\ \A c \in Calls : call[c].pc \notin Holding)
  => executed = row.ruling

\* An arbiter is slashed only for a ruling they gave in the round before,
\* and only once the escrow has executed the different ruling that overrules it.
SlashIsEarned ==
  \A s \in slashes :
    /\ executed = s[3]
    /\ \E r \in Rulings \ {s[3]} : <<s[2] - 1, s[1], r>> \in ruled

\* An appeal fee goes back only if the escrow executed something else than the
\* ruling appealed against, and is forfeited only if it executed that ruling.
FeeIsJust ==
  \A n \in Rounds :
    /\ fee[n].outcome = "REFUNDED" => executed \notin {None, fee[n].against}
    /\ fee[n].outcome = "FORFEITED" => executed = fee[n].against

\* Evidence whose submission was acknowledged is in the dispute's record.
\* The code does not keep this: README, section 4.
EvidenceKept == acked \subseteq row.evidence

\* An appeal and a ruling being executed have one winner: money moves under the
\* ruling of a round only while the dispute is still in that round.
\* The code does not keep this: README, section 4.
SupersededNeverMoves ==
  [][\A c \in Calls : executed' # executed /\ call[c].pc = "move" /\ call'[c].pc = "slash"
                      => call[c].held = row.round]_vars

\* A proposal whose contest window is running does not stay: it is contested,
\* ruled on, or handed to the arbiter by the sweep.
ProposalEnds ==
  (row.status = "AUTO_PROPOSED" /\ row.deadline # "none") ~> (row.status # "AUTO_PROPOSED")
=============================================================================
