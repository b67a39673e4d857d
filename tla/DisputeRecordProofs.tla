------------------------- MODULE DisputeRecordProofs ------------------------
(***************************************************************************)
(* Theorems about DisputeRecord, for any number of calls in flight, any    *)
(* arbiters, rulings and evidence, any number of appeals and of failures:  *)
(* a resolved dispute names what the escrow executed, and slashes and      *)
(* appeal fees follow the money.                                           *)
(***************************************************************************)
EXTENDS DisputeRecord, TLAPS

\* Every leaf that names no prover is tried with SMT, with Zenon and with SMT again.
USE SMTT(60), ZenonT(30), SMTT(61), SMTT(62)

Columns == {"status", "evidence", "deadline", "ruling", "signedFor", "arbiter", "round",
            "previousRuling", "previousArbiter"}
Values == DisputeStatuses \cup (SUBSET Evidence) \cup {"none", "open", "past"} \cup Rulings
          \cup Rounds \cup Arbiters
Seens == UNION {[K -> Values] : K \in SUBSET Columns}
CallRec == [pc : PCs \ {"idle"}, seen : Seens, by : Arbiters \cup {None},
            arg : Rulings \cup Evidence \cup {None}, held : Rounds]
FeeRec == [outcome : {"unpaid", "due", "REFUNDED", "FORFEITED"}, against : Rulings \cup {None}]

Types ==
  /\ row \in RowType
  /\ executed \in Rulings \cup {None}
  /\ call \in [Calls -> {Idle} \cup CallRec]
  /\ fee \in [Rounds -> FeeRec]
  /\ \A n \in Rounds : fee[n].outcome # "unpaid" => fee[n].against \in Rulings
  /\ \A s \in slashes : s[3] \in Rulings

\* What an appeal left behind: round n reviews ruling p of arbiter a.
Reviews(n, a, p) ==
  /\ n = 0 => p = None
  /\ n > 0 => p \in Rulings /\ <<n - 1, a, p>> \in ruled /\ fee[n].against = p

RowOK ==
  /\ row.status = "RESOLVED" => row.ruling \in Rulings /\ <<row.round, row.arbiter, row.ruling>> \in ruled
  /\ Reviews(row.round, row.previousArbiter, row.previousRuling)

\* What a call has read stays true of the round it read it in.
ReadOK(c) ==
  /\ call[c].pc = "append" => call[c].seen.evidence \in SUBSET Evidence /\ call[c].arg \in Evidence
  /\ call[c].pc \in {"claim", "slash", "settle"} \cup Holding =>
       /\ call[c].arg \in Rulings
       /\ call[c].seen.round \in 0..row.round
       /\ call[c].seen.status \in DisputeStatuses \ {"RESOLVED"}
       /\ Reviews(call[c].seen.round, call[c].seen.previousArbiter, call[c].seen.previousRuling)
  /\ call[c].pc \in {"slash", "settle"} => executed = call[c].arg
  /\ call[c].pc = "appeal" =>
       /\ call[c].seen.round \in 0..row.round /\ call[c].seen.round < MaxRounds
       /\ call[c].seen.ruling \in Rulings /\ call[c].by \in Arbiters
       /\ call[c].seen.arbiter \in Arbiters
       /\ <<call[c].seen.round, call[c].seen.arbiter, call[c].seen.ruling>> \in ruled

\* The call holds the claim that the row shows.
Claims(c) ==
  /\ call[c].pc \in Holding
  /\ row.ruling = call[c].arg /\ row.signedFor = call[c].seen.round
  /\ row.arbiter = call[c].by /\ row.round = call[c].held

ClaimOK ==
  row.status = "RESOLVED" /\ ~cut => executed = row.ruling \/ \E c \in Calls : Claims(c)

Inv ==
  /\ Types /\ RowOK /\ ClaimOK
  /\ \A c \in Calls : ReadOK(c)
  /\ SlashIsEarned /\ FeeIsJust

-----------------------------------------------------------------------------
(* What the steps of a call do to it.                                      *)

LEMMA ColumnsSeen ==
  ASSUME row \in RowType, NEW K \in SUBSET Columns
  PROVE  [k \in K |-> row[k]] \in Seens
<1>1. /\ row.status \in Values /\ row.evidence \in Values /\ row.deadline \in Values
      /\ row.ruling \in Values /\ row.signedFor \in Values /\ row.arbiter \in Values
      /\ row.round \in Values /\ row.previousRuling \in Values /\ row.previousArbiter \in Values
  <2> /\ DisputeStatuses \subseteq Values /\ (SUBSET Evidence) \subseteq Values
      /\ {"none", "open", "past"} \subseteq Values /\ Rulings \subseteq Values
      /\ Rounds \subseteq Values /\ Arbiters \subseteq Values
    BY ZenonT(30) DEF Values
  <2> HIDE DEF Values
  <2> QED BY DEF RowType, None
<1>2. \A k \in Columns : row[k] \in Values
  BY <1>1 DEF Columns
<1>3. [k \in K |-> row[k]] \in [K -> Values]
  BY <1>2
<1> QED BY <1>3 DEF Seens

\* The step is one of call c.
Only(c) == \A d \in Calls \ {c} : call'[d] = call[d]

LEMMA GotoEffect ==
  ASSUME Types, NEW c \in Calls, NEW p \in PCs \ {"idle"}, call[c].pc # "idle", Goto(c, p)
  PROVE  /\ call' \in [Calls -> {Idle} \cup CallRec] /\ Only(c)
         /\ call'[c].pc = p /\ call'[c].seen = call[c].seen /\ call'[c].by = call[c].by
         /\ call'[c].arg = call[c].arg /\ call'[c].held = call[c].held
BY DEF Types, Goto, Only, Idle, CallRec

LEMMA EndEffect ==
  ASSUME Types, NEW c \in Calls, End(c)
  PROVE  call' \in [Calls -> {Idle} \cup CallRec] /\ Only(c) /\ call'[c].pc = "idle"
BY DEF Types, End, Only, Idle

LEMMA BeginEffect ==
  ASSUME Types, NEW c \in Calls, NEW p \in PCs \ {"idle"}, NEW K \in SUBSET Columns,
         NEW by \in Arbiters \cup {None}, NEW arg \in Rulings \cup Evidence \cup {None},
         Begin(c, p, K, by, arg)
  PROVE  /\ call' \in [Calls -> {Idle} \cup CallRec] /\ Only(c)
         /\ call[c].pc = "idle"
         /\ call'[c].pc = p /\ call'[c].by = by /\ call'[c].arg = arg
         /\ \A k \in K : call'[c].seen[k] = row[k]
<1>1. [k \in K |-> row[k]] \in Seens /\ 0 \in Rounds
  BY ColumnsSeen, DisputeAssumption DEF Types, Rounds
<1> DEFINE new == [pc |-> p, seen |-> [k \in K |-> row[k]], by |-> by, arg |-> arg, held |-> 0]
<1>2. /\ new \in CallRec /\ new.pc = p /\ new.by = by /\ new.arg = arg
      /\ \A k \in K : new.seen[k] = row[k]
  BY <1>1 DEF CallRec
<1>3. call' = [call EXCEPT ![c] = new] /\ call[c].pc = "idle"
  BY DEF Begin, At
<1> HIDE DEF new
<1> QED BY <1>2, <1>3 DEF Types, Only

-----------------------------------------------------------------------------
(* How a step frames the invariant.                                        *)

\* No step takes back a ruling, a round, an execution or what an appeal was
\* made against.
Monotone ==
  /\ row.round <= row'.round /\ ruled \subseteq ruled'
  /\ executed = None \/ executed' = executed
  /\ \A n \in 0..row.round : fee'[n].against = fee[n].against

LEMMA ReadStays ==
  ASSUME Types, Types', Monotone, NEW c \in Calls, ReadOK(c), call'[c] = call[c]
  PROVE  ReadOK(c)'
<1>1. row.round \in Nat /\ row'.round \in Nat
  BY DisputeAssumption DEF Types, RowType, Rounds
<1>2. ASSUME NEW n \in 0..row.round, NEW a, NEW p, Reviews(n, a, p)
      PROVE  Reviews(n, a, p)'
  BY <1>1, <1>2 DEF Monotone, Reviews
<1>3. call[c].pc \in {"slash", "settle"} => executed' = call[c].arg
  BY DisputeAssumption DEF ReadOK, Monotone, Holding, None
<1> QED BY <1>1, <1>2, <1>3 DEF ReadOK, Monotone

LEMMA Assemble ==
  ASSUME Inv, Types', Monotone, NEW c \in Calls, Only(c), ReadOK(c)',
         RowOK', ClaimOK', SlashIsEarned', FeeIsJust'
  PROVE  Inv'
<1>1. \A d \in Calls : ReadOK(d)'
  BY ReadStays DEF Inv, Only
<1> QED BY <1>1 DEF Inv

\* A step that leaves the row, the escrow, the fees and the history of rulings.
LEMMA Plain ==
  ASSUME Inv, NEW c \in Calls, Only(c), call' \in [Calls -> {Idle} \cup CallRec],
         UNCHANGED <<row, executed, fee, slashes, ruled>>,
         ReadOK(c)', cut => cut', Claims(c) => Claims(c)' \/ cut'
  PROVE  Inv'
<1>1. Types' /\ Monotone
  BY DisputeAssumption DEF Inv, Types, Monotone, RowType, Rounds
<1>2. RowOK' /\ SlashIsEarned' /\ FeeIsJust'
  BY DEF Inv, RowOK, Reviews, SlashIsEarned, FeeIsJust
<1>3. ClaimOK'
  BY DEF Inv, ClaimOK, Claims, Only
<1> QED BY <1>1, <1>2, <1>3, Assemble

LEMMA InitInv == Init => Inv
<1> SUFFICES ASSUME Init PROVE Inv
  OBVIOUS
<1>1. Types
  <2>1. (CHOOSE a \in Arbiters : TRUE) \in Arbiters
    BY DisputeAssumption
  <2>2. 0 \in Rounds
    BY DisputeAssumption DEF Rounds
  <2> QED BY <2>1, <2>2 DEF Init, Types, RowType, FeeRec, NoFee, DisputeStatuses, Open, None
<1>2. RowOK /\ ClaimOK
  BY DEF Init, RowOK, ClaimOK, Reviews
<1>3. \A c \in Calls : ReadOK(c)
  BY DEF Init, ReadOK, Idle, Holding
<1>4. SlashIsEarned /\ FeeIsJust
  BY DEF Init, SlashIsEarned, FeeIsJust, NoFee
<1> QED BY <1>1, <1>2, <1>3, <1>4 DEF Inv

-----------------------------------------------------------------------------
(* Every step keeps the invariant.                                         *)

LEMMA StartInv ==
  ASSUME Inv, NEW c \in Calls, Start(c) \/ SweepFinds(c)
  PROVE  Inv'
<1> USE DEF Inv
<1>1. ASSUME NEW e \in Evidence, SubmitEvidence(c, e) PROVE Inv'
  <2>1. {"evidence"} \in SUBSET Columns /\ "append" \in PCs \ {"idle"}
    BY DEF Columns, PCs
  <2>2. Begin(c, "append", {"evidence"}, None, e)
    BY <1>1 DEF SubmitEvidence
  <2>3. /\ call' \in [Calls -> {Idle} \cup CallRec] /\ Only(c) /\ call[c].pc = "idle"
        /\ call'[c].pc = "append" /\ call'[c].arg = e /\ call'[c].seen["evidence"] = row["evidence"]
    BY <2>1, <2>2, BeginEffect
  <2>4. ReadOK(c)' /\ ~Claims(c)
    BY <2>3 DEF ReadOK, Holding, Types, RowType, Claims
  <2> QED BY <1>1, <2>3, <2>4, Plain DEF SubmitEvidence, historyVars
<1>2. ASSUME NEW p \in {"contest", "sweep"}, Begin(c, p, {}, None, None),
             UNCHANGED <<row, executed, fee, historyVars, faults>>
      PROVE  Inv'
  <2>1. {} \in SUBSET Columns /\ p \in PCs \ {"idle"}
    BY DEF Columns, PCs
  <2>2. /\ call' \in [Calls -> {Idle} \cup CallRec] /\ Only(c) /\ call[c].pc = "idle"
        /\ call'[c].pc = p
    BY <1>2, <2>1, BeginEffect
  <2>3. ReadOK(c)' /\ ~Claims(c)
    BY <2>2 DEF ReadOK, Holding, Claims
  <2> QED BY <1>2, <2>2, <2>3, Plain DEF historyVars
<1>3. ASSUME NEW a \in Arbiters, NEW r \in Rulings, Resolve(c, a, r) PROVE Inv'
  <2> DEFINE K == {"status", "round", "previousRuling", "previousArbiter"}
  <2>1. K \in SUBSET Columns /\ "claim" \in PCs \ {"idle"}
    BY DEF Columns, PCs
  <2>2. Begin(c, "claim", K, a, r)
    BY <1>3 DEF Resolve
  <2>3. /\ call' \in [Calls -> {Idle} \cup CallRec] /\ Only(c) /\ call[c].pc = "idle"
        /\ call'[c].pc = "claim" /\ call'[c].arg = r /\ \A k \in K : call'[c].seen[k] = row[k]
    BY <2>1, <2>2, BeginEffect
  <2>4. /\ call'[c].seen.status = row.status /\ call'[c].seen.round = row.round
        /\ call'[c].seen.previousRuling = row.previousRuling
        /\ call'[c].seen.previousArbiter = row.previousArbiter
    BY <2>3
  <2>5. UNCHANGED <<row, executed, fee, slashes, ruled, acked, cut>> /\ row.status # "RESOLVED"
    BY <1>3 DEF Resolve, historyVars
  <2>6. ReadOK(c)'
    BY <2>3, <2>4, <2>5, DisputeAssumption
    DEF ReadOK, Holding, Types, RowType, Rounds, RowOK, Reviews
  <2>7. ~Claims(c)
    BY <2>3 DEF Claims, Holding
  <2> QED BY <2>3, <2>5, <2>6, <2>7, Plain
<1>4. ASSUME NEW a \in Arbiters, Appeal(c, a) PROVE Inv'
  <2> DEFINE K == {"round", "ruling", "arbiter"}
  <2>1. K \in SUBSET Columns /\ "appeal" \in PCs \ {"idle"}
    BY DEF Columns, PCs
  <2>2. Begin(c, "appeal", K, a, None)
    BY <1>4 DEF Appeal
  <2>3. /\ call' \in [Calls -> {Idle} \cup CallRec] /\ Only(c) /\ call[c].pc = "idle"
        /\ call'[c].pc = "appeal" /\ call'[c].by = a /\ \A k \in K : call'[c].seen[k] = row[k]
    BY <2>1, <2>2, BeginEffect
  <2>4. /\ call'[c].seen.round = row.round /\ call'[c].seen.ruling = row.ruling
        /\ call'[c].seen.arbiter = row.arbiter
    BY <2>3
  <2>5. /\ UNCHANGED <<row, executed, fee, slashes, ruled, acked, cut>>
        /\ row.status = "RESOLVED" /\ row.round < MaxRounds
    BY <1>4 DEF Appeal, historyVars
  <2>6. ReadOK(c)'
    BY <2>3, <2>4, <2>5, DisputeAssumption
    DEF ReadOK, Holding, Types, RowType, Rounds, RowOK
  <2>7. ~Claims(c)
    BY <2>3 DEF Claims, Holding
  <2> QED BY <2>3, <2>5, <2>6, <2>7, Plain
<1> QED BY <1>1, <1>2, <1>3, <1>4 DEF Start, SweepFinds, Contest

\* A step that leaves a call with nothing its future steps rely on, and writes
\* at most columns of the row no ruling depends on.
LEMMA Loose ==
  ASSUME Inv, NEW c \in Calls, Only(c), call' \in [Calls -> {Idle} \cup CallRec],
         call[c].pc \notin Holding, call'[c].pc \in {"idle", "announce", "assess", "propose"},
         UNCHANGED <<executed, fee, slashes, ruled, cut>>, row' \in RowType,
         row'.round = row.round, row'.previousRuling = row.previousRuling,
         row'.previousArbiter = row.previousArbiter,
         row'.status # "RESOLVED" \/ row' = row
  PROVE  Inv'
<1>1. Types' /\ Monotone
  BY DisputeAssumption DEF Inv, Types, Monotone, RowType, Rounds
<1>2. RowOK' /\ SlashIsEarned' /\ FeeIsJust'
  BY ZenonT(60) DEF Inv, RowOK, Reviews, SlashIsEarned, FeeIsJust
<1>3. ClaimOK'
  BY DEF Inv, ClaimOK, Claims, Only
<1>4. ReadOK(c)'
  BY DEF ReadOK, Holding
<1> QED BY <1>1, <1>2, <1>3, <1>4, Assemble

LEMMA EvidenceInv ==
  ASSUME Inv, NEW c \in Calls,
         AppendEvidence(c) \/ AnnounceEvidence(c) \/ Assess(c) \/ Propose(c) \/ Reopen(c)
  PROVE  Inv'
<1>1. CASE AppendEvidence(c)
  <2>1. [k \in {} |-> row[k]] \in Seens
    BY ZenonT(60), ColumnsSeen DEF Inv, Types
  <2>2. call[c] \in CallRec /\ call[c].pc = "append"
    BY <1>1 DEF Inv, Types, AppendEvidence, At, Idle
  <2>3. /\ call' \in [Calls -> {Idle} \cup CallRec] /\ Only(c) /\ call'[c].pc = "announce"
    BY ZenonT(60), <1>1, <2>1, <2>2 DEF AppendEvidence, Inv, Types, CallRec, PCs, Only
  <2>4. /\ row' \in RowType /\ row'.round = row.round /\ row'.previousRuling = row.previousRuling
        /\ row'.previousArbiter = row.previousArbiter /\ row'.status # "RESOLVED"
    BY ZenonT(60), <1>1, <2>2 DEF AppendEvidence, Inv, Types, RowType, DisputeStatuses, Open, ReadOK
  <2> QED BY <1>1, <2>2, <2>3, <2>4, Loose DEF AppendEvidence, Holding, historyVars
<1>2. CASE AnnounceEvidence(c)
  <2>1. call[c] \in CallRec /\ call[c].pc = "announce"
    BY <1>2 DEF Inv, Types, AnnounceEvidence, At, Idle
  <2>2. /\ call' \in [Calls -> {Idle} \cup CallRec] /\ Only(c) /\ call'[c].pc = "assess"
    BY ZenonT(60), <1>2, <2>1 DEF AnnounceEvidence, Inv, Types, CallRec, PCs, Only
  <2> QED BY <1>2, <2>1, <2>2, Loose DEF AnnounceEvidence, Holding, Inv, Types
<1>3. CASE Assess(c)
  <2>1. call' \in [Calls -> {Idle} \cup CallRec] /\ Only(c) /\ call'[c].pc \in {"idle", "propose"}
    <3>1. CASE Goto(c, "propose")
      BY <1>3, <3>1, GotoEffect DEF Assess, Inv, At, PCs
    <3>2. CASE End(c)
      BY <3>2, EndEffect DEF Inv
    <3> QED BY <1>3, <3>1, <3>2 DEF Assess
  <2> QED BY <1>3, <2>1, Loose DEF Assess, At, Holding, Inv, Types, historyVars
<1>4. CASE Propose(c)
  <2>1. call' \in [Calls -> {Idle} \cup CallRec] /\ Only(c) /\ call'[c].pc = "idle"
    BY <1>4, EndEffect DEF Propose, Inv
  <2>2. /\ row' \in RowType /\ row'.round = row.round /\ row'.previousRuling = row.previousRuling
        /\ row'.previousArbiter = row.previousArbiter /\ (row'.status # "RESOLVED" \/ row' = row)
    BY ZenonT(60), <1>4 DEF Propose, Inv, Types, RowType, DisputeStatuses, Open
  <2> QED BY <1>4, <2>1, <2>2, Loose DEF Propose, At, Holding, historyVars
<1>5. CASE Reopen(c)
  <2>1. call' \in [Calls -> {Idle} \cup CallRec] /\ Only(c) /\ call'[c].pc = "idle"
    BY <1>5, EndEffect DEF Reopen, Inv
  <2>2. /\ row' \in RowType /\ row'.round = row.round /\ row'.previousRuling = row.previousRuling
        /\ row'.previousArbiter = row.previousArbiter /\ row'.status # "RESOLVED"
    BY ZenonT(60), <1>5 DEF Reopen, Inv, Types, RowType, DisputeStatuses, Open
  <2> QED BY <1>5, <2>1, <2>2, Loose DEF Reopen, Holding, historyVars
<1> QED BY <1>1, <1>2, <1>3, <1>4, <1>5

LEMMA WindowInv ==
  ASSUME Inv, WindowCloses
  PROVE  Inv'
<1>1. /\ row' \in RowType /\ row'.round = row.round /\ row'.previousRuling = row.previousRuling
      /\ row'.previousArbiter = row.previousArbiter /\ row'.status = row.status
      /\ row'.ruling = row.ruling /\ row'.arbiter = row.arbiter /\ row'.signedFor = row.signedFor
  BY DEF WindowCloses, Inv, Types, RowType
<1>2. UNCHANGED <<executed, call, fee, slashes, ruled, cut>>
  BY DEF WindowCloses, historyVars
<1>3. Types' /\ Monotone
  BY <1>1, <1>2, DisputeAssumption DEF Inv, Types, Monotone, RowType, Rounds
<1>4. RowOK' /\ SlashIsEarned' /\ FeeIsJust' /\ ClaimOK'
  BY <1>1, <1>2 DEF Inv, RowOK, Reviews, SlashIsEarned, FeeIsJust, ClaimOK, Claims
<1>5. \A c \in Calls : ReadOK(c)'
  BY <1>2, <1>3, ReadStays DEF Inv
<1> QED BY <1>3, <1>4, <1>5 DEF Inv

LEMMA ClaimRulingInv ==
  ASSUME Inv, NEW c \in Calls, ClaimRuling(c)
  PROVE  Inv'
<1>1. call[c].pc = "claim" /\ UNCHANGED <<executed, fee, slashes, cut>>
  BY ZenonT(60) DEF ClaimRuling, At
<1>2. CASE ~(row.status # "RESOLVED" /\ row.arbiter = call[c].by)
  <2>1. End(c) /\ UNCHANGED <<row, ruled>>
    BY <1>2 DEF ClaimRuling
  <2>2. call' \in [Calls -> {Idle} \cup CallRec] /\ Only(c) /\ call'[c].pc = "idle"
    BY <2>1, EndEffect DEF Inv
  <2> QED BY <1>1, <2>1, <2>2, Loose DEF Holding, Inv, Types
<1>3. CASE row.status # "RESOLVED" /\ row.arbiter = call[c].by
  <2>1. /\ row' = [row EXCEPT !.status = "RESOLVED", !.ruling = call[c].arg,
                              !.signedFor = call[c].seen.round]
        /\ call' = [call EXCEPT ![c].pc = "authorize", ![c].held = row.round]
        /\ ruled' = ruled \cup {<<row.round, call[c].by, call[c].arg>>}
    BY <1>3 DEF ClaimRuling
  <2>2. call[c] \in CallRec
    BY <1>1 DEF Inv, Types, Idle
  <2>3. /\ call' \in [Calls -> {Idle} \cup CallRec] /\ Only(c)
        /\ call'[c].pc = "authorize" /\ call'[c].seen = call[c].seen
        /\ call'[c].by = call[c].by /\ call'[c].arg = call[c].arg /\ call'[c].held = row.round
    BY ZenonT(60), <2>1, <2>2 DEF Inv, Types, RowType, CallRec, PCs, Only
  <2>4. /\ call[c].arg \in Rulings /\ call[c].seen.round \in 0..row.round
        /\ call[c].seen.status \in DisputeStatuses \ {"RESOLVED"}
        /\ Reviews(call[c].seen.round, call[c].seen.previousArbiter, call[c].seen.previousRuling)
    BY ZenonT(60), <1>1 DEF Inv, ReadOK
  <2>5. row.round \in Nat /\ row.round <= MaxRounds /\ MaxRounds \in Nat
    BY DisputeAssumption DEF Inv, Types, RowType, Rounds
  <2>6. /\ row' \in RowType /\ row'.round = row.round /\ row'.previousRuling = row.previousRuling
        /\ row'.previousArbiter = row.previousArbiter /\ row'.arbiter = row.arbiter
        /\ row'.ruling = call[c].arg /\ row'.signedFor = call[c].seen.round
    <3>1. row \in RowType /\ call[c].seen.round \in Rounds /\ "RESOLVED" \in DisputeStatuses
      BY <2>4, <2>5 DEF Inv, Types, DisputeStatuses, Rounds
    <3> QED BY ZenonT(60), <2>1, <2>4, <3>1 DEF RowType
  <2>7. Types' /\ Monotone
    <3>1. ruled \subseteq ruled' /\ row.round <= row'.round
      BY <2>1, <2>5, <2>6
    <3> QED BY <1>1, <2>3, <2>6, <3>1 DEF Inv, Types, Monotone
  <2>8. RowOK'
    <3>1. <<row'.round, row'.arbiter, row'.ruling>> \in ruled'
      BY <1>3, <2>1, <2>6
    <3>2. Reviews(row.round, row.previousArbiter, row.previousRuling)'
      BY <1>1, <2>1, <2>6 DEF Inv, RowOK, Reviews
    <3> QED BY <2>4, <2>6, <3>1, <3>2 DEF RowOK, Reviews
  <2>9. ClaimOK'
    BY <1>3, <2>3, <2>6 DEF ClaimOK, Claims, Holding
  <2>10. ReadOK(c)'
    BY <1>1, <2>1, <2>3, <2>4, <2>6 DEF ReadOK, Reviews, Holding
  <2>11. SlashIsEarned' /\ FeeIsJust'
    BY ZenonT(60), <1>1, <2>1 DEF Inv, SlashIsEarned, FeeIsJust
  <2> QED BY <2>3, <2>7, <2>8, <2>9, <2>10, <2>11, Assemble
<1> QED BY <1>2, <1>3

\* The escrow executes at most one ruling, and only a claimed one.
LEMMA ExecuteInv ==
  ASSUME Inv, NEW c \in Calls, call[c].pc = "move", executed = None, executed' = call[c].arg,
         NEW p \in {"slash", "handBack"}, Goto(c, p),
         UNCHANGED <<row, fee, slashes, ruled, cut>>
  PROVE  Inv'
<1>1. /\ call' \in [Calls -> {Idle} \cup CallRec] /\ Only(c)
      /\ call'[c].pc = p /\ call'[c].seen = call[c].seen /\ call'[c].by = call[c].by
      /\ call'[c].arg = call[c].arg /\ call'[c].held = call[c].held
  BY GotoEffect DEF Inv, PCs
<1>2. call[c].arg \in Rulings
  BY ZenonT(60) DEF Inv, ReadOK, Holding
<1>3. Types' /\ Monotone
  BY <1>1, <1>2, DisputeAssumption DEF Inv, Types, Monotone, RowType, Rounds
<1>4. RowOK'
  BY DEF Inv, RowOK, Reviews
<1>5. ClaimOK'
  <2> SUFFICES ASSUME row.status = "RESOLVED", ~cut
               PROVE  executed' = row.ruling \/ \E d \in Calls : Claims(d)'
    BY DEF ClaimOK
  <2>1. executed # row.ruling
    BY DisputeAssumption DEF Inv, RowOK, None
  <2>2. PICK d \in Calls : Claims(d)
    BY <2>1 DEF Inv, ClaimOK
  <2>3. CASE d = c
    BY <2>2, <2>3 DEF Claims
  <2>4. CASE d # c
    BY <1>1, <2>2, <2>4 DEF Claims, Only
  <2> QED BY <2>3, <2>4
<1>6. SlashIsEarned' /\ FeeIsJust'
  BY ZenonT(60), <1>2, DisputeAssumption DEF Inv, Types, SlashIsEarned, FeeIsJust, None, FeeRec
<1>7. ReadOK(c)'
  BY <1>1 DEF Inv, ReadOK, Reviews, Holding
<1> QED BY <1>1, <1>3, <1>4, <1>5, <1>6, <1>7, Assemble

LEMMA HoldingInv ==
  ASSUME Inv, NEW c \in Calls, AuthorizeRuling(c) \/ MoveMoney(c) \/ FailRuling(c)
  PROVE  Inv'
<1>1. ASSUME call[c].pc \in {"authorize", "move"}, NEW p \in {"move", "handBack"}, Goto(c, p),
             UNCHANGED <<row, executed, fee, slashes, ruled, cut>>
      PROVE  Inv'
  <2>1. /\ call' \in [Calls -> {Idle} \cup CallRec] /\ Only(c)
        /\ call'[c].pc = p /\ call'[c].seen = call[c].seen /\ call'[c].by = call[c].by
        /\ call'[c].arg = call[c].arg /\ call'[c].held = call[c].held
    BY ZenonT(60), <1>1, GotoEffect DEF Inv, PCs
  <2>2. ReadOK(c)'
    BY ZenonT(60), <1>1, <2>1 DEF Inv, ReadOK, Reviews, Holding
  <2>3. Claims(c) => Claims(c)'
    BY ZenonT(60), <1>1, <2>1 DEF Claims, Holding
  <2> QED BY <1>1, <2>1, <2>2, <2>3, Plain
<1>2. CASE AuthorizeRuling(c)
  BY <1>1, <1>2 DEF AuthorizeRuling, At, historyVars
<1>3. CASE MoveMoney(c)
  BY <1>1, <1>3, ExecuteInv DEF MoveMoney, At, historyVars
<1>4. CASE FailRuling(c)
  BY <1>1, <1>4, ExecuteInv DEF FailRuling, At, historyVars
<1> QED BY ZenonT(60), <1>2, <1>3, <1>4

LEMMA HandBackInv ==
  ASSUME Inv, NEW c \in Calls, HandBack(c)
  PROVE  Inv'
<1>1. /\ call[c].pc = "handBack" /\ UNCHANGED <<executed, fee, slashes, ruled, cut>>
      /\ call' \in [Calls -> {Idle} \cup CallRec] /\ Only(c) /\ call'[c].pc = "idle"
  BY EndEffect DEF HandBack, At, Inv, historyVars
<1>2. CASE row.status = "RESOLVED" /\ Claims(c)
  <2>1. row' = [row EXCEPT !.status = call[c].seen.status, !.ruling = None]
    BY <1>2 DEF HandBack, Claims
  <2>2. call[c].seen.status \in DisputeStatuses \ {"RESOLVED"}
    BY ZenonT(60), <1>1 DEF Inv, ReadOK, Holding
  <2>3. /\ row' \in RowType /\ row'.round = row.round /\ row'.previousRuling = row.previousRuling
        /\ row'.previousArbiter = row.previousArbiter /\ row'.status # "RESOLVED"
    BY ZenonT(60), <2>1, <2>2 DEF Inv, Types, RowType
  <2>4. Types' /\ Monotone
    BY <1>1, <2>3, DisputeAssumption DEF Inv, Types, Monotone, RowType, Rounds
  <2>5. RowOK' /\ SlashIsEarned' /\ FeeIsJust' /\ ClaimOK'
    BY <1>1, <2>3 DEF Inv, RowOK, Reviews, SlashIsEarned, FeeIsJust, ClaimOK
  <2>6. ReadOK(c)'
    BY <1>1 DEF ReadOK, Holding
  <2> QED BY <1>1, <2>4, <2>5, <2>6, Assemble
<1>3. CASE ~(row.status = "RESOLVED" /\ Claims(c))
  <2>1. row' = row
    BY <1>1, <1>3 DEF HandBack, Claims, Holding
  <2>2. Types' /\ Monotone
    BY <1>1, <2>1, DisputeAssumption DEF Inv, Types, Monotone, RowType, Rounds
  <2>3. RowOK' /\ SlashIsEarned' /\ FeeIsJust'
    BY <1>1, <2>1 DEF Inv, RowOK, Reviews, SlashIsEarned, FeeIsJust
  <2>4. ClaimOK'
    BY <1>1, <1>3, <2>1 DEF Inv, ClaimOK, Claims, Only
  <2>5. ReadOK(c)'
    BY <1>1 DEF ReadOK, Holding
  <2> QED BY <1>1, <2>2, <2>3, <2>4, <2>5, Assemble
<1> QED BY <1>2, <1>3

LEMMA SlashInv ==
  ASSUME Inv, NEW c \in Calls, SlashOverruled(c)
  PROVE  Inv'
<1>1. call[c].pc = "slash" /\ UNCHANGED <<row, executed, fee, ruled, cut>> /\ Goto(c, "settle")
  BY DEF SlashOverruled, At
<1>2. /\ call' \in [Calls -> {Idle} \cup CallRec] /\ Only(c)
      /\ call'[c].pc = "settle" /\ call'[c].seen = call[c].seen /\ call'[c].arg = call[c].arg
  BY <1>1, GotoEffect DEF Inv, PCs
<1>3. /\ call[c].arg \in Rulings /\ executed = call[c].arg /\ call[c].seen.round \in 0..row.round
      /\ Reviews(call[c].seen.round, call[c].seen.previousArbiter, call[c].seen.previousRuling)
  BY ZenonT(60), <1>1 DEF Inv, ReadOK
<1> DEFINE s == <<call[c].seen.previousArbiter, call[c].seen.round, call[c].arg>>
<1>4. Overrules(c) => \E r \in Rulings \ {s[3]} : <<s[2] - 1, s[1], r>> \in ruled
  <2> SUFFICES ASSUME Overrules(c) PROVE \E r \in Rulings \ {s[3]} : <<s[2] - 1, s[1], r>> \in ruled
    OBVIOUS
  <2>1. call[c].seen.round > 0
    BY <1>3, DisputeAssumption DEF Overrules, Reviews, Inv, Types, RowType, Rounds
  <2>2. /\ call[c].seen.previousRuling \in Rulings \ {call[c].arg}
        /\ <<call[c].seen.round - 1, call[c].seen.previousArbiter, call[c].seen.previousRuling>> \in ruled
    BY <1>3, <2>1 DEF Overrules, Reviews
  <2> QED BY <2>2
<1>5. \A t \in slashes' : t \in slashes \/ (Overrules(c) /\ t = s)
  BY DEF SlashOverruled
<1>6. SlashIsEarned'
  BY <1>1, <1>3, <1>4, <1>5 DEF Inv, SlashIsEarned
<1>7. Types' /\ Monotone
  BY <1>1, <1>2, <1>3, <1>5, DisputeAssumption DEF Inv, Types, Monotone, RowType, Rounds
<1>8. RowOK' /\ FeeIsJust' /\ ClaimOK'
  BY <1>1, <1>2 DEF Inv, RowOK, Reviews, FeeIsJust, ClaimOK, Claims, Only, Holding
<1>9. ReadOK(c)'
  BY ZenonT(60), <1>1, <1>2 DEF Inv, ReadOK, Reviews, Holding
<1> QED BY <1>2, <1>6, <1>7, <1>8, <1>9, Assemble

LEMMA SettleFeeInv ==
  ASSUME Inv, NEW c \in Calls, SettleFee(c)
  PROVE  Inv'
<1> DEFINE n == call[c].seen.round
           p == call[c].seen.previousRuling
<1>1. /\ call[c].pc = "settle" /\ UNCHANGED <<row, executed, slashes, ruled, cut>>
      /\ call' \in [Calls -> {Idle} \cup CallRec] /\ Only(c) /\ call'[c].pc = "idle"
  BY EndEffect DEF SettleFee, At, Inv, historyVars
<1>2. /\ call[c].arg \in Rulings /\ executed = call[c].arg /\ n \in 0..row.round
      /\ Reviews(n, call[c].seen.previousArbiter, p)
  BY ZenonT(60), <1>1 DEF Inv, ReadOK
<1>3. n \in Rounds /\ n \in Nat
  BY <1>2, DisputeAssumption DEF Inv, Types, RowType, Rounds
<1>4. \A m \in Rounds : fee'[m] = fee[m] \/ (m = n /\ n > 0 /\ fee[m].outcome = "due" /\ fee'[m] =
        [fee[m] EXCEPT !.outcome = IF Overrules(c) THEN "REFUNDED" ELSE "FORFEITED"])
  BY <1>3 DEF SettleFee, Inv, Types
<1>5. fee' \in [Rounds -> FeeRec]
  BY <1>3 DEF SettleFee, Inv, Types, FeeRec
<1>6. \A m \in Rounds : fee[m] \in FeeRec
  BY DEF Inv, Types
<1>7. \A m \in Rounds : fee'[m].against = fee[m].against
  BY ZenonT(60), <1>4, <1>6 DEF FeeRec
<1>8. FeeIsJust'
  <2> SUFFICES ASSUME NEW m \in Rounds
               PROVE  /\ fee'[m].outcome = "REFUNDED" => executed' \notin {None, fee'[m].against}
                      /\ fee'[m].outcome = "FORFEITED" => executed' = fee'[m].against
    BY DEF FeeIsJust
  <2>1. CASE fee'[m] = fee[m]
    BY <1>1, <2>1 DEF Inv, FeeIsJust
  <2>2. CASE fee'[m] # fee[m]
    <3>1. /\ m = n /\ n > 0 
          /\ fee'[m].outcome = IF Overrules(c) THEN "REFUNDED" ELSE "FORFEITED"
      BY ZenonT(60), <1>4, <1>6, <2>2 DEF FeeRec
    <3>2. p \in Rulings /\ fee'[m].against = p /\ p # None
      BY <1>2, <1>7, <3>1, DisputeAssumption DEF Reviews, None
    <3> QED BY <1>1, <1>2, <3>1, <3>2, DisputeAssumption DEF Overrules, None
  <2> QED BY <2>1, <2>2
<1>9. Types'
  BY <1>1, <1>4, <1>5, <1>6, <1>7 DEF Inv, Types
<1>10. Monotone
  BY <1>1, <1>7, DisputeAssumption DEF Inv, Types, Monotone, RowType, Rounds
<1>11. RowOK'
  BY <1>1, <1>7 DEF Inv, Types, RowType, RowOK, Reviews
<1>12. ClaimOK' /\ SlashIsEarned'
  BY <1>1 DEF Inv, ClaimOK, Claims, Only, Holding, SlashIsEarned
<1>13. ReadOK(c)'
  BY <1>1 DEF ReadOK, Holding
<1> QED BY <1>1, <1>8, <1>9, <1>10, <1>11, <1>12, <1>13, Assemble

LEMMA ClaimAppealInv ==
  ASSUME Inv, NEW c \in Calls, ClaimAppeal(c)
  PROVE  Inv'
<1> DEFINE seen == call[c].seen
<1>1. /\ call[c].pc = "appeal" /\ UNCHANGED <<executed, slashes, ruled, cut>>
      /\ call' \in [Calls -> {Idle} \cup CallRec] /\ Only(c) /\ call'[c].pc = "idle"
  BY EndEffect DEF ClaimAppeal, At, Inv, historyVars
<1>2. CASE ~(row.status = "RESOLVED" /\ row.round = seen.round)
  BY <1>1, <1>2, Loose DEF ClaimAppeal, Holding, Inv, Types
<1>3. CASE row.status = "RESOLVED" /\ row.round = seen.round
  <2>1. /\ row' = [row EXCEPT !.status = "APPEALED", !.round = @ + 1, !.ruling = None,
                              !.arbiter = call[c].by, !.previousRuling = seen.ruling,
                              !.previousArbiter = seen.arbiter]
        /\ fee' = [fee EXCEPT ![row.round + 1] = [outcome |-> "due", against |-> seen.ruling]]
    BY <1>3 DEF ClaimAppeal
  <2>2. /\ row.round < MaxRounds /\ seen.ruling \in Rulings /\ call[c].by \in Arbiters
        /\ seen.arbiter \in Arbiters /\ <<row.round, seen.arbiter, seen.ruling>> \in ruled
    BY <1>1, <1>3 DEF Inv, ReadOK
  <2>3. row.round \in Nat /\ MaxRounds \in Nat /\ row.round + 1 \in Rounds
    BY <2>2, DisputeAssumption DEF Inv, Types, RowType, Rounds
  <2>4. /\ row' \in RowType /\ row'.round = row.round + 1 /\ row'.status = "APPEALED"
        /\ row'.previousRuling = seen.ruling /\ row'.previousArbiter = seen.arbiter
    BY ZenonT(60), <2>1, <2>2, <2>3 DEF Inv, Types, RowType, DisputeStatuses
  <2>5. /\ fee' \in [Rounds -> FeeRec]
        /\ fee'[row.round + 1].outcome = "due" /\ fee'[row.round + 1].against = seen.ruling
        /\ \A m \in Rounds \ {row.round + 1} : fee'[m] = fee[m]
    BY <2>1, <2>2, <2>3 DEF Inv, Types, FeeRec
  <2>6. Types'
    BY <1>1, <2>2, <2>4, <2>5 DEF Inv, Types
  <2>7. Monotone
    BY <1>1, <2>3, <2>4, <2>5 DEF Monotone, Rounds
  <2>8. RowOK' /\ ClaimOK'
    BY <1>1, <2>2, <2>3, <2>4, <2>5 DEF RowOK, ClaimOK, Reviews
  <2>9. SlashIsEarned' /\ FeeIsJust'
    BY <1>1, <2>5 DEF Inv, SlashIsEarned, FeeIsJust
  <2>10. ReadOK(c)'
    BY <1>1 DEF ReadOK, Holding
  <2> QED BY <1>1, <2>6, <2>7, <2>8, <2>9, <2>10, Assemble
<1> QED BY <1>2, <1>3

LEMMA CrashInv ==
  ASSUME Inv, NEW c \in Calls, Crash(c)
  PROVE  Inv'
<1>1. /\ UNCHANGED <<row, executed, fee, slashes, ruled>> /\ cut' = (cut \/ call[c].pc \in Holding)
      /\ call' \in [Calls -> {Idle} \cup CallRec] /\ Only(c) /\ call'[c].pc = "idle"
  BY EndEffect DEF Crash, Inv
<1>2. ReadOK(c)'
  BY <1>1 DEF ReadOK, Holding
<1>3. (cut => cut') /\ (Claims(c) => cut')
  BY ZenonT(60), <1>1 DEF Claims
<1> QED BY <1>1, <1>2, <1>3, Plain

LEMMA NextInv == Inv /\ [Next]_vars => Inv'
<1> SUFFICES ASSUME Inv, [Next]_vars PROVE Inv'
  OBVIOUS
<1>1. CASE UNCHANGED vars
  BY ZenonT(60), <1>1 DEF vars, Inv, Types, RowOK, Reviews, ClaimOK, Claims, ReadOK, SlashIsEarned, FeeIsJust
<1>2. CASE WindowCloses
  BY <1>2, WindowInv
<1>3. ASSUME NEW c \in Calls, Start(c) \/ SweepFinds(c) \/ Step(c) \/ FailRuling(c) \/ Crash(c)
      PROVE  Inv'
  <2>1. CASE Step(c)
    BY <2>1, EvidenceInv, ClaimRulingInv, HoldingInv, HandBackInv, SlashInv, SettleFeeInv,
       ClaimAppealInv DEF Step
  <2> QED BY <1>3, <2>1, StartInv, HoldingInv, CrashInv
<1> QED BY <1>1, <1>2, <1>3 DEF Next

LEMMA Invariance == Spec => []Inv
BY InitInv, NextInv, PTL DEF Spec

\* However rulings, appeals, hand-backs and deaths of processes interleave, a
\* dispute that reads RESOLVED with no claim in flight and none cut short names
\* what the escrow executed: every refusal of releaseFunds(), refundFunds() or
\* splitFunds() ends in a hand-back that takes off exactly its own claim.
THEOREM ResolvedExecuted == Spec => []ResolvedIsExecuted
<1>1. Inv => ResolvedIsExecuted
  BY DEF Inv, ClaimOK, Claims, ResolvedIsExecuted
<1> QED BY <1>1, Invariance, PTL

\* finalizeResolveDispute() slashes nobody who did not give, in the round before,
\* a ruling that the executed one contradicts.
THEOREM SlashEarned == Spec => []SlashIsEarned
<1>1. Inv => SlashIsEarned
  BY DEF Inv
<1> QED BY <1>1, Invariance, PTL

\* The appeal fee of a round is refunded or forfeited as the money went, in
\* whatever order the calls of several rounds finish.
THEOREM FeeJust == Spec => []FeeIsJust
<1>1. Inv => FeeIsJust
  BY DEF Inv
<1> QED BY <1>1, Invariance, PTL

=============================================================================
