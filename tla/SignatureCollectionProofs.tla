---------------------- MODULE SignatureCollectionProofs ---------------------
(***************************************************************************)
(* Theorems about SignatureCollection, for any number of requests, jobs,   *)
(* pending rows, appeal rounds and failures: what a caller was told and    *)
(* what was announced stays true, no transaction reaches the network       *)
(* before the commit gates authorised it, and an appeal supersedes the     *)
(* ruling it appeals.                                                      *)
(***************************************************************************)
EXTENDS SignatureCollection, TLAPS

\* Every leaf that names no prover is tried with SMT, with Zenon and with SMT again.
USE SMTT(60), ZenonT(30), SMTT(61), SMTT(62)

AllKinds == {"release", "refund", "split"}
Names == Arbiters \cup Parties \cup {"none"}
GenRec == [disputed : BOOLEAN, round : Nat, arbiter : Names, ruling : AllKinds \cup {"none"},
           sig : Sigs \cup {0}]
RowRec == [kind : AllKinds, by : Names, gen : GenRec, signed : SUBSET Names]
DisputeRec == [status : {"none", "OPENED", "RESOLVED", "APPEALED"}, round : Rounds,
               arbiter : Names, ruling : AllKinds \cup {"none"}, sig : Sigs \cup {0}]
CallRec == [pc : PCs, op : Ops, kind : AllKinds, by : Names, from : Statuses, id : Nat,
            row : Nat, gen : GenRec, was : {"OPENED", "APPEALED"}, round : Rounds,
            sig : Sigs \cup {0}]

Types ==
  /\ status \in Statuses
  /\ rows \in Seq(RowRec)
  /\ tx \in Nat /\ live \in 0..Len(rows) /\ spent \in 0..Len(rows)
  /\ dispute \in DisputeRec
  /\ record \in [Rounds -> AllKinds \cup {"none"}]
  /\ call \in [Calls -> CallRec]

RequestOps == {"initiate", "sign", "dispute", "resolve", "appeal"}
JobOps == {"unclaimed", "terminal", "effects", "resume", "stale"}
\* The calls that work on a pending row, and all that end in the effects of a settlement.
RowOps == {"sign", "unclaimed", "terminal"}
SettleOps == RowOps \cup {"effects"}
Dispatching == {"core", "authority", "exists", "create"}
Effects == {"obligation", "emit", "delete"}

\* Which operations stand at which step.
Life(pc, op) ==
  /\ pc = "idle" <=> op = "none"
  /\ pc \in Dispatching \cup {"guard"} => op \in {"initiate", "resolve", "resume"}
  /\ pc \in {"commit", "eligible", "unrule", "unrecord"} => op = "resolve"
  /\ pc \in {"opened", "assign"} => op = "dispute"
  /\ pc = "appeal" => op = "appeal"
  /\ pc = "stale" => op = "stale"
  /\ pc \in {"upsert", "signatures", "revert"} => op = "sign"
  /\ pc = "pending" => op \in {"sign", "terminal"}
  /\ pc \in {"economic", "capability", "claim"} => op \in {"sign", "unclaimed"}
  /\ pc = "ask" => op \in {"unclaimed", "terminal"}
  /\ pc \in {"broadcast", "result"} => op \in RowOps
  /\ pc \in Effects => op \in SettleOps

\* Who runs an operation, and for which rail.
LifeOK(c) ==
  /\ Life(call[c].pc, call[c].op)
  /\ call[c].op \in RequestOps => c \in Requests
  /\ call[c].op \in JobOps => c \in Jobs
  /\ call[c].op \in {"unclaimed", "terminal", "resume", "stale"} => MULTISIG
  /\ call[c].op = "appeal" => ~MULTISIG /\ call[c].round + 1 \in Rounds

\* The row a call works on, and what the chain and the escrow show of it.
RowOK(c) ==
  /\ call[c].op \in RowOps /\ call[c].pc # "pending" =>
       /\ call[c].id \in 1..Len(rows) /\ call[c].row = call[c].id
       /\ call[c].kind = rows[call[c].id].kind
  /\ call[c].pc \in Effects \cup {"result"} \/ (call[c].pc = "claim" /\ call[c].op = "unclaimed") =>
       call[c].id \in 1..Len(rows) /\ spent = call[c].id
  /\ call[c].pc \in Effects => tx = call[c].id

\* Both commit gates let the row through.
Ruled(i) == rows[i].gen.disputed => i \in econ
Authorised(i) == Ruled(i) /\ (enforceCapabilities => i \in capa)

GateOK(c) ==
  /\ call[c].pc = "capability" => Ruled(call[c].id)
  /\ \/ call[c].op = "sign" /\ call[c].pc \in InTry \cup {"claim", "revert"}
     \/ call[c].op = "unclaimed" /\ call[c].pc = "broadcast"
     => Authorised(call[c].id)

CallOK(c) == LifeOK(c) /\ RowOK(c) /\ GateOK(c)

Base ==
  /\ Types
  /\ tx # 0 => tx = spent
  /\ MULTISIG => dispute.round = 0
  /\ \A c \in Calls : CallOK(c)

-----------------------------------------------------------------------------
(* Claims, when no recovery job runs while requests are served.            *)

Quiet == ~Overlap \/ Jobs = {}

\* The status is this call's claim, or the settlement it completes.
ClaimedAt(op, pc) ==
  \/ op = "sign" /\ pc \in InTry \cup {"delete", "revert"}
  \/ op = "unclaimed" /\ pc \in Effects \cup {"result"}
  \/ op = "terminal" /\ pc # "pending"
  \/ op = "effects"
Claimed(c) == ClaimedAt(call[c].op, call[c].pc)

\* The call may still hand its claim back.
RevocableAt(op, pc) == op = "sign" /\ pc \in InTry \cup {"revert"}
Revocable(c) == RevocableAt(call[c].op, call[c].pc)

\* The call has read the terminal status and not yet the row.
Rereads(c) == call[c].op = "terminal" /\ call[c].pc = "pending"

HeldOK(c) ==
  /\ Claimed(c) => status = Target(call[c].kind)
  /\ Rereads(c) => status = call[c].from /\ status \in TerminalStatuses
  /\ Revocable(c) => events = {} /\ acked = {}

Apart(c, d) ==
  /\ ~(call[c].op \in RequestOps /\ call[d].op \in JobOps)
  /\ call[c].op = "sign" /\ Claimed(c) /\ call[d].op = "sign" /\ Claimed(d) => c = d

Held ==
  /\ \A c \in Calls : HeldOK(c)
  /\ \A c, d \in Calls : Apart(c, d)
  /\ \A e \in events : status = e.status /\ e.status \in TerminalStatuses
  /\ AckedIsFinal /\ acked \subseteq 1..Len(rows)

-----------------------------------------------------------------------------
(* The commit gates, when one call runs at a time.                         *)

OneAtATime ==
  /\ ~Overlap
  /\ \A c, d \in Requests : c = d
  /\ \A c, d \in Jobs : c = d

LiveOK(c) ==
  /\ call[c].op \in RowOps /\ call[c].pc # "pending" => live = call[c].id
  /\ call[c].pc \in Dispatching \ {"core"} => status \notin TerminalStatuses
  /\ call[c].op = "terminal" /\ call[c].pc = "pending" => status \in TerminalStatuses /\ tx = 0
  /\ call[c].op = "terminal" /\ call[c].pc \in {"ask", "broadcast"} => Authorised(call[c].id)

\* A row that waits for its broadcast under a terminal status passed the gates.
WaitOK == status \in TerminalStatuses /\ tx = 0 /\ live # 0 => Authorised(live)

Solo ==
  /\ \A c, d \in Calls : call[c].op # "none" /\ call[d].op # "none" => c = d
  /\ \A c \in Calls : LiveOK(c)
  /\ WaitOK

Gated == ~MULTISIG \/ Jobs = {}

-----------------------------------------------------------------------------
(* What the steps of a call do to it.                                      *)

\* The step is one of call c.
Only(c) == call' \in [Calls -> CallRec] /\ \A d \in Calls \ {c} : call'[d] = call[d]

LEMMA RoundZero == 0 \in Rounds /\ Rounds \subseteq Nat
BY CollectionAssumption DEF Rounds

LEMMA PanelAt ==
  ASSUME NEW n \in Nat, n + 1 \in Rounds
  PROVE  Panel[n + 2] \in Names
<1>1. n + 2 \in 1..Len(Panel)
  BY CollectionAssumption DEF Rounds
<1> QED BY <1>1 DEF Names, Arbiters

LEMMA TargetTerminal ==
  ASSUME NEW k \in AllKinds
  PROVE  Target(k) \in TerminalStatuses /\ Target(k) \in Statuses
BY DEF AllKinds, Target, TerminalStatuses, Statuses

LEMMA TerminalEnds ==
  ASSUME NEW s \in TerminalStatuses
  PROVE  s \in Statuses /\ VALID_TRANSITIONS[s] = {}
BY DEF TerminalStatuses, Statuses, VALID_TRANSITIONS

LEMMA IdleRec == Idle \in CallRec /\ Idle.pc = "idle" /\ Idle.op = "none" /\ NoGen \in GenRec
<1>1. NoGen \in GenRec
  BY DEF NoGen, GenRec, Names
<1> QED BY <1>1, RoundZero DEF Idle, CallRec, PCs, Ops, AllKinds, Names, Parties, Statuses

LEMMA BeginEffect ==
  ASSUME Types, NEW c \in Calls, NEW r \in CallRec, call' = [call EXCEPT ![c] = r]
  PROVE  Only(c) /\ call'[c] = r
BY DEF Types, Only

LEMMA LeaveEffect ==
  ASSUME Types, NEW c \in Calls, Leave(c)
  PROVE  Only(c) /\ call'[c] = Idle
BY IdleRec DEF Types, Only, Leave

LEMMA GotoEffect ==
  ASSUME Types, NEW c \in Calls, NEW p \in PCs, Goto(c, p)
  PROVE  /\ Only(c) /\ call'[c] = [call[c] EXCEPT !.pc = p]
         /\ call'[c].pc = p /\ call'[c].op = call[c].op /\ call'[c].kind = call[c].kind
         /\ call'[c].from = call[c].from /\ call'[c].id = call[c].id /\ call'[c].row = call[c].row
         /\ call'[c].round = call[c].round
BY ZenonT(60) DEF Types, Only, Goto, CallRec

-----------------------------------------------------------------------------
(* How a step frames the invariant.                                        *)

\* Rows keep what they stand for; spends, transaction ids and authorisations stay.
Grow ==
  /\ rows' \in Seq(RowRec) /\ Len(rows) <= Len(rows')
  /\ \A i \in 1..Len(rows) : rows'[i].kind = rows[i].kind /\ rows'[i].gen = rows[i].gen
  /\ spent # 0 => spent' = spent
  /\ tx # 0 => tx' = tx
  /\ econ \subseteq econ' /\ capa \subseteq capa'

LEMMA SameGrow ==
  ASSUME Base, UNCHANGED <<rows, spent, tx, econ, capa>>
  PROVE  Grow
BY DEF Base, Types, Grow

LEMMA CallStays ==
  ASSUME Base, Grow, NEW c \in Calls, call'[c] = call[c]
  PROVE  CallOK(c)'
<1> USE DEF Base, CallOK
<1>1. LifeOK(c)'
  BY DEF LifeOK
<1>2. Len(rows) \in Nat /\ Len(rows') \in Nat /\ CallOK(c)
  BY DEF Types, Grow
<1>3. RowOK(c)'
  <2>1. ASSUME call[c].id \in 1..Len(rows)
        PROVE  call[c].id \in 1..Len(rows') /\ rows'[call[c].id].kind = rows[call[c].id].kind
    BY <1>2, <2>1 DEF Grow
  <2>2. ASSUME call[c].pc \in Effects PROVE tx' = call[c].id
    BY <1>2, <2>2 DEF RowOK, Grow
  <2>3. ASSUME call[c].id \in 1..Len(rows), spent = call[c].id PROVE spent' = call[c].id
    BY <1>2, <2>3 DEF Grow
  <2> QED BY <1>2, <2>1, <2>2, <2>3 DEF RowOK
<1>4. call[c].pc = "capability" => call[c].id \in 1..Len(rows)
  BY <1>2 DEF RowOK, LifeOK, Life, RowOps
<1>5. \/ call[c].op = "sign" /\ call[c].pc \in InTry \cup {"claim", "revert"}
      \/ call[c].op = "unclaimed" /\ call[c].pc = "broadcast"
      => call[c].id \in 1..Len(rows)
  BY <1>2 DEF RowOK, RowOps, InTry
<1>6. GateOK(c)'
  BY <1>2, <1>4, <1>5 DEF GateOK, Grow, Ruled, Authorised
<1> QED BY <1>1, <1>3, <1>6

LEMMA BaseBy ==
  ASSUME Base, Types', Grow, NEW c \in Calls, Only(c), CallOK(c)',
         tx' # 0 => tx' = spent', MULTISIG => dispute'.round = 0
  PROVE  Base'
<1>1. \A d \in Calls : CallOK(d)'
  BY CallStays DEF Only
<1> QED BY <1>1 DEF Base

LEMMA IdleOK ==
  ASSUME Types', NEW c \in Calls, call'[c] = Idle
  PROVE  CallOK(c)'
BY IdleRec DEF CallOK, LifeOK, RowOK, GateOK, Life, RequestOps, JobOps, RowOps, SettleOps,
             Dispatching, Effects, InTry

LEMMA ThrowOK ==
  ASSUME Base, Types', Grow, NEW c \in Calls, Throw(c)
  PROVE  Only(c) /\ CallOK(c)'
<1> USE DEF Base
<1>1. CASE Leave(c)
  BY <1>1, LeaveEffect, IdleOK
<1>2. CASE call[c].op = "sign" /\ call[c].pc \in InTry /\ Goto(c, "revert")
  <2>1. "revert" \in PCs
    BY DEF PCs
  <2>2. /\ Only(c) /\ call'[c].pc = "revert" /\ call'[c].op = "sign" /\ call'[c].kind = call[c].kind
        /\ call'[c].id = call[c].id /\ call'[c].row = call[c].row
    BY ZenonT(60), <1>2, <2>1, GotoEffect
  <2>3. /\ c \in Requests /\ call[c].id \in 1..Len(rows) /\ call[c].row = call[c].id
        /\ call[c].kind = rows[call[c].id].kind /\ Authorised(call[c].id)
    BY <1>2 DEF CallOK, LifeOK, RowOK, GateOK, InTry, RowOps, RequestOps
  <2>4. LifeOK(c)'
    BY <2>2, <2>3 DEF LifeOK, Life, RequestOps, JobOps, Dispatching, Effects
  <2>5. Len(rows) \in Nat /\ Len(rows') \in Nat
    BY DEF Types, Grow
  <2>6. RowOK(c)'
    BY <2>2, <2>3, <2>5 DEF RowOK, Effects, RowOps, Grow
  <2>7. GateOK(c)'
    BY <2>2, <2>3 DEF GateOK, Authorised, Ruled, Grow
  <2> QED BY <2>2, <2>4, <2>6, <2>7 DEF CallOK
<1>3. CASE call[c].op = "resolve" /\ Goto(c, "unrule")
  <2>1. "unrule" \in PCs
    BY DEF PCs
  <2>2. Only(c) /\ call'[c].pc = "unrule" /\ call'[c].op = "resolve"
    BY ZenonT(60), <1>3, <2>1, GotoEffect
  <2>3. c \in Requests
    BY <1>3 DEF CallOK, LifeOK, RequestOps
  <2> QED BY <2>2, <2>3 DEF CallOK, LifeOK, RowOK, GateOK, Life, RequestOps, JobOps, RowOps,
                             SettleOps, Dispatching, Effects, InTry
<1> QED BY <1>1, <1>2, <1>3 DEF Throw

\* A step that touches no row, no spend and no authorisation.
LEMMA Plain ==
  ASSUME Base, NEW c \in Calls, Only(c), CallOK(c)',
         UNCHANGED <<rows, tx, spent, econ, capa>>,
         status' \in Statuses, live' \in 0..Len(rows), dispute' \in DisputeRec,
         MULTISIG => dispute'.round = dispute.round, record' \in [Rounds -> AllKinds \cup {"none"}]
  PROVE  Base'
<1>1. Types' /\ Grow
  BY DEF Base, Types, Grow, Only
<1> QED BY <1>1, BaseBy DEF Base

\* A call that settles nothing.
LEMMA ForeignOK ==
  ASSUME NEW c \in Calls, LifeOK(c)', call'[c].op \notin SettleOps
  PROVE  CallOK(c)'
BY DEF CallOK, LifeOK, RowOK, GateOK, Life, RowOps, SettleOps, Dispatching, Effects, InTry

LEMMA InitBase == Init => Base
<1> SUFFICES ASSUME Init PROVE Base
  OBVIOUS
<1>1. rows = <<>> /\ Len(rows) = 0 /\ rows \in Seq(RowRec)
  BY DEF Init
<1>2. dispute \in DisputeRec /\ dispute.round = 0
  BY RoundZero DEF Init, DisputeRec, Names
<1>3. Types
  BY <1>1, <1>2, IdleRec DEF Init, Types, Statuses
<1>4. \A c \in Calls : CallOK(c)
  BY IdleRec DEF Init, CallOK, LifeOK, RowOK, GateOK, Life, RequestOps, JobOps, RowOps, SettleOps,
                 Dispatching, Effects, InTry
<1> QED BY <1>2, <1>3, <1>4 DEF Init, Base

-----------------------------------------------------------------------------
(* Every step keeps Base.                                                  *)

LEMMA OtherBase == Base /\ Other => Base'
<1> SUFFICES ASSUME Base, Other PROVE Base'
  OBVIOUS
<1>1. /\ UNCHANGED <<tx, rows, live, spent, dispute, record, econ, capa, events, acked, obligation,
                     call, faults>>
      /\ status' \in Statuses
  BY DEF Other, MarkPaymentSent, SweepExpired, FundingSweep, RevokeCapability, approveRelease,
         rowVars, rulingVars, gateVars, sideVars, effectVars, escrowVars, Statuses, Base, Types
<1>2. Types' /\ Grow
  BY <1>1 DEF Base, Types, Grow
<1> QED BY <1>1, <1>2, CallStays DEF Base

\* An idle slot takes up a request.
RequestStart(c) ==
  /\ Only(c) /\ call[c].op = "none" /\ call'[c].op \in RequestOps
  /\ call'[c].pc \notin Dispatching \ {"core"}
  /\ call'[c].op = "sign" => call'[c].pc = "pending"

LEMMA RequestBase ==
  ASSUME Base, NEW c \in Requests, Request(c)
  PROVE  Base' /\ RequestStart(c)
<1> c \in Calls
  BY DEF Calls
<1> USE DEF Base
<1>6. call[c].op = "none"
  <2>1. call[c].pc = "idle"
    BY ZenonT(60) DEF Request, Initiate, Submit, OpenDispute, Resolve, Appeal, At
  <2> QED BY <2>1 DEF CallOK, LifeOK, Life
<1>0. ASSUME NEW r \in CallRec, call' = [call EXCEPT ![c] = r], r.op \notin SettleOps,
             Life(r.pc, r.op), r.op \in RequestOps, r.pc \notin Dispatching \ {"core"},
             r.op = "appeal" => ~MULTISIG /\ r.round + 1 \in Rounds,
             status' \in Statuses, UNCHANGED <<rows, live, tx, spent, econ, capa, dispute, record>>
      PROVE  Base' /\ RequestStart(c)
  <2>1. Only(c) /\ call'[c] = r
    BY ZenonT(60), <1>0, BeginEffect
  <2>2. LifeOK(c)'
    BY <1>0, <2>1 DEF LifeOK, RequestOps, JobOps
  <2>3. RequestStart(c)
    BY <1>6, <1>0, <2>1 DEF RequestStart, SettleOps, RowOps
  <2> QED BY ZenonT(60), <1>0, <2>1, <2>2, <2>3, ForeignOK, Plain DEF Types
<1>1. ASSUME NEW k \in Kinds, NEW a \in Arbiters \cup {"seller"}, Initiate(c, k, a) PROVE Base' /\ RequestStart(c)
  <2> DEFINE r == [Idle EXCEPT !.pc = "core", !.op = "initiate", !.kind = k, !.by = a]
  <2>1. r \in CallRec /\ r.pc = "core" /\ r.op = "initiate"
    BY ZenonT(60), IdleRec, CollectionAssumption DEF CallRec, PCs, Ops, AllKinds, Names, Parties
  <2>2. call' = [call EXCEPT ![c] = r]
    BY <1>1 DEF Initiate
  <2> HIDE DEF r
  <2>3. /\ r.op \notin SettleOps /\ Life(r.pc, r.op) /\ r.op \in RequestOps
        /\ r.pc \notin Dispatching \ {"core"} /\ r.op # "appeal"
    BY <2>1 DEF Life, RequestOps, RowOps, SettleOps, Dispatching, Effects
  <2>4. status' \in Statuses /\ UNCHANGED <<rows, live, tx, spent, econ, capa, dispute, record>>
    BY <1>1 DEF Initiate, Types, escrowVars, rowVars, rulingVars, gateVars, Statuses
  <2> QED BY ZenonT(60), <1>0, <2>1, <2>2, <2>3, <2>4
<1>2. ASSUME NEW p \in Parties, Submit(c, p) PROVE Base' /\ RequestStart(c)
  <2> DEFINE r == [Idle EXCEPT !.pc = "pending", !.op = "sign", !.by = p, !.from = status]
  <2>1. r \in CallRec /\ r.pc = "pending" /\ r.op = "sign"
    BY ZenonT(60), IdleRec DEF CallRec, PCs, Ops, Names, Types
  <2>2. call' = [call EXCEPT ![c] = r]
    BY <1>2 DEF Submit
  <2> HIDE DEF r
  <2>3. Only(c) /\ call'[c] = r
    BY ZenonT(60), <2>1, <2>2, BeginEffect
  <2>4. CallOK(c)'
    BY <2>1, <2>3 DEF CallOK, LifeOK, RowOK, GateOK, Life, RequestOps, JobOps, RowOps, SettleOps,
                      Dispatching, Effects, InTry
  <2>5. RequestStart(c)
    BY <1>6, <2>1, <2>3 DEF RequestStart, RequestOps, Dispatching
  <2> QED BY ZenonT(60), <1>2, <2>3, <2>4, <2>5, Plain DEF Submit, Types, escrowVars, rowVars, rulingVars, gateVars
<1>3. ASSUME OpenDispute(c) PROVE Base' /\ RequestStart(c)
  <2> DEFINE r == [Idle EXCEPT !.pc = "opened", !.op = "dispute"]
  <2>1. r \in CallRec /\ r.pc = "opened" /\ r.op = "dispute"
    BY ZenonT(60), IdleRec DEF CallRec, PCs, Ops
  <2>2. call' = [call EXCEPT ![c] = r]
    BY <1>3 DEF OpenDispute
  <2> HIDE DEF r
  <2>3. /\ r.op \notin SettleOps /\ Life(r.pc, r.op) /\ r.op \in RequestOps
        /\ r.pc \notin Dispatching \ {"core"} /\ r.op # "appeal"
    BY <2>1 DEF Life, RequestOps, RowOps, SettleOps, Dispatching, Effects
  <2>4. status' \in Statuses /\ UNCHANGED <<rows, live, tx, spent, econ, capa, dispute, record>>
    BY <1>3 DEF OpenDispute, Types, escrowVars, rowVars, rulingVars, gateVars, Statuses
  <2> QED BY ZenonT(60), <1>0, <2>1, <2>2, <2>3, <2>4
<1>4. ASSUME NEW k \in Kinds, NEW a \in Arbiters, Resolve(c, k, a) PROVE Base' /\ RequestStart(c)
  <2> DEFINE r == [Idle EXCEPT !.pc = "commit", !.op = "resolve", !.kind = k, !.by = a,
                               !.was = dispute.status, !.round = dispute.round]
  <2>1. dispute.status \in {"OPENED", "APPEALED"} /\ dispute.round \in Rounds
    BY <1>4 DEF Resolve, Types, DisputeRec
  <2>2. r \in CallRec /\ r.pc = "commit" /\ r.op = "resolve"
    BY ZenonT(60), <2>1, IdleRec, CollectionAssumption DEF CallRec, PCs, Ops, AllKinds, Names
  <2>3. call' = [call EXCEPT ![c] = r]
    BY <1>4 DEF Resolve
  <2> HIDE DEF r
  <2>4. /\ r.op \notin SettleOps /\ Life(r.pc, r.op) /\ r.op \in RequestOps
        /\ r.pc \notin Dispatching \ {"core"} /\ r.op # "appeal"
    BY <2>2 DEF Life, RequestOps, RowOps, SettleOps, Dispatching, Effects
  <2>5. status' \in Statuses /\ UNCHANGED <<rows, live, tx, spent, econ, capa, dispute, record>>
    BY <1>4 DEF Resolve, Types, escrowVars, rowVars, rulingVars, gateVars, Statuses
  <2> QED BY ZenonT(60), <1>0, <2>2, <2>3, <2>4, <2>5
<1>5. ASSUME Appeal(c) PROVE Base' /\ RequestStart(c)
  <2> DEFINE r == [Idle EXCEPT !.pc = "appeal", !.op = "appeal", !.round = dispute.round]
  <2>1. dispute.round \in Rounds /\ dispute.round + 1 \in Rounds /\ ~MULTISIG
    BY <1>5 DEF Appeal, Types, DisputeRec
  <2>2. r \in CallRec /\ r.pc = "appeal" /\ r.op = "appeal" /\ r.round = dispute.round
    BY ZenonT(60), <2>1, IdleRec DEF CallRec, PCs, Ops
  <2>3. call' = [call EXCEPT ![c] = r]
    BY <1>5 DEF Appeal
  <2> HIDE DEF r
  <2>4. /\ r.op \notin SettleOps /\ Life(r.pc, r.op) /\ r.op \in RequestOps
        /\ r.pc \notin Dispatching \ {"core"} /\ ~MULTISIG /\ r.round + 1 \in Rounds
    BY <2>1, <2>2 DEF Life, RequestOps, RowOps, SettleOps, Dispatching, Effects
  <2>5. status' \in Statuses /\ UNCHANGED <<rows, live, tx, spent, econ, capa, dispute, record>>
    BY <1>5 DEF Appeal, Types, escrowVars, rowVars, rulingVars, gateVars, Statuses
  <2> QED BY ZenonT(60), <1>0, <2>1, <2>2, <2>3, <2>4, <2>5
<1> QED BY ZenonT(60), <1>1, <1>2, <1>3, <1>4, <1>5 DEF Request

\* An idle slot takes up the work of a recovery job.
JobStart(c) ==
  /\ Only(c) /\ call[c].op = "none" /\ call'[c].op \in JobOps
  /\ call'[c].pc \notin Dispatching \ {"core"}
  /\ call'[c].op = "unclaimed" => call'[c].pc = "ask" /\ call'[c].id = live
  /\ call'[c].op = "terminal" =>
       call'[c].pc = "pending" /\ call'[c].from = status /\ status \in TerminalStatuses /\ tx = 0
  /\ call'[c].op = "effects" =>
       Target(call'[c].kind) = status /\ status \in TerminalStatuses /\ call'[c].pc \in Effects

LEMMA JobBase ==
  ASSUME Base, NEW c \in Jobs, Job(c)
  PROVE  /\ Base' /\ JobStart(c)
         /\ UNCHANGED <<status, rows, live, tx, spent, econ, capa, dispute, record>>
<1> c \in Calls
  BY DEF Calls
<1> USE DEF Base
<1> Len(rows) \in Nat
  BY DEF Types
<1>6. call[c].op = "none"
  <2>1. call[c].pc = "idle"
    BY ZenonT(60) DEF Job, ReadUnclaimed, ReadTerminal, ReadEffects, ResumeDispatch, ReadStale, At
  <2> QED BY <2>1 DEF CallOK, LifeOK, Life
<1> DEFINE Goal == /\ Base' /\ JobStart(c)
                   /\ UNCHANGED <<status, rows, live, tx, spent, econ, capa, dispute, record>>
<1>0. ASSUME NEW r \in CallRec, call' = [call EXCEPT ![c] = r], Life(r.pc, r.op), r.op \in JobOps,
             r.op # "effects" => MULTISIG,
             UNCHANGED <<status, rows, live, tx, spent, econ, capa, dispute, record>>,
             Only(c) /\ call'[c] = r /\ LifeOK(c)' => CallOK(c)',
             call[c].op = "none" /\ Only(c) /\ call'[c] = r => JobStart(c)
      PROVE  Goal
  <2>1. Only(c) /\ call'[c] = r
    BY ZenonT(60), <1>0, BeginEffect
  <2>2. LifeOK(c)'
    BY <1>0, <2>1 DEF LifeOK, RequestOps, JobOps
  <2> QED BY ZenonT(60), <1>0, <1>6, <2>1, <2>2, Plain DEF Types
<1>1. ASSUME ReadUnclaimed(c) PROVE Goal
  <2> DEFINE r == [Idle EXCEPT !.pc = "ask", !.op = "unclaimed", !.id = live, !.row = live,
                               !.kind = rows[live].kind, !.from = status]
  <2>1. live \in 1..Len(rows) /\ live \in Nat /\ rows[live] \in RowRec
    BY <1>1 DEF ReadUnclaimed, Types
  <2>2. rows[live].kind \in AllKinds
    BY <2>1 DEF RowRec
  <2>3. /\ r \in CallRec /\ r.pc = "ask" /\ r.op = "unclaimed" /\ r.id = live /\ r.row = live
        /\ r.kind = rows[live].kind
    BY ZenonT(60), <2>1, <2>2, IdleRec DEF CallRec, PCs, Ops, Types
  <2>4. call' = [call EXCEPT ![c] = r]
    BY ZenonT(60), <1>1 DEF ReadUnclaimed
  <2>5. /\ MULTISIG /\ UNCHANGED <<status, rows, live, tx, spent, econ, capa, dispute, record>>
    BY <1>1 DEF ReadUnclaimed, escrowVars, rowVars, rulingVars, gateVars
  <2> HIDE DEF r
  <2>6. ASSUME call'[c] = r, LifeOK(c)' PROVE CallOK(c)'
    BY <2>1, <2>3, <2>5, <2>6 DEF CallOK, RowOK, GateOK, RowOps, Effects, InTry
  <2>7. Life(r.pc, r.op) /\ r.op \in JobOps
    BY <2>3 DEF Life, JobOps, Dispatching, Effects
  <2>8. ASSUME call[c].op = "none", Only(c), call'[c] = r PROVE JobStart(c)
    BY <2>3, <2>8 DEF JobStart, JobOps, Dispatching
  <2> QED BY ZenonT(60), <1>0, <2>3, <2>4, <2>5, <2>6, <2>7, <2>8
<1>2. ASSUME ReadTerminal(c) PROVE Goal
  <2> DEFINE r == [Idle EXCEPT !.pc = "pending", !.op = "terminal", !.from = status]
  <2>1. r \in CallRec /\ r.pc = "pending" /\ r.op = "terminal" /\ r.from = status
    BY ZenonT(60), IdleRec DEF CallRec, PCs, Ops, Types
  <2>2. call' = [call EXCEPT ![c] = r]
    BY ZenonT(60), <1>2 DEF ReadTerminal
  <2>3. /\ MULTISIG /\ UNCHANGED <<status, rows, live, tx, spent, econ, capa, dispute, record>>
    BY ZenonT(60), <1>2 DEF ReadTerminal, escrowVars, rowVars, rulingVars, gateVars
  <2> HIDE DEF r
  <2>4. ASSUME call'[c] = r, LifeOK(c)' PROVE CallOK(c)'
    BY <2>1, <2>3, <2>4 DEF CallOK, RowOK, GateOK, RowOps, Effects, InTry
  <2>5. Life(r.pc, r.op) /\ r.op \in JobOps
    BY <2>1 DEF Life, JobOps, Dispatching, Effects
  <2>6. ASSUME call[c].op = "none", Only(c), call'[c] = r PROVE JobStart(c)
    BY <1>2, <2>1, <2>6 DEF JobStart, JobOps, Dispatching, ReadTerminal
  <2> QED BY ZenonT(60), <1>0, <2>1, <2>2, <2>3, <2>4, <2>5, <2>6
<1>3. ASSUME ReadEffects(c) PROVE Goal
  <2> DEFINE p == IF status = "SPLIT" /\ live = 0 THEN "emit" ELSE "obligation"
             r == [Idle EXCEPT !.pc = p, !.op = "effects", !.id = tx, !.row = live,
                               !.kind = SettledKind]
  <2>1. status \in TerminalStatuses /\ tx # 0 /\ tx \in 1..Len(rows) /\ spent = tx
    BY <1>3 DEF ReadEffects, Types
  <2>2. \E k \in AllKinds : Target(k) = status
    BY <2>1 DEF AllKinds, Target, TerminalStatuses
  <2>3. SettledKind \in AllKinds
    BY <2>2 DEF SettledKind, AllKinds
  <2>4. p \in Effects /\ p \in PCs /\ tx \in Nat /\ live \in Nat
    BY DEF Effects, PCs, InTry, Types
  <2> HIDE DEF p
  <2>5. r \in CallRec /\ r.pc = p /\ r.op = "effects" /\ r.id = tx /\ r.kind = SettledKind
    BY ZenonT(60), <2>3, <2>4, IdleRec DEF CallRec, Ops
  <2>6. call' = [call EXCEPT ![c] = r]
    BY ZenonT(60), <1>3 DEF ReadEffects, p
  <2>7. UNCHANGED <<status, rows, live, tx, spent, econ, capa, dispute, record>>
    BY ZenonT(60), <1>3 DEF ReadEffects, escrowVars, rowVars, rulingVars, gateVars
  <2> HIDE DEF r
  <2>8. ASSUME call'[c] = r, LifeOK(c)' PROVE CallOK(c)'
    BY <2>1, <2>4, <2>5, <2>7, <2>8 DEF CallOK, RowOK, GateOK, RowOps, Effects, InTry
  <2>9. Life(r.pc, r.op) /\ r.op \in JobOps
    BY <2>4, <2>5 DEF Life, JobOps, Dispatching, Effects, SettleOps
  <2>10. Target(r.kind) = status
    BY <2>2, <2>5 DEF SettledKind, AllKinds
  <2>11. ASSUME call[c].op = "none", Only(c), call'[c] = r PROVE JobStart(c)
    BY <2>1, <2>4, <2>5, <2>10, <2>11 DEF JobStart, JobOps, Dispatching, Effects
  <2> QED BY ZenonT(60), <1>0, <2>5, <2>6, <2>7, <2>8, <2>9, <2>11
<1>4. ASSUME ResumeDispatch(c) PROVE Goal
  <2> DEFINE k == record[dispute.round]
             r == [Idle EXCEPT !.pc = "core", !.op = "resume", !.kind = k, !.by = dispute.arbiter]
  <2>1. dispute.round \in Rounds /\ dispute.arbiter \in Names
    BY DEF Types, DisputeRec
  <2>2. k \in AllKinds
    BY <1>4, <2>1 DEF ResumeDispatch, Types
  <2> HIDE DEF k
  <2>3. r \in CallRec /\ r.pc = "core" /\ r.op = "resume"
    BY ZenonT(60), <2>1, <2>2, IdleRec DEF CallRec, PCs, Ops
  <2>4. call' = [call EXCEPT ![c] = r]
    BY ZenonT(60), <1>4 DEF ResumeDispatch, k
  <2>5. /\ MULTISIG /\ UNCHANGED <<status, rows, live, tx, spent, econ, capa, dispute, record>>
    BY <1>4 DEF ResumeDispatch, escrowVars, rowVars, rulingVars, gateVars
  <2> HIDE DEF r
  <2>6. ASSUME call'[c] = r, LifeOK(c)' PROVE CallOK(c)'
    BY <2>3, <2>6, ForeignOK DEF SettleOps, RowOps
  <2>7. Life(r.pc, r.op) /\ r.op \in JobOps
    BY <2>3 DEF Life, JobOps, Dispatching, Effects
  <2>8. ASSUME call[c].op = "none", Only(c), call'[c] = r PROVE JobStart(c)
    BY <2>3, <2>8 DEF JobStart, JobOps, Dispatching
  <2> QED BY ZenonT(60), <1>0, <2>3, <2>4, <2>5, <2>6, <2>7, <2>8
<1>5. ASSUME ReadStale(c) PROVE Goal
  <2> DEFINE r == [Idle EXCEPT !.pc = "stale", !.op = "stale", !.row = live]
  <2> live \in Nat
    BY DEF Types
  <2>1. r \in CallRec /\ r.pc = "stale" /\ r.op = "stale"
    BY ZenonT(60), IdleRec DEF CallRec, PCs, Ops
  <2>2. call' = [call EXCEPT ![c] = r]
    BY ZenonT(60), <1>5 DEF ReadStale
  <2>3. /\ MULTISIG /\ UNCHANGED <<status, rows, live, tx, spent, econ, capa, dispute, record>>
    BY <1>5 DEF ReadStale, escrowVars, rowVars, rulingVars, gateVars
  <2> HIDE DEF r
  <2>4. ASSUME call'[c] = r, LifeOK(c)' PROVE CallOK(c)'
    BY <2>1, <2>4, ForeignOK DEF SettleOps, RowOps
  <2>5. Life(r.pc, r.op) /\ r.op \in JobOps
    BY <2>1 DEF Life, JobOps, Dispatching, Effects
  <2>6. ASSUME call[c].op = "none", Only(c), call'[c] = r PROVE JobStart(c)
    BY ZenonT(60), <2>1, <2>6 DEF JobStart, JobOps, Dispatching
  <2> QED BY ZenonT(60), <1>0, <2>1, <2>2, <2>3, <2>4, <2>5, <2>6
<1> QED BY ZenonT(60), <1>1, <1>2, <1>3, <1>4, <1>5 DEF Job

\* A step of a call that settles nothing.
Foreign(c) ==
  /\ Only(c) /\ LifeOK(c)'
  /\ call[c].op \notin SettleOps \cup {"none"} /\ call'[c].op \in {call[c].op, "none"}

LEMMA ForeignLeave ==
  ASSUME Base, NEW c \in Calls, Leave(c), call[c].op \notin SettleOps \cup {"none"}
  PROVE  Foreign(c) /\ call'[c].pc = "idle"
BY IdleRec, LeaveEffect DEF Base, Foreign, LifeOK, Life, RequestOps, JobOps, Dispatching, Effects

LEMMA ForeignGoto ==
  ASSUME Base, NEW c \in Calls, call[c].op \notin SettleOps \cup {"none"},
         NEW p \in PCs, Life(p, call[c].op), Goto(c, p)
  PROVE  Foreign(c) /\ call'[c].pc = p
<1>1. /\ Only(c) /\ call'[c].pc = p /\ call'[c].op = call[c].op /\ call'[c].round = call[c].round
  BY ZenonT(60), GotoEffect DEF Base
<1>2. LifeOK(c)
  BY DEF Base, CallOK
<1> QED BY <1>1, <1>2 DEF Foreign, LifeOK

LEMMA ForeignThrow ==
  ASSUME Base, NEW c \in Calls, call[c].op \notin SettleOps \cup {"none"}, Throw(c)
  PROVE  Foreign(c) /\ call'[c].pc \in {"idle", "unrule"}
<1>1. CASE Leave(c)
  BY <1>1, ForeignLeave
<1>2. CASE call[c].op = "resolve" /\ Goto(c, "unrule")
  <2>1. "unrule" \in PCs /\ Life("unrule", call[c].op)
    BY <1>2 DEF PCs, Life, Dispatching, Effects
  <2> QED BY <1>2, <2>1, ForeignGoto
<1>3. call[c].op # "sign"
  BY DEF SettleOps, RowOps
<1> QED BY <1>1, <1>2, <1>3 DEF Throw

LEMMA ForeignBase ==
  ASSUME Base, NEW c \in Calls, Foreign(c), Types', Grow,
         tx' # 0 => tx' = spent', MULTISIG => dispute'.round = dispute.round
  PROVE  Base'
<1>1. CallOK(c)'
  BY ForeignOK DEF Foreign, SettleOps, RowOps
<1> QED BY <1>1, BaseBy DEF Foreign, Base

ForeignStep(c) ==
  \/ ReadForInitiate(c) \/ CheckAuthority(c) \/ CheckExisting(c) \/ CreatePending(c)
  \/ CreateDispute(c) \/ AssignArbiter(c)
  \/ CommitRuling(c) \/ Dispatch(c) \/ TranslationGuard(c) \/ RevertRuling(c) \/ RevertRecord(c)
  \/ CommitAppeal(c) \/ DeleteStale(c)

LEMMA ForeignOps ==
  ASSUME Base, NEW c \in Calls, ForeignStep(c)
  PROVE  /\ call[c].op \notin SettleOps \cup {"none"}
         /\ UNCHANGED <<status, tx, spent, econ, capa, events, acked, obligation>>
<1>1. /\ call[c].pc \in Dispatching \cup {"opened", "assign", "commit", "eligible", "guard", "unrule",
                                         "unrecord", "appeal", "stale"}
      /\ UNCHANGED <<status, tx, spent, econ, capa, events, acked, obligation>>
  BY ZenonT(60) DEF ForeignStep, ReadForInitiate, CheckAuthority, CheckExisting, CreatePending,
     CreateDispute, AssignArbiter, CommitRuling, Dispatch, TranslationGuard, RevertRuling,
     RevertRecord, CommitAppeal, DeleteStale, At, Dispatching, escrowVars, gateVars, effectVars
<1>2. Life(call[c].pc, call[c].op)
  BY DEF Base, CallOK, LifeOK
<1> QED BY <1>1, <1>2 DEF Life, Dispatching, SettleOps, RowOps

LEMMA InitiateSteps ==
  ASSUME Base, NEW c \in Calls, ReadForInitiate(c) \/ CheckAuthority(c) \/ CheckExisting(c)
  PROVE  /\ Foreign(c) /\ UNCHANGED <<rows, live, dispute, record>>
         /\ call'[c].pc \in {"idle", "unrule", "authority", "exists", "create"}
         /\ call'[c].pc = "authority" => VALID_TRANSITIONS[status] # {}
         /\ call'[c].pc = "exists" => call[c].pc = "authority"
         /\ call'[c].pc = "create" => call[c].pc = "exists"
<1> USE DEF Base
<1>1. call[c].op \notin SettleOps \cup {"none"} /\ LifeOK(c) /\ call[c] \in CallRec
  BY ForeignOps DEF ForeignStep, CallOK, Types
<1>2. CASE Throw(c) /\ (ReadForInitiate(c) \/ CheckAuthority(c) \/ CheckExisting(c))
  BY <1>1, <1>2, ForeignThrow DEF ReadForInitiate, CheckAuthority, CheckExisting, rowVars, rulingVars
<1>3. CASE ReadForInitiate(c) /\ ~Throw(c)
  <2> DEFINE r == [call[c] EXCEPT !.pc = "authority", !.from = status]
  <2>1. /\ call' = [call EXCEPT ![c].pc = "authority", ![c].from = status]
        /\ VALID_TRANSITIONS[status] # {} /\ call[c].pc = "core"
        /\ UNCHANGED <<rows, live, dispute, record>>
    BY <1>3 DEF ReadForInitiate, At, rowVars, rulingVars
  <2>2. call' = [call EXCEPT ![c] = r]
    BY ZenonT(60), <1>1, <2>1 DEF Types, CallRec
  <2>3. r \in CallRec /\ r.pc = "authority" /\ r.op = call[c].op /\ r.round = call[c].round
    BY ZenonT(60), <1>1 DEF CallRec, PCs, Types
  <2> HIDE DEF r
  <2>4. Only(c) /\ call'[c] = r
    BY ZenonT(60), <2>2, <2>3, BeginEffect
  <2>5. LifeOK(c)'
    BY <1>1, <2>1, <2>3, <2>4 DEF LifeOK, Life, Dispatching, Effects
  <2> QED BY ZenonT(60), <1>1, <2>1, <2>3, <2>4, <2>5 DEF Foreign
<1>4. CASE CheckAuthority(c) /\ ~Throw(c)
  <2> DEFINE g == IF call[c].from = "DISPUTED" THEN Generation ELSE NoGen
             r == [call[c] EXCEPT !.pc = "exists", !.gen = g]
  <2>1. /\ call' = [call EXCEPT ![c].pc = "exists", ![c].gen = g] /\ call[c].pc = "authority"
        /\ UNCHANGED <<rows, live, dispute, record>>
    BY <1>4 DEF CheckAuthority, At, rowVars, rulingVars
  <2>2. Generation \in GenRec
    BY ZenonT(60), RoundZero DEF Generation, GenRec, Types, DisputeRec
  <2>3. g \in GenRec
    BY <2>2, IdleRec
  <2> HIDE DEF g
  <2>4. call' = [call EXCEPT ![c] = r]
    BY ZenonT(60), <1>1, <2>1 DEF Types, CallRec
  <2>5. r \in CallRec /\ r.pc = "exists" /\ r.op = call[c].op /\ r.round = call[c].round
    BY ZenonT(60), <1>1, <2>3 DEF CallRec, PCs
  <2> HIDE DEF r
  <2>6. Only(c) /\ call'[c] = r
    BY ZenonT(60), <2>4, <2>5, BeginEffect
  <2>7. LifeOK(c)'
    BY <1>1, <2>1, <2>5, <2>6 DEF LifeOK, Life, Dispatching, Effects
  <2> QED BY ZenonT(60), <1>1, <2>1, <2>5, <2>6, <2>7 DEF Foreign
<1>5. CASE CheckExisting(c) /\ ~Throw(c)
  <2>1. Goto(c, "create") /\ call[c].pc = "exists" /\ UNCHANGED <<rows, live, dispute, record>>
    BY ZenonT(60), <1>5 DEF CheckExisting, At, rowVars, rulingVars
  <2>2. "create" \in PCs /\ Life("create", call[c].op)
    BY ZenonT(60), <1>1, <2>1 DEF PCs, LifeOK, Life, Dispatching, Effects
  <2> QED BY ZenonT(60), <1>1, <2>1, <2>2, ForeignGoto
<1> QED BY ZenonT(60), <1>2, <1>3, <1>4, <1>5

LEMMA CreateStep ==
  ASSUME Base, NEW c \in Calls, CreatePending(c)
  PROVE  /\ Foreign(c) /\ UNCHANGED <<dispute, record>>
         /\ call'[c].pc \in {"idle", "unrule", "guard"}
         /\ rows' \in Seq(RowRec) /\ Len(rows) <= Len(rows') /\ live' \in 0..Len(rows')
         /\ \A i \in 1..Len(rows) : rows'[i] = rows[i]
<1> USE DEF Base
<1>1. call[c].op \notin SettleOps \cup {"none"} /\ LifeOK(c) /\ call[c] \in CallRec
  BY ForeignOps DEF ForeignStep, CallOK, Types
<1>2. call[c].pc = "create" /\ UNCHANGED <<dispute, record>>
  BY ZenonT(60) DEF CreatePending, At, rulingVars
<1>3. CASE Throw(c) /\ UNCHANGED rowVars
  <2>1. UNCHANGED <<rows, live>>
    BY <1>3 DEF rowVars
  <2>2. rows \in Seq(RowRec) /\ Len(rows) <= Len(rows) /\ live \in 0..Len(rows)
    BY DEF Types
  <2>3. Foreign(c) /\ call'[c].pc \in {"idle", "unrule"}
    BY ZenonT(60), <1>1, <1>3, ForeignThrow
  <2> QED BY ZenonT(60), <1>2, <2>1, <2>2, <2>3
<1>4. CASE ~(Throw(c) /\ UNCHANGED rowVars)
  <2> DEFINE new == [kind |-> call[c].kind, by |-> call[c].by, gen |-> call[c].gen, signed |-> {}]
  <2>1. /\ rows' = Append(rows, new) /\ live' = Len(rows) + 1
        /\ IF MULTISIG /\ call[c].op \in {"resolve", "resume"} THEN Goto(c, "guard") ELSE Leave(c)
    BY ZenonT(60), <1>4 DEF CreatePending
  <2>2. new \in RowRec
    BY ZenonT(60), <1>1 DEF CallRec, RowRec
  <2> HIDE DEF new
  <2>3. /\ rows' \in Seq(RowRec) /\ Len(rows) <= Len(rows') /\ live' \in 0..Len(rows')
        /\ \A i \in 1..Len(rows) : rows'[i] = rows[i]
    BY <2>1, <2>2 DEF Types
  <2>4. CASE Leave(c)
    BY ZenonT(60), <1>1, <1>2, <2>3, <2>4, ForeignLeave
  <2>5. CASE call[c].op \in {"resolve", "resume"} /\ Goto(c, "guard")
    <3>1. "guard" \in PCs /\ Life("guard", call[c].op)
      BY <2>5 DEF PCs, Life, Dispatching, Effects
    <3> QED BY ZenonT(60), <1>1, <1>2, <2>3, <2>5, <3>1, ForeignGoto
  <2> QED BY ZenonT(60), <2>1, <2>4, <2>5
<1> QED BY <1>3, <1>4

LEMMA RulingSteps ==
  ASSUME Base, NEW c \in Calls,
         \/ CreateDispute(c) \/ AssignArbiter(c) \/ CommitRuling(c) \/ Dispatch(c)
         \/ TranslationGuard(c) \/ RevertRuling(c) \/ RevertRecord(c) \/ CommitAppeal(c)
         \/ DeleteStale(c)
  PROVE  /\ Foreign(c) /\ UNCHANGED rows
         /\ live' \in {0, live}
         /\ call'[c].pc \notin Dispatching \ {"core"}
         /\ dispute' \in DisputeRec /\ (MULTISIG => dispute'.round = dispute.round)
         /\ dispute.status = "APPEALED" => dispute'.status \in {"APPEALED", "RESOLVED"}
         /\ record' \in [Rounds -> AllKinds \cup {"none"}]
<1> USE DEF Base
<1> DEFINE Moved == Foreign(c) /\ call'[c].pc \notin Dispatching \ {"core"}
           Panels == /\ dispute' \in DisputeRec /\ (MULTISIG => dispute'.round = dispute.round)
                     /\ dispute.status = "APPEALED" => dispute'.status \in {"APPEALED", "RESOLVED"}
           Records == record' \in [Rounds -> AllKinds \cup {"none"}]
<1>1. /\ call[c].op \notin SettleOps \cup {"none"} /\ LifeOK(c) /\ call[c] \in CallRec
      /\ dispute \in DisputeRec /\ record \in [Rounds -> AllKinds \cup {"none"}]
  BY ForeignOps DEF ForeignStep, CallOK, Types
<1>2. Leave(c) \/ Throw(c) => Moved
  BY ZenonT(60), <1>1, ForeignLeave, ForeignThrow DEF Dispatching
<1>3. ASSUME NEW p \in {"assign", "eligible", "core", "unrecord"}, Life(p, call[c].op), Goto(c, p)
      PROVE  Moved
  BY ZenonT(60), <1>1, <1>3, ForeignGoto DEF PCs, Dispatching
<1>4. UNCHANGED dispute => Panels
  BY ZenonT(60), <1>1 DEF DisputeRec
<1>5. UNCHANGED record => Records
  BY ZenonT(60), <1>1
<1>6. CASE CreateDispute(c)
  <2>1. UNCHANGED <<rows, live, record>> /\ call[c].op = "dispute"
    BY <1>1, <1>6 DEF CreateDispute, rowVars, At, LifeOK, Life
  <2>2. Panels
    BY <1>1, <1>6 DEF CreateDispute, DisputeRec
  <2>3. Life("assign", call[c].op)
    BY ZenonT(60), <2>1 DEF Life, Dispatching, Effects
  <2>4. Moved
    BY ZenonT(60), <1>2, <1>3, <1>6, <2>3 DEF CreateDispute
  <2> QED BY ZenonT(60), <1>5, <2>1, <2>2, <2>4
<1>7. CASE AssignArbiter(c)
  <2>1. UNCHANGED <<rows, live, record>>
    BY <1>7 DEF AssignArbiter, rowVars
  <2>2. Panel[1] \in Names
    BY CollectionAssumption DEF Names, Arbiters
  <2>3. Panels
    BY <1>1, <1>7, <2>2 DEF AssignArbiter, DisputeRec
  <2>4. Moved
    BY ZenonT(60), <1>2, <1>7 DEF AssignArbiter
  <2> QED BY ZenonT(60), <1>5, <2>1, <2>3, <2>4
<1>8. CASE CommitRuling(c)
  <2>1. UNCHANGED <<rows, live>> /\ call[c].op = "resolve" /\ NewSig \in Sigs
    BY <1>1, <1>8 DEF CommitRuling, rowVars, At, LifeOK, Life
  <2>2. CASE UNCHANGED rulingVars /\ Leave(c)
    BY ZenonT(60), <1>2, <1>4, <1>5, <2>1, <2>2 DEF rulingVars
  <2>3. CASE ~(UNCHANGED rulingVars /\ Leave(c))
    <3> DEFINE s == NewSig
               r == [call[c] EXCEPT !.pc = "eligible", !.sig = s]
    <3>1. /\ dispute' = [dispute EXCEPT !.status = "RESOLVED", !.ruling = call[c].kind, !.sig = s]
          /\ record' = IF MULTISIG THEN [record EXCEPT ![call[c].round] = call[c].kind] ELSE record
          /\ call' = [call EXCEPT ![c].pc = "eligible", ![c].sig = s]
      BY ZenonT(60), <1>8, <2>3 DEF CommitRuling
    <3> s \in Sigs
      BY ZenonT(60), <2>1
    <3> HIDE DEF s
    <3>2. call[c].kind \in AllKinds /\ call[c].round \in Rounds
      BY ZenonT(60), <1>1 DEF CallRec
    <3>3. Panels
      BY ZenonT(60), <1>1, <3>1, <3>2 DEF DisputeRec
    <3>4. Records
      BY <1>1, <3>1, <3>2
    <3>5. call' = [call EXCEPT ![c] = r]
      BY ZenonT(60), <1>1, <3>1 DEF Types, CallRec
    <3>6. r \in CallRec /\ r.pc = "eligible" /\ r.op = call[c].op /\ r.round = call[c].round
      BY ZenonT(60), <1>1 DEF CallRec, PCs
    <3> HIDE DEF r
    <3>7. Only(c) /\ call'[c] = r
      BY ZenonT(60), <3>5, <3>6, BeginEffect
    <3>8. LifeOK(c)'
      BY ZenonT(60), <1>1, <2>1, <3>6, <3>7 DEF LifeOK, Life, Dispatching, Effects
    <3>9. Moved
      BY ZenonT(60), <1>1, <3>6, <3>7, <3>8 DEF Foreign, Dispatching
    <3> QED BY ZenonT(60), <2>1, <3>3, <3>4, <3>9
  <2> QED BY ZenonT(60), <2>2, <2>3
<1>9. CASE Dispatch(c)
  <2>1. UNCHANGED <<rows, live, dispute, record>> /\ call[c].op = "resolve"
    BY ZenonT(60), <1>1, <1>9 DEF Dispatch, rowVars, rulingVars, At, LifeOK, Life
  <2>2. Life("core", call[c].op)
    BY ZenonT(60), <2>1 DEF Life, Dispatching, Effects
  <2>3. Moved
    BY ZenonT(60), <1>2, <1>3, <1>9, <2>2 DEF Dispatch
  <2> QED BY ZenonT(60), <1>4, <1>5, <2>1, <2>3
<1>10. CASE TranslationGuard(c)
  <2>1. UNCHANGED <<rows, dispute, record>> /\ live' \in {0, live}
    BY <1>10 DEF TranslationGuard, rulingVars
  <2>2. Moved
    BY ZenonT(60), <1>2, <1>10 DEF TranslationGuard
  <2> QED BY ZenonT(60), <1>4, <1>5, <2>1, <2>2
<1>11. CASE RevertRuling(c)
  <2>1. UNCHANGED <<rows, live, record>> /\ call[c].op = "resolve"
    BY <1>1, <1>11 DEF RevertRuling, rowVars, At, LifeOK, Life
  <2>2. \/ UNCHANGED dispute
        \/ /\ dispute' = [dispute EXCEPT !.status = call[c].was, !.ruling = "none", !.sig = 0]
           /\ dispute.status = "RESOLVED"
    BY ZenonT(60), <1>11 DEF RevertRuling
  <2>3. Panels
    BY ZenonT(60), <1>1, <1>4, <2>2 DEF DisputeRec, CallRec
  <2>4. Life("unrecord", call[c].op)
    BY ZenonT(60), <2>1 DEF Life, Dispatching, Effects
  <2>5. Moved
    BY ZenonT(60), <1>2, <1>3, <1>11, <2>4 DEF RevertRuling
  <2> QED BY <1>5, <2>1, <2>3, <2>5, ZenonT(60)
<1>12. CASE RevertRecord(c)
  <2>1. UNCHANGED <<rows, live, dispute>>
    BY <1>12 DEF RevertRecord, rowVars
  <2>2. call[c].round \in Rounds
    BY <1>1, ZenonT(60) DEF CallRec
  <2>3. Records
    BY ZenonT(60), <1>1, <1>12, <2>2 DEF RevertRecord
  <2>4. Moved
    BY ZenonT(60), <1>2, <1>12 DEF RevertRecord
  <2> QED BY ZenonT(60), <1>4, <2>1, <2>3, <2>4
<1>13. CASE CommitAppeal(c)
  <2>1. UNCHANGED <<rows, live, record>> /\ call[c].op = "appeal"
    BY ZenonT(60), <1>1, <1>13 DEF CommitAppeal, rowVars, At, LifeOK, Life
  <2>2. ~MULTISIG /\ call[c].round + 1 \in Rounds
    BY <1>1, <2>1, ZenonT(60) DEF LifeOK
  <2>3. \/ UNCHANGED dispute
        \/ /\ dispute' = [dispute EXCEPT !.status = "APPEALED", !.round = @ + 1, !.ruling = "none",
                                         !.arbiter = Panel[dispute.round + 2]]
           /\ dispute.round = call[c].round
    BY <1>13 DEF CommitAppeal
  <2>4. call[c].round \in Nat /\ Panel[call[c].round + 2] \in Names
    <3>1. call[c].round \in Nat
      BY ZenonT(60), <1>1, RoundZero DEF CallRec
    <3> QED BY ZenonT(60), <2>2, <3>1, PanelAt
  <2>5. Panels
    BY ZenonT(60), <1>1, <1>4, <2>2, <2>3, <2>4 DEF DisputeRec
  <2>6. Moved
    BY ZenonT(60), <1>2, <1>13 DEF CommitAppeal
  <2> QED BY ZenonT(60), <1>5, <2>1, <2>5, <2>6
<1>14. CASE DeleteStale(c)
  <2>1. UNCHANGED <<rows, dispute, record>> /\ live' \in {0, live}
    BY ZenonT(60), <1>14 DEF DeleteStale, rulingVars
  <2>2. Moved
    BY ZenonT(60), <1>2, <1>14 DEF DeleteStale
  <2> QED BY ZenonT(60), <1>4, <1>5, <2>1, <2>2
<1> QED BY ZenonT(60), <1>6, <1>7, <1>8, <1>9, <1>10, <1>11, <1>12, <1>13, <1>14

LEMMA ForeignKeepsBase ==
  ASSUME Base, NEW c \in Calls, ForeignStep(c)
  PROVE  Base' /\ Foreign(c)
<1>1. UNCHANGED <<status, tx, spent, econ, capa>>
  BY ZenonT(60), ForeignOps
<1>2. Foreign(c) /\ Types' /\ Grow /\ (MULTISIG => dispute'.round = dispute.round)
  <2>1. CASE ReadForInitiate(c) \/ CheckAuthority(c) \/ CheckExisting(c)
    BY <1>1, <2>1, InitiateSteps DEF Base, Types, Grow, Foreign, Only
  <2>2. CASE CreatePending(c)
    <3>1. /\ Foreign(c) /\ UNCHANGED <<dispute, record>>
          /\ rows' \in Seq(RowRec) /\ Len(rows) <= Len(rows') /\ live' \in 0..Len(rows')
          /\ \A i \in 1..Len(rows) : rows'[i] = rows[i]
      BY ZenonT(60), <2>2, CreateStep
    <3>2. Types
      BY DEF Base
    <3>3. spent \in 0..Len(rows')
      BY <3>1, <3>2 DEF Types
    <3>4. Types'
      BY ZenonT(60), <1>1, <3>1, <3>2, <3>3 DEF Types, Foreign, Only
    <3>5. Grow
      BY <1>1, <3>1 DEF Grow
    <3> QED BY ZenonT(60), <3>1, <3>4, <3>5
  <2>3. CASE \/ CreateDispute(c) \/ AssignArbiter(c) \/ CommitRuling(c) \/ Dispatch(c)
             \/ TranslationGuard(c) \/ RevertRuling(c) \/ RevertRecord(c) \/ CommitAppeal(c)
             \/ DeleteStale(c)
    <3>1. /\ Foreign(c) /\ UNCHANGED rows /\ live' \in {0, live}
          /\ dispute' \in DisputeRec /\ (MULTISIG => dispute'.round = dispute.round)
          /\ record' \in [Rounds -> AllKinds \cup {"none"}]
      BY ZenonT(60), <2>3, RulingSteps
    <3>2. live' \in 0..Len(rows) /\ Types
      BY <3>1 DEF Base, Types
    <3>3. Types'
      BY ZenonT(60), <1>1, <3>1, <3>2 DEF Types, Foreign, Only
    <3> QED BY ZenonT(60), <1>1, <3>1, <3>3, SameGrow
  <2> QED BY ZenonT(60), <2>1, <2>2, <2>3 DEF ForeignStep
<1> QED BY <1>1, <1>2, ForeignBase DEF Base

\* The gates have let row i through when the step is done.
RuledThen(i) == rows'[i].gen.disputed => i \in econ'
AuthorisedThen(i) == RuledThen(i) /\ (enforceCapabilities => i \in capa')

\* A settling call may move on to p with its row.
Fit(c, p) ==
  /\ p \in PCs /\ p # "pending" /\ Life(p, call[c].op)
  /\ p \in Effects \cup {"result"} \/ (p = "claim" /\ call[c].op = "unclaimed") =>
       spent' = call[c].id
  /\ p \in Effects => tx' = call[c].id
  /\ p = "capability" => RuledThen(call[c].id)
  /\ \/ call[c].op = "sign" /\ p \in InTry \cup {"claim", "revert"}
     \/ call[c].op = "unclaimed" /\ p = "broadcast"
     => AuthorisedThen(call[c].id)

\* The call moves to p and keeps all else.
Went(c, p) ==
  /\ call'[c].pc = p /\ call'[c].op = call[c].op /\ call'[c].kind = call[c].kind
  /\ call'[c].from = call[c].from /\ call'[c].id = call[c].id /\ call'[c].row = call[c].row

LEMMA SettleGoto ==
  ASSUME Base, Types', Grow, NEW c \in Calls, NEW p, Goto(c, p), Fit(c, p),
         call[c].pc # "pending", call[c].id \in 1..Len(rows)
  PROVE  Only(c) /\ CallOK(c)' /\ Went(c, p)
<1> DEFINE i == call[c].id
<1>1. Only(c) /\ Went(c, p) /\ call'[c].round = call[c].round
  BY ZenonT(60), GotoEffect DEF Base, Went, Fit
<1>2. LifeOK(c) /\ RowOK(c)
  BY ZenonT(60) DEF Base, CallOK
<1>3. LifeOK(c)'
  BY ZenonT(60), <1>1, <1>2 DEF LifeOK, Went, Fit
<1>4. i \in 1..Len(rows') /\ rows'[i].kind = rows[i].kind
  <2>1. rows \in Seq(RowRec) /\ rows' \in Seq(RowRec) /\ Len(rows) <= Len(rows')
    BY ZenonT(60) DEF Grow, Base, Types
  <2>2. i \in 1..Len(rows')
    BY <2>1
  <2> QED BY ZenonT(60), <2>2 DEF Grow
<1>5. RowOK(c)'
  BY ZenonT(60), <1>1, <1>2, <1>4 DEF RowOK, Went, Fit
<1>6. GateOK(c)'
  BY ZenonT(60), <1>1 DEF GateOK, Went, Fit, Ruled, Authorised, RuledThen, AuthorisedThen
<1> QED BY ZenonT(60), <1>1, <1>3, <1>5, <1>6 DEF CallOK

\* Of the settling calls only a request that holds its claim hands something back.
LEMMA SettleThrow ==
  ASSUME NEW c \in Calls, call[c].op \in SettleOps, Throw(c)
  PROVE  Leave(c) \/ (call[c].op = "sign" /\ call[c].pc \in InTry /\ Goto(c, "revert"))
BY DEF Throw, SettleOps, RowOps

LEMMA LeaveOK ==
  ASSUME Base, Types', NEW c \in Calls, Leave(c)
  PROVE  Only(c) /\ CallOK(c)' /\ call'[c] = Idle
BY LeaveEffect, IdleOK DEF Base

\* The pending row is read: the call works on the row that is live.
Reads(c, p) ==
  /\ live \in 1..Len(rows) /\ call'[c].pc = p /\ call'[c].op = call[c].op
  /\ call'[c].id = live /\ call'[c].row = live /\ call'[c].kind = rows[live].kind
  /\ call'[c].from = call[c].from

LEMMA ReadEffect ==
  ASSUME Base, NEW c \in Calls, NEW p \in {"upsert", "ask"}, live # 0,
         call' = [call EXCEPT ![c].pc = p, ![c].id = live, ![c].row = live,
                              ![c].kind = rows[live].kind]
  PROVE  Only(c) /\ Reads(c, p)
<1> DEFINE r == [call[c] EXCEPT !.pc = p, !.id = live, !.row = live, !.kind = rows[live].kind]
<1>1. live \in 1..Len(rows) /\ live \in Nat /\ rows[live] \in RowRec /\ call[c] \in CallRec
  BY DEF Base, Types
<1>2. rows[live].kind \in AllKinds
  BY <1>1 DEF RowRec
<1>3. call' = [call EXCEPT ![c] = r]
  BY ZenonT(60), <1>1 DEF Base, Types, CallRec
<1>4. /\ r \in CallRec /\ r.pc = p /\ r.op = call[c].op /\ r.id = live /\ r.row = live
      /\ r.kind = rows[live].kind /\ r.from = call[c].from
  BY ZenonT(60), <1>1, <1>2 DEF CallRec, PCs
<1> HIDE DEF r
<1>5. Only(c) /\ call'[c] = r
  BY ZenonT(60), <1>3, <1>4, BeginEffect DEF Base
<1> QED BY <1>1, <1>4, <1>5 DEF Reads

LEMMA ReadSteps ==
  ASSUME Base, NEW c \in Calls, ReadPending(c) \/ ReadTerminalPending(c)
  PROVE  /\ Base' /\ Only(c)
         /\ UNCHANGED <<status, tx, rows, live, spent, econ, capa, obligation, events, acked>>
         /\ call[c].pc = "pending" /\ call[c].op \in {"sign", "terminal"}
         /\ \/ call'[c] = Idle
            \/ call[c].op = "sign" /\ Reads(c, "upsert")
            \/ call[c].op = "terminal" /\ Reads(c, "ask") /\ Target(rows[live].kind) = call[c].from
<1> USE DEF Base
<1>1. /\ UNCHANGED <<status, tx, rows, live, spent, econ, capa, obligation, events, acked, dispute,
                     record>>
      /\ call[c].pc = "pending" /\ call[c].op \in {"sign", "terminal"}
  BY DEF ReadPending, ReadTerminalPending, At, escrowVars, rowVars, rulingVars, gateVars, effectVars
<1>2. \/ Leave(c)
      \/ /\ call[c].op = "sign" /\ live # 0
         /\ call' = [call EXCEPT ![c].pc = "upsert", ![c].id = live, ![c].row = live,
                                 ![c].kind = rows[live].kind]
      \/ /\ call[c].op = "terminal" /\ live # 0 /\ Target(rows[live].kind) = call[c].from
         /\ call' = [call EXCEPT ![c].pc = "ask", ![c].id = live, ![c].row = live,
                                 ![c].kind = rows[live].kind]
  BY ZenonT(60) DEF ReadPending, ReadTerminalPending
<1>3. /\ Only(c)
      /\ \/ call'[c] = Idle
         \/ call[c].op = "sign" /\ Reads(c, "upsert")
         \/ call[c].op = "terminal" /\ Reads(c, "ask") /\ Target(rows[live].kind) = call[c].from
  BY ZenonT(60), <1>2, LeaveEffect, ReadEffect
<1>4. LifeOK(c)'
  <2>1. LifeOK(c)
    BY DEF CallOK
  <2>2. CASE call'[c] = Idle
    <3>1. Types'
      BY <1>1, <1>3 DEF Only, Types
    <3> QED BY <2>2, <3>1, IdleOK DEF CallOK
  <2>3. CASE \/ call[c].op = "sign" /\ Reads(c, "upsert")
             \/ call[c].op = "terminal" /\ Reads(c, "ask")
    BY ZenonT(60), <2>1, <2>3 DEF Reads, LifeOK, Life, RequestOps, JobOps, Dispatching, Effects
  <2> QED BY ZenonT(60), <1>3, <2>2, <2>3
<1>5. CallOK(c)'
  <2>1. CASE call'[c] = Idle
    BY <1>1, <1>3, <2>1, IdleOK DEF Only, Types
  <2>2. CASE \E p \in {"upsert", "ask"} : Reads(c, p)
    BY ZenonT(60), <1>1, <1>4, <2>2 DEF Reads, CallOK, RowOK, GateOK, RowOps, Effects, InTry
  <2> QED BY ZenonT(60), <1>3, <2>1, <2>2
<1> QED BY <1>1, <1>3, <1>5, Plain DEF Types

\* A row call away from "pending" has a row.
LEMMA RowOfCall ==
  ASSUME Base, NEW c \in Calls, call[c].op \in RowOps, call[c].pc # "pending"
  PROVE  /\ call[c].id \in 1..Len(rows) /\ call[c].row = call[c].id
         /\ call[c].kind = rows[call[c].id].kind /\ call[c].kind \in AllKinds
         /\ rows[call[c].id] \in RowRec
<1>1. /\ call[c].id \in 1..Len(rows) /\ call[c].row = call[c].id
      /\ call[c].kind = rows[call[c].id].kind
  BY ZenonT(60) DEF Base, CallOK, RowOK
<1>2. call[c].kind \in AllKinds /\ rows[call[c].id] \in RowRec
  <2>1. call[c] \in CallRec /\ rows \in Seq(RowRec)
    BY ZenonT(60) DEF Base, Types
  <2>2. call[c].kind \in AllKinds
    BY <2>1 DEF CallRec
  <2>3. rows[call[c].id] \in RowRec
    BY <1>1, <2>1
  <2> QED BY <2>2, <2>3
<1> QED BY <1>1, <1>2

LEMMA SignRow ==
  ASSUME rows \in Seq(RowRec), live \in 1..Len(rows), NEW p \in Names,
         rows' = [rows EXCEPT ![live].signed = @ \cup {p}]
  PROVE  /\ rows' \in Seq(RowRec) /\ Len(rows') = Len(rows)
         /\ \A i \in 1..Len(rows) : rows'[i].kind = rows[i].kind /\ rows'[i].gen = rows[i].gen
<1> DEFINE r == [rows[live] EXCEPT !.signed = @ \cup {p}]
<1>1. rows[live] \in RowRec
  OBVIOUS
<1>2. r \in RowRec /\ r.kind = rows[live].kind /\ r.gen = rows[live].gen
  BY <1>1 DEF RowRec
<1>3. rows' = [rows EXCEPT ![live] = r]
  OBVIOUS
<1> HIDE DEF r
<1>4. /\ rows' \in Seq(RowRec) /\ Len(rows') = Len(rows)
      /\ \A i \in 1..Len(rows) : rows'[i] = IF i = live THEN r ELSE rows[i]
  <2>1. rows \in Seq(RowRec) /\ live \in 1..Len(rows) /\ r \in RowRec
    BY <1>2
  <2> DEFINE w == [rows EXCEPT ![live] = r]
  <2>2. /\ w \in Seq(RowRec) /\ Len(w) = Len(rows)
        /\ \A i \in 1..Len(rows) : w[i] = IF i = live THEN r ELSE rows[i]
    BY <2>1
  <2>3. rows' = w
    BY ZenonT(60), <1>3
  <2> HIDE DEF w
  <2> QED BY ZenonT(60), <2>2, <2>3
<1> QED BY <1>2, <1>4

LEMMA SignSteps ==
  ASSUME Base, NEW c \in Calls, UpsertSignature(c) \/ ReadSignatures(c)
  PROVE  /\ Base' /\ Only(c)
         /\ UNCHANGED <<status, tx, live, spent, econ, capa, obligation, events, acked>>
         /\ Len(rows') = Len(rows)
         /\ \A i \in 1..Len(rows) : rows'[i].kind = rows[i].kind /\ rows'[i].gen = rows[i].gen
         /\ call[c].op = "sign" /\ call[c].pc \in {"upsert", "signatures"}
         /\ call'[c] = Idle \/ \E p \in {"signatures", "economic"} : Went(c, p)
<1> USE DEF Base
<1>1. /\ UNCHANGED <<status, tx, live, spent, econ, capa, obligation, events, acked, dispute, record>>
      /\ call[c].pc \in {"upsert", "signatures"}
  BY DEF UpsertSignature, ReadSignatures, At, escrowVars, rowVars, rulingVars, gateVars, effectVars
<1>2. call[c].op = "sign" /\ call[c].op \in RowOps /\ call[c].op \in SettleOps
  BY ZenonT(60), <1>1 DEF CallOK, LifeOK, Life, RowOps, SettleOps
<1>3. \/ UNCHANGED rows
      \/ live \in 1..Len(rows) /\ rows' = [rows EXCEPT ![live].signed = @ \cup {call[c].by}]
  <2>1. call[c].id \in 1..Len(rows)
    BY ZenonT(60), <1>1, <1>2, RowOfCall
  <2> QED BY ZenonT(60), <2>1 DEF UpsertSignature, ReadSignatures, rowVars
<1>4. /\ rows' \in Seq(RowRec) /\ Len(rows') = Len(rows)
      /\ \A i \in 1..Len(rows) : rows'[i].kind = rows[i].kind /\ rows'[i].gen = rows[i].gen
  <2>1. CASE UNCHANGED rows
    BY <2>1 DEF Types
  <2>2. CASE live \in 1..Len(rows) /\ rows' = [rows EXCEPT ![live].signed = @ \cup {call[c].by}]
    <3>1. rows \in Seq(RowRec) /\ call[c].by \in Names
      BY DEF Types, CallRec
    <3> QED BY ZenonT(60), <2>2, <3>1, SignRow
  <2> QED BY <1>3, <2>1, <2>2
<1>5. Leave(c) \/ \E p \in {"signatures", "economic"} : Goto(c, p)
  BY DEF UpsertSignature, ReadSignatures
<1>6. Types' /\ Grow
  <2>1. call' \in [Calls -> CallRec]
    BY ZenonT(60), <1>5, LeaveEffect, GotoEffect DEF Only, PCs
  <2>2. live \in 0..Len(rows') /\ spent \in 0..Len(rows')
    BY <1>4 DEF Types
  <2>3. Types'
    BY ZenonT(60), <1>1, <1>4, <2>1, <2>2 DEF Types
  <2>4. Len(rows) <= Len(rows')
    <3>1. Len(rows) \in Nat
      BY DEF Types
    <3> QED BY <1>4, <3>1
  <2> QED BY ZenonT(60), <1>1, <1>4, <2>3, <2>4 DEF Grow
<1>7. CASE Leave(c)
  BY ZenonT(60), <1>1, <1>2, <1>4, <1>6, <1>7, LeaveOK, BaseBy
<1>8. ASSUME NEW p \in {"signatures", "economic"}, Goto(c, p)
      PROVE  Base' /\ Only(c) /\ Went(c, p)
  <2>1. call[c].id \in 1..Len(rows) /\ Fit(c, p)
    BY ZenonT(60), <1>1, <1>2, RowOfCall DEF Fit, PCs, Life, Dispatching, Effects, InTry
  <2>2. Only(c) /\ CallOK(c)' /\ Went(c, p)
    BY <1>1, <1>6, <1>8, <2>1, SettleGoto
  <2> QED BY <1>1, <1>6, <2>2, BaseBy
<1> QED BY ZenonT(60), <1>1, <1>2, <1>4, <1>5, <1>7, <1>8, LeaveOK, <1>6

\* The steps of a settling call that leave the escrow and its rows alone.
LEMMA KeepRows ==
  ASSUME Base, NEW c \in Calls, Only(c), UNCHANGED <<status, rows, live, dispute, record>>,
         tx' \in Nat, spent' \in 0..Len(rows), spent # 0 => spent' = spent, tx # 0 => tx' = tx,
         econ \subseteq econ', capa \subseteq capa'
  PROVE  Types' /\ Grow
BY DEF Base, Types, Only, Grow

LEMMA OnlyMoves ==
  ASSUME Types, NEW c \in Calls, Leave(c) \/ \E p \in PCs : Goto(c, p)
  PROVE  Only(c)
BY ZenonT(60), LeaveEffect, GotoEffect

LEMMA GateSteps ==
  ASSUME Base, NEW c \in Calls, AuthorizeDisputed(c) \/ AuthorizeCapability(c)
  PROVE  /\ Base' /\ Only(c)
         /\ UNCHANGED <<status, tx, rows, live, spent, obligation, events, acked>>
         /\ econ \subseteq econ' /\ capa \subseteq capa'
         /\ call[c].op \in {"sign", "unclaimed"} /\ call[c].pc \in {"economic", "capability"}
         /\ \/ call'[c] = Idle
            \/ Went(c, "capability")
            \/ Went(c, AfterGates(c))
<1>1. /\ UNCHANGED <<status, tx, rows, live, spent, obligation, events, acked, dispute, record>>
      /\ econ \subseteq econ' /\ capa \subseteq capa'
      /\ call[c].pc \in {"economic", "capability"}
  BY ZenonT(60) DEF AuthorizeDisputed, AuthorizeCapability, At, escrowVars, rowVars, rulingVars, gateVars, effectVars
<1>2. /\ call[c].op \in {"sign", "unclaimed"} /\ call[c].op \in RowOps /\ call[c].op \in SettleOps
      /\ call[c].pc \notin InTry
  BY <1>1 DEF Base, CallOK, LifeOK, Life, RowOps, SettleOps, InTry
<1>3. call[c].id \in 1..Len(rows) /\ call[c].pc # "pending" /\ Types
  BY <1>1, <1>2, RowOfCall DEF Base
<1>4. Throw(c) => Leave(c)
  BY ZenonT(60), <1>2, SettleThrow
<1> DEFINE i == call[c].id
<1>5. \/ Leave(c)
      \/ Goto(c, "capability") /\ (rows[i].gen.disputed => i \in econ')
      \/ /\ call[c].pc = "capability" /\ Goto(c, AfterGates(c)) /\ UNCHANGED econ
         /\ (enforceCapabilities => i \in capa')
  <2>1. CASE AuthorizeDisputed(c)
    BY ZenonT(60), <1>4, <2>1 DEF AuthorizeDisputed
  <2>2. CASE AuthorizeCapability(c)
    <3>1. \/ ~enforceCapabilities /\ Goto(c, AfterGates(c))
          \/ capa' = capa \cup {i} /\ Goto(c, AfterGates(c))
          \/ Throw(c)
      BY <2>2, CollectionAssumption DEF AuthorizeCapability
    <3>2. call[c].pc = "capability" /\ UNCHANGED econ
      BY <2>2 DEF AuthorizeCapability, At
    <3> QED BY <1>4, <3>1, <3>2
  <2> QED BY <2>1, <2>2
<1>6. AfterGates(c) \in {"claim", "broadcast"} /\ AfterGates(c) \in PCs /\ "capability" \in PCs
  BY ZenonT(60) DEF AfterGates, PCs, InTry
<1>7. Only(c)
  BY <1>3, <1>5, <1>6, OnlyMoves
<1>8. Types' /\ Grow
  <2>1. tx' \in Nat /\ spent' \in 0..Len(rows)
    BY ZenonT(60), <1>1, <1>3 DEF Types
  <2> QED BY <1>1, <1>7, <2>1, KeepRows
<1>9. CASE Leave(c)
  BY ZenonT(60), <1>1, <1>2, <1>8, <1>9, LeaveOK, BaseBy DEF Base
<1>10. CASE Goto(c, "capability") /\ (rows[i].gen.disputed => i \in econ')
  <2>1. Fit(c, "capability")
    BY ZenonT(60), <1>1, <1>2, <1>6, <1>10 DEF Fit, RuledThen, Life, Effects, Dispatching, InTry
  <2>3. CallOK(c)' /\ Went(c, "capability")
    BY <1>3, <1>8, <1>10, <2>1, SettleGoto
  <2> QED BY ZenonT(60), <1>1, <1>2, <1>7, <1>8, <2>3, BaseBy DEF Base
<1>11. CASE /\ call[c].pc = "capability" /\ Goto(c, AfterGates(c)) /\ UNCHANGED econ
            /\ (enforceCapabilities => i \in capa')
  <2> DEFINE p == AfterGates(c)
  <2>1. Ruled(i)
    BY ZenonT(60), <1>11 DEF Base, CallOK, GateOK
  <2>2. AuthorisedThen(i)
    BY ZenonT(60), <1>1, <1>11, <2>1 DEF Ruled, RuledThen, AuthorisedThen
  <2>3. Fit(c, p)
    BY ZenonT(60), <1>2, <1>6, <2>2 DEF Fit, Life, Effects, Dispatching, AfterGates, RowOps
  <2> HIDE DEF p
  <2>4. CallOK(c)' /\ Went(c, p)
    BY ZenonT(60), <1>3, <1>8, <1>11, <2>3, SettleGoto DEF p
  <2> QED BY ZenonT(60), <1>1, <1>2, <1>7, <1>8, <2>4, BaseBy DEF Base, p
<1> QED BY ZenonT(60), <1>5, <1>9, <1>10, <1>11

LEMMA AskStep ==
  ASSUME Base, NEW c \in Calls, AskChain(c)
  PROVE  /\ Base' /\ Only(c)
         /\ UNCHANGED <<status, tx, rows, live, spent, econ, capa, obligation, events, acked>>
         /\ call[c].op \in {"unclaimed", "terminal"} /\ call[c].pc = "ask"
         /\ \/ call'[c] = Idle
            \/ call[c].op = "unclaimed" /\ \E p \in {"claim", "economic"} : Went(c, p)
            \/ call[c].op = "terminal" /\ \E p \in {"result", "broadcast"} : Went(c, p)
<1>1. /\ UNCHANGED <<status, tx, rows, live, spent, econ, capa, obligation, events, acked, dispute, record>>
      /\ call[c].pc = "ask"
  BY ZenonT(60) DEF AskChain, At, escrowVars, rowVars, rulingVars, gateVars, effectVars
<1>2. call[c].op \in {"unclaimed", "terminal"} /\ call[c].op \in RowOps /\ call[c].op \in SettleOps
  BY ZenonT(60), <1>1 DEF Base, CallOK, LifeOK, Life, RowOps, SettleOps
<1>3. call[c].id \in 1..Len(rows) /\ call[c].pc # "pending" /\ Types
  BY <1>1, <1>2, RowOfCall DEF Base
<1> DEFINE i == call[c].id
<1>4. \/ Leave(c)
      \/ \E p \in {"claim", "economic", "result", "broadcast"} :
            /\ Goto(c, p)
            /\ p \in {"claim", "result"} => spent = i
            /\ p \in {"claim", "economic"} <=> call[c].op = "unclaimed"
  BY <1>2 DEF AskChain, AfterBroadcast
<1>5. {"claim", "economic", "result", "broadcast"} \subseteq PCs
  BY ZenonT(60) DEF PCs, InTry
<1>6. Only(c)
  BY ZenonT(60), <1>3, <1>4, <1>5, OnlyMoves
<1>7. Types' /\ Grow
  <2>1. tx' \in Nat /\ spent' \in 0..Len(rows)
    BY <1>1, <1>3 DEF Types
  <2> QED BY <1>1, <1>6, <2>1, KeepRows
<1>8. CASE Leave(c)
  BY ZenonT(60), <1>1, <1>2, <1>7, <1>8, LeaveOK, BaseBy DEF Base
<1>9. ASSUME NEW p \in {"claim", "economic", "result", "broadcast"}, Goto(c, p),
             p \in {"claim", "result"} => spent = i,
             p \in {"claim", "economic"} <=> call[c].op = "unclaimed"
      PROVE  Base' /\ Went(c, p)
  <2>1. Fit(c, p)
    BY ZenonT(60), <1>1, <1>2, <1>5, <1>9 DEF Fit, Life, Effects, Dispatching, RowOps
  <2>2. CallOK(c)' /\ Went(c, p)
    BY <1>3, <1>7, <1>9, <2>1, SettleGoto
  <2> QED BY ZenonT(60), <1>1, <1>6, <1>7, <2>2, BaseBy DEF Base
<1> QED BY <1>1, <1>2, <1>4, <1>6, <1>8, <1>9, LeaveEffect, <1>3

LEMMA ClaimStep ==
  ASSUME Base, NEW c \in Calls, ClaimTerminal(c)
  PROVE  /\ Base' /\ Only(c)
         /\ UNCHANGED <<tx, rows, live, spent, econ, capa, obligation, events, acked>>
         /\ call[c].op \in {"sign", "unclaimed"} /\ call[c].pc = "claim"
         /\ \/ call'[c] = Idle /\ UNCHANGED status
            \/ /\ status' = Target(call[c].kind) /\ status \notin TerminalStatuses
               /\ Went(c, IF call[c].op = "sign" THEN "broadcast" ELSE "result")
<1>1. /\ UNCHANGED <<tx, rows, live, spent, econ, capa, obligation, events, acked, dispute, record>>
      /\ call[c].pc = "claim"
  BY ZenonT(60) DEF ClaimTerminal, At, rowVars, rulingVars, gateVars, effectVars
<1>2. /\ call[c].op \in {"sign", "unclaimed"} /\ call[c].op \in RowOps /\ call[c].op \in SettleOps
      /\ call[c].pc \notin InTry
  BY ZenonT(60), <1>1 DEF Base, CallOK, LifeOK, Life, RowOps, SettleOps, InTry
<1> DEFINE i == call[c].id
           p == IF call[c].op = "sign" THEN "broadcast" ELSE "result"
<1>3. i \in 1..Len(rows) /\ call[c].pc # "pending" /\ Types /\ call[c].kind \in AllKinds
  BY ZenonT(60), <1>1, <1>2, RowOfCall DEF Base
<1>4. Throw(c) => Leave(c)
  BY <1>2, SettleThrow
<1>5. \/ Leave(c) /\ UNCHANGED status
      \/ /\ status' = Target(call[c].kind) /\ status \notin TerminalStatuses /\ Goto(c, p)
  BY ZenonT(60), <1>4, TerminalEnds DEF ClaimTerminal
<1>6. p \in PCs /\ Life(p, call[c].op)
  BY ZenonT(60), <1>2 DEF PCs, InTry, Life, Dispatching, Effects, RowOps
<1>7. Only(c)
  BY <1>3, <1>5, <1>6, OnlyMoves
<1>8. Types' /\ Grow
  <2>1. status' \in Statuses
    BY <1>3, <1>5, TargetTerminal DEF Types
  <2> QED BY <1>1, <1>3, <1>7, <2>1 DEF Types, Only, Grow
<1>9. CASE Leave(c) /\ UNCHANGED status
  BY ZenonT(60), <1>1, <1>2, <1>8, <1>9, LeaveOK, BaseBy DEF Base
<1>10. CASE status' = Target(call[c].kind) /\ status \notin TerminalStatuses /\ Goto(c, p)
  <2>1. call[c].op = "unclaimed" => spent' = i
    BY ZenonT(60), <1>1 DEF Base, CallOK, RowOK
  <2>2. call[c].op = "sign" => Authorised(i)
    BY ZenonT(60), <1>1 DEF Base, CallOK, GateOK
  <2>3. call[c].op = "sign" => AuthorisedThen(i)
    BY ZenonT(60), <1>1, <2>2 DEF Authorised, Ruled, RuledThen, AuthorisedThen
  <2>4. Fit(c, p)
    BY ZenonT(60), <1>2, <1>6, <2>1, <2>3 DEF Fit, Effects
  <2> HIDE DEF p
  <2>5. CallOK(c)' /\ Went(c, p)
    BY <1>3, <1>8, <1>10, <2>4, SettleGoto
  <2> QED BY ZenonT(60), <1>1, <1>2, <1>7, <1>8, <1>10, <2>5, BaseBy DEF Base, p
<1> QED BY ZenonT(60), <1>5, <1>9, <1>10

LEMMA BroadcastStep ==
  ASSUME Base, NEW c \in Calls, Broadcast(c)
  PROVE  /\ Base' /\ Only(c)
         /\ UNCHANGED <<status, tx, rows, live, econ, capa, obligation, events, acked>>
         /\ call[c].op \in RowOps /\ call[c].pc = "broadcast"
         /\ spent' = spent \/ (spent = 0 /\ spent' = call[c].id)
         /\ \/ call'[c] = Idle
            \/ call[c].op = "sign" /\ Went(c, "revert")
            \/ Went(c, AfterBroadcast(c))
<1>1. /\ UNCHANGED <<status, tx, rows, live, econ, capa, obligation, events, acked, dispute, record>>
      /\ call[c].pc = "broadcast"
  BY ZenonT(60) DEF Broadcast, At, escrowVars, rowVars, rulingVars, gateVars, effectVars
<1>2. call[c].op \in RowOps /\ call[c].op \in SettleOps
  BY ZenonT(60), <1>1 DEF Base, CallOK, LifeOK, Life, SettleOps
<1> DEFINE i == call[c].id
           p == AfterBroadcast(c)
<1>3. i \in 1..Len(rows) /\ call[c].pc # "pending" /\ Types
  BY ZenonT(60), <1>1, <1>2, RowOfCall DEF Base
<1>4. /\ \/ spent' = spent
         \/ spent = 0 /\ spent' = i
      /\ \/ Throw(c)
         \/ spent' = i /\ Goto(c, p)
  BY ZenonT(60) DEF Broadcast
<1>5. Leave(c) \/ (call[c].op = "sign" /\ Goto(c, "revert")) \/ (spent' = i /\ Goto(c, p))
  BY ZenonT(60), <1>2, <1>4, SettleThrow
<1>6. p \in PCs /\ Life(p, call[c].op) /\ "revert" \in PCs
  BY <1>2 DEF PCs, InTry, Life, Dispatching, Effects, RowOps, AfterBroadcast
<1>7. Only(c)
  BY ZenonT(60), <1>3, <1>5, <1>6, OnlyMoves
<1>8. Types' /\ Grow
  <2>1. tx' \in Nat /\ spent' \in 0..Len(rows) /\ (spent # 0 => spent' = spent)
    BY <1>1, <1>3, <1>4 DEF Types
  <2> QED BY <1>1, <1>7, <2>1, KeepRows
<1>9. tx' # 0 => tx' = spent'
  BY <1>1, <1>3, <1>4 DEF Base, Types
<1>10. CASE Leave(c)
  BY ZenonT(60), <1>1, <1>2, <1>4, <1>8, <1>9, <1>10, LeaveOK, BaseBy DEF Base
<1>11. CASE call[c].op = "sign" /\ Goto(c, "revert")
  <2>1. Throw(c)
    BY <1>1, <1>11 DEF Throw, InTry
  <2>2. CallOK(c)'
    BY <1>8, <2>1, ThrowOK
  <2>3. Went(c, "revert")
    BY ZenonT(60), <1>3, <1>6, <1>11, GotoEffect DEF Went
  <2> QED BY ZenonT(60), <1>1, <1>2, <1>4, <1>7, <1>8, <1>9, <1>11, <2>2, <2>3, BaseBy DEF Base
<1>12. CASE spent' = i /\ Goto(c, p)
  <2>1. call[c].op = "sign" => Authorised(i)
    BY ZenonT(60), <1>1 DEF Base, CallOK, GateOK, InTry
  <2>2. call[c].op = "sign" => AuthorisedThen(i)
    BY ZenonT(60), <1>1, <2>1 DEF Authorised, Ruled, RuledThen, AuthorisedThen
  <2>3. Fit(c, p)
    BY ZenonT(60), <1>6, <1>12, <2>2 DEF Fit, AfterBroadcast, Effects
  <2> HIDE DEF p
  <2>4. CallOK(c)' /\ Went(c, p)
    BY ZenonT(60), <1>3, <1>8, <1>12, <2>3, SettleGoto
  <2> QED BY ZenonT(60), <1>1, <1>2, <1>4, <1>7, <1>8, <1>9, <2>4, BaseBy DEF Base, p
<1> QED BY ZenonT(60), <1>5, <1>10, <1>11, <1>12

LEMMA ResultStep ==
  ASSUME Base, NEW c \in Calls, RecordResult(c)
  PROVE  /\ Base' /\ Only(c)
         /\ UNCHANGED <<status, rows, live, spent, econ, capa, obligation, events, acked>>
         /\ tx # 0 => tx' = tx
         /\ call[c].op \in RowOps /\ call[c].pc = "result" /\ Went(c, "obligation")
<1>1. /\ UNCHANGED <<status, rows, live, spent, econ, capa, obligation, events, acked, dispute, record>>
      /\ call[c].pc = "result" /\ Goto(c, "obligation")
      /\ tx' \in {tx, call[c].id} /\ (tx = 0 => tx' = call[c].id)
  BY ZenonT(60) DEF RecordResult, At, rowVars, rulingVars, gateVars, effectVars
<1>2. call[c].op \in RowOps /\ call[c].op \in SettleOps
  BY ZenonT(60), <1>1 DEF Base, CallOK, LifeOK, Life, SettleOps
<1> DEFINE i == call[c].id
<1>3. i \in 1..Len(rows) /\ call[c].pc # "pending" /\ Types /\ spent = i
  BY ZenonT(60), <1>1, <1>2, RowOfCall DEF Base, CallOK, RowOK
<1>4. tx' = i /\ (tx # 0 => tx' = tx)
  BY ZenonT(60), <1>1, <1>3 DEF Base
<1>5. "obligation" \in PCs /\ Life("obligation", call[c].op)
  BY <1>2 DEF PCs, InTry, Life, Dispatching, Effects, SettleOps, RowOps
<1>6. Only(c)
  BY ZenonT(60), <1>1, <1>3, <1>5, OnlyMoves
<1>7. Types' /\ Grow
  <2>1. tx' \in Nat /\ spent' \in 0..Len(rows)
    BY <1>1, <1>3, <1>4 DEF Types
  <2> QED BY ZenonT(60), <1>1, <1>4, <1>6, <2>1, KeepRows
<1>8. call[c].op = "sign" => Authorised(i)
  BY ZenonT(60), <1>1 DEF Base, CallOK, GateOK, InTry
<1>9. call[c].op = "sign" => AuthorisedThen(i)
  BY ZenonT(60), <1>1, <1>8 DEF Authorised, Ruled, RuledThen, AuthorisedThen
<1>10. spent' = i
  BY ZenonT(60), <1>1, <1>3
<1>11. Fit(c, "obligation")
  BY ZenonT(60), <1>4, <1>5, <1>9, <1>10 DEF Fit
<1>12. CallOK(c)' /\ Went(c, "obligation")
  BY <1>1, <1>3, <1>7, <1>11, SettleGoto
<1> QED BY ZenonT(60), <1>1, <1>2, <1>4, <1>6, <1>7, <1>10, <1>12, BaseBy DEF Base

LEMMA EffectSteps ==
  ASSUME Base, NEW c \in Calls, RecordObligation(c) \/ EmitTransition(c)
  PROVE  /\ Base' /\ Only(c)
         /\ UNCHANGED <<status, tx, rows, live, spent, econ, capa, acked>>
         /\ call[c].op \in SettleOps
         /\ \/ /\ call[c].pc = "obligation" /\ Went(c, "emit") /\ UNCHANGED events
               /\ obligation' \in {obligation, call[c].kind}
            \/ /\ call[c].pc = "emit" /\ Went(c, "delete") /\ UNCHANGED obligation
               /\ \/ UNCHANGED events
                  \/ events' = events \cup {[status |-> Target(call[c].kind), tx |-> call[c].id]}
<1>1. /\ UNCHANGED <<status, tx, rows, live, spent, econ, capa, acked, dispute, record>>
      /\ \/ /\ call[c].pc = "obligation" /\ Goto(c, "emit") /\ UNCHANGED events
            /\ obligation' \in {obligation, call[c].kind}
         \/ /\ call[c].pc = "emit" /\ Goto(c, "delete") /\ UNCHANGED obligation
            /\ \/ UNCHANGED events
               \/ events' = events \cup {[status |-> Target(call[c].kind), tx |-> call[c].id]}
  BY ZenonT(60) DEF RecordObligation, EmitTransition, At, escrowVars, rowVars, rulingVars, gateVars
<1> DEFINE i == call[c].id
<1>2. call[c].op \in SettleOps /\ call[c].pc \in Effects
  BY ZenonT(60), <1>1 DEF Base, CallOK, LifeOK, Life, Effects
<1>3. i \in 1..Len(rows) /\ call[c].pc # "pending" /\ Types /\ spent = i /\ tx = i
  BY ZenonT(60), <1>1, <1>2 DEF Base, CallOK, RowOK
<1>4. ASSUME NEW p \in {"emit", "delete"}, Goto(c, p), p = "emit" => call[c].pc = "obligation"
      PROVE  Base' /\ Only(c) /\ Went(c, p)
  <2>1. p \in PCs /\ Life(p, call[c].op)
    BY ZenonT(60), <1>2 DEF PCs, InTry, Life, Dispatching, Effects, SettleOps, RowOps
  <2>2. Only(c)
    BY <1>3, <1>4, <2>1, OnlyMoves
  <2>3. Types' /\ Grow
    <3>1. tx' \in Nat /\ spent' \in 0..Len(rows)
      BY <1>1, <1>3 DEF Types
    <3> QED BY ZenonT(60), <1>1, <2>2, <3>1, KeepRows
  <2>4. call[c].op = "sign" /\ p \in InTry \cup {"claim", "revert"} => Authorised(i)
    BY ZenonT(60), <1>4 DEF Base, CallOK, GateOK, InTry
  <2>5. call[c].op = "sign" /\ p \in InTry \cup {"claim", "revert"} => AuthorisedThen(i)
    BY ZenonT(60), <1>1, <2>4 DEF Authorised, Ruled, RuledThen, AuthorisedThen
  <2>6. spent' = i /\ tx' = i
    BY ZenonT(60), <1>1, <1>3
  <2>7. Fit(c, p)
    BY ZenonT(60), <2>1, <2>5, <2>6 DEF Fit
  <2>8. CallOK(c)' /\ Went(c, p)
    BY <1>3, <1>4, <2>3, <2>7, SettleGoto, ZenonT(60)
  <2> QED BY ZenonT(60), <1>1, <2>2, <2>3, <2>6, <2>8, BaseBy DEF Base
<1>5. "emit" # "delete"
  OBVIOUS
<1> QED BY ZenonT(60), <1>1, <1>2, <1>4, <1>5

LEMMA DeleteStep ==
  ASSUME Base, NEW c \in Calls, DeletePending(c)
  PROVE  /\ Base' /\ Only(c) /\ call'[c] = Idle
         /\ UNCHANGED <<status, tx, rows, spent, econ, capa, obligation, events>>
         /\ live' \in {0, live} /\ acked \subseteq acked'
         /\ acked' = IF call[c].op = "sign" THEN acked \cup {call[c].id} ELSE acked
         /\ call[c].op \in SettleOps /\ call[c].pc = "delete"
<1>1. /\ UNCHANGED <<status, tx, rows, spent, econ, capa, obligation, events, dispute, record>>
      /\ live' \in {0, live} /\ acked \subseteq acked' /\ call[c].pc = "delete" /\ Leave(c)
      /\ acked' = IF call[c].op = "sign" THEN acked \cup {call[c].id} ELSE acked
  BY ZenonT(60) DEF DeletePending, At, escrowVars, rulingVars, gateVars
<1>2. call[c].op \in SettleOps /\ Types
  BY ZenonT(60), <1>1 DEF Base, CallOK, LifeOK, Life, Effects
<1>3. Only(c) /\ call'[c] = Idle
  BY ZenonT(60), <1>1, <1>2, LeaveEffect
<1>4. live' \in 0..Len(rows) /\ Types'
  <2>1. rows \in Seq(RowRec) /\ live \in 0..Len(rows)
    BY <1>2, ZenonT(60) DEF Types
  <2>2. Len(rows) \in Nat
    BY <2>1
  <2>3. 0 \in 0..Len(rows)
    BY <2>2
  <2>4. live' \in 0..Len(rows)
    BY <1>1, <2>1, <2>3, ZenonT(60)
  <2> QED BY ZenonT(60), <1>1, <1>2, <1>3, <2>4 DEF Types, Only
<1>5. CallOK(c)'
  BY ZenonT(60), <1>3, <1>4, IdleOK
<1> QED BY ZenonT(60), <1>1, <1>2, <1>3, <1>4, <1>5, Plain DEF Types

LEMMA RevertStep ==
  ASSUME Base, NEW c \in Calls, RevertClaim(c)
  PROVE  /\ Base' /\ Only(c) /\ call'[c] = Idle
         /\ UNCHANGED <<tx, rows, live, spent, econ, capa, obligation, events, acked>>
         /\ call[c].op = "sign" /\ call[c].pc = "revert"
<1>1. /\ UNCHANGED <<tx, rows, live, spent, econ, capa, obligation, events, acked, dispute, record>>
      /\ call[c].pc = "revert" /\ Leave(c) /\ status' \in {status, call[c].from}
  BY ZenonT(60) DEF RevertClaim, At, rowVars, rulingVars, gateVars, effectVars
<1>2. call[c].op = "sign" /\ Types
  BY ZenonT(60), <1>1 DEF Base, CallOK, LifeOK, Life
<1>3. Only(c) /\ call'[c] = Idle
  BY ZenonT(60), <1>1, <1>2, LeaveEffect
<1>4. status' \in Statuses /\ Types'
  BY <1>1, <1>2, <1>3 DEF Types, Only, CallRec
<1>5. CallOK(c)'
  BY <1>3, <1>4, IdleOK
<1> QED BY <1>1, <1>2, <1>3, <1>4, <1>5, Plain DEF Types

LEMMA FaultStep ==
  ASSUME Base, NEW c \in Calls, Fault(c)
  PROVE  /\ Base' /\ Only(c) /\ call[c].op # "none"
         /\ UNCHANGED <<status, tx, rows, live, spent, econ, capa, obligation, events, acked, dispute>>
         /\ \/ call'[c] = Idle
            \/ call[c].op = "sign" /\ call[c].pc \in InTry /\ Went(c, "revert")
            \/ call[c].op = "resolve" /\ Went(c, "unrule")
<1>1. /\ UNCHANGED <<status, tx, rows, live, spent, econ, capa, obligation, events, acked, dispute, record>>
      /\ call[c].pc # "idle" /\ (Throw(c) \/ Leave(c))
  BY ZenonT(60) DEF Fault, At, escrowVars, rowVars, rulingVars, gateVars, effectVars
<1>2. \/ Leave(c)
      \/ call[c].op = "sign" /\ call[c].pc \in InTry /\ Goto(c, "revert")
      \/ call[c].op = "resolve" /\ Goto(c, "unrule")
  BY <1>1 DEF Throw
<1>3. Types /\ call[c].op # "none" /\ {"revert", "unrule"} \subseteq PCs
  BY ZenonT(60), <1>1 DEF Base, CallOK, LifeOK, Life, PCs
<1>4. /\ Only(c)
      /\ \/ call'[c] = Idle
         \/ call[c].op = "sign" /\ call[c].pc \in InTry /\ Went(c, "revert")
         \/ call[c].op = "resolve" /\ Went(c, "unrule")
  BY ZenonT(60), <1>2, <1>3, LeaveEffect, GotoEffect DEF Went
<1>5. Types' /\ Grow
  <2>1. tx' \in Nat /\ spent' \in 0..Len(rows)
    BY <1>1, <1>3 DEF Types
  <2> QED BY ZenonT(60), <1>1, <1>4, <2>1, KeepRows
<1>6. CallOK(c)'
  BY ZenonT(60), <1>1, <1>5, ThrowOK, LeaveOK
<1> QED BY ZenonT(60), <1>1, <1>3, <1>4, <1>5, <1>6, BaseBy DEF Base

\* The steps of a settling call.
SettleStep(c) ==
  \/ ReadPending(c) \/ ReadTerminalPending(c) \/ UpsertSignature(c) \/ ReadSignatures(c)
  \/ AuthorizeDisputed(c) \/ AuthorizeCapability(c) \/ AskChain(c) \/ ClaimTerminal(c)
  \/ Broadcast(c) \/ RecordResult(c) \/ RecordObligation(c) \/ EmitTransition(c)
  \/ DeletePending(c) \/ RevertClaim(c)

LEMMA StepSplit ==
  ASSUME NEW c \in Calls, Step(c)
  PROVE  ForeignStep(c) \/ SettleStep(c)
BY ZenonT(60) DEF Step, ForeignStep, SettleStep

LEMMA SettleKeepsBase ==
  ASSUME Base, NEW c \in Calls, SettleStep(c)
  PROVE  Base' /\ Only(c)
BY ZenonT(60), ReadSteps, SignSteps, GateSteps, AskStep, ClaimStep, BroadcastStep, ResultStep,
   EffectSteps, DeleteStep, RevertStep DEF SettleStep

LEMMA BaseStep == Base /\ [Next]_vars => Base'
<1> SUFFICES ASSUME Base, [Next]_vars PROVE Base'
  OBVIOUS
<1>1. ASSUME NEW c \in Calls, Step(c) \/ Fault(c) PROVE Base'
  BY ZenonT(60), <1>1, StepSplit, ForeignKeepsBase, SettleKeepsBase, FaultStep
<1>2. CASE UNCHANGED vars
  <2>1. Types' /\ UNCHANGED <<tx, rows, spent, dispute, econ, capa, call>>
    BY ZenonT(60), <1>2 DEF vars, escrowVars, rowVars, rulingVars, gateVars, Base, Types
  <2>2. Grow
    BY <2>1 DEF Base, Types, Grow
  <2>3. \A c \in Calls : CallOK(c)'
    BY <2>1, <2>2, CallStays
  <2> QED BY ZenonT(60), <2>1, <2>3 DEF Base
<1> QED BY ZenonT(60), <1>1, <1>2, OtherBase, RequestBase, JobBase DEF Next

\* What the start of a request leaves alone.
LEMMA RequestFrame ==
  ASSUME NEW c, Request(c)
  PROVE  /\ UNCHANGED <<tx, rows, live, spent, dispute, record, econ, capa, events, acked, obligation>>
         /\ \/ status' = status
            \/ "DISPUTED" \in VALID_TRANSITIONS[status] /\ status' = "DISPUTED"
         /\ Overlap \/ AllIdle(Jobs)
BY ZenonT(60) DEF Request, Initiate, Submit, OpenDispute, Resolve, Appeal, escrowVars, rowVars,
                  rulingVars, gateVars, effectVars

LEMMA JobFrame ==
  ASSUME NEW c, Job(c)
  PROVE  UNCHANGED <<events, acked, obligation>> /\ (Overlap \/ AllIdle(Requests))
BY ZenonT(60) DEF Job, ReadUnclaimed, ReadTerminal, ReadEffects, ResumeDispatch, ReadStale, effectVars

LEMMA SettleKeepsDispute ==
  ASSUME NEW c, SettleStep(c) \/ Fault(c)
  PROVE  UNCHANGED dispute
BY ZenonT(60) DEF SettleStep, Fault, ReadPending, ReadTerminalPending, UpsertSignature, ReadSignatures,
   AuthorizeDisputed, AuthorizeCapability, AskChain, ClaimTerminal, Broadcast, RecordResult,
   RecordObligation, EmitTransition, DeletePending, RevertClaim, rulingVars

LEMMA OtherKeeps ==
  ASSUME Other
  PROVE  /\ UNCHANGED <<tx, rows, live, spent, dispute, econ, capa, events, acked, obligation, call>>
         /\ status' = status \/ (status \in {"FUNDS_LOCKED"} /\ status' \in {"PAYMENT_PENDING", "EXPIRED"})
BY ZenonT(60) DEF Other, MarkPaymentSent, SweepExpired, FundingSweep, RevokeCapability, approveRelease,
   rowVars, rulingVars, gateVars, sideVars, effectVars, escrowVars

\* revertRuling writes back only over the ruling it committed, so a failed ruling that
\* hands its decision back late leaves an appeal that committed in between standing.
THEOREM AppealHolds == Spec => AppealStands
<1>1. ASSUME Base, Next
      PROVE  dispute.status = "APPEALED" => dispute'.status \in {"APPEALED", "RESOLVED"}
  <2>1. ASSUME NEW c \in Calls, ForeignStep(c)
        PROVE  dispute.status = "APPEALED" => dispute'.status \in {"APPEALED", "RESOLVED"}
    <3>1. \/ UNCHANGED dispute
          \/ dispute.status = "APPEALED" => dispute'.status \in {"APPEALED", "RESOLVED"}
      BY ZenonT(60), <1>1, <2>1, InitiateSteps, CreateStep, RulingSteps DEF ForeignStep
    <3> QED BY ZenonT(60), <3>1
  <2>2. ASSUME NEW c \in Calls, Step(c) \/ Fault(c)
        PROVE  dispute.status = "APPEALED" => dispute'.status \in {"APPEALED", "RESOLVED"}
    BY ZenonT(60), <2>1, <2>2, StepSplit, SettleKeepsDispute
  <2> QED BY ZenonT(60), <1>1, <2>2, OtherKeeps, RequestFrame, JobBase DEF Next
<1>2. ASSUME Base, [Next]_vars
      PROVE  [dispute.status = "APPEALED" => dispute'.status \in {"APPEALED", "RESOLVED"}]_vars
  BY <1>1, <1>2
<1> QED BY <1>2, InitBase, BaseStep, PTL DEF Spec, AppealStands

-----------------------------------------------------------------------------
(* What reaches the network, and under whose authority.                    *)

LEMMA GrowBy ==
  ASSUME Base', Len(rows) <= Len(rows'),
         \A i \in 1..Len(rows) : rows'[i].kind = rows[i].kind /\ rows'[i].gen = rows[i].gen,
         spent # 0 => spent' = spent, tx # 0 => tx' = tx, econ \subseteq econ', capa \subseteq capa'
  PROVE  Grow
BY ZenonT(60) DEF Base, Types, Grow

LEMMA SettleGrows ==
  ASSUME Base, NEW c \in Calls, SettleStep(c) \/ Fault(c)
  PROVE  Grow
<1>1. Base'
  BY ZenonT(60), SettleKeepsBase, FaultStep
<1>2. /\ \/ UNCHANGED rows
         \/ /\ Len(rows') = Len(rows)
            /\ \A i \in 1..Len(rows) : rows'[i].kind = rows[i].kind /\ rows'[i].gen = rows[i].gen
      /\ spent # 0 => spent' = spent
      /\ tx # 0 => tx' = tx
      /\ econ \subseteq econ' /\ capa \subseteq capa'
  BY ZenonT(60), ReadSteps, SignSteps, GateSteps, AskStep, ClaimStep, BroadcastStep, ResultStep,
     EffectSteps, DeleteStep, RevertStep, FaultStep DEF SettleStep
<1>3. Len(rows) \in Nat
  BY DEF Base, Types
<1>4. Len(rows) <= Len(rows')
  BY <1>2, <1>3
<1> QED BY ZenonT(60), <1>1, <1>2, <1>4, GrowBy

LEMMA ForeignGrows ==
  ASSUME Base, NEW c \in Calls, ForeignStep(c)
  PROVE  Grow
<1>1. Base'
  BY ForeignKeepsBase
<1>2. /\ UNCHANGED <<spent, tx, econ, capa>>
      /\ \/ UNCHANGED rows
         \/ Len(rows) <= Len(rows') /\ \A i \in 1..Len(rows) : rows'[i] = rows[i]
  BY ZenonT(60), ForeignOps, InitiateSteps, CreateStep, RulingSteps DEF ForeignStep
<1>3. Len(rows) \in Nat
  BY DEF Base, Types
<1>4. Len(rows) <= Len(rows')
  BY <1>2, <1>3
<1> QED BY ZenonT(60), <1>1, <1>2, <1>4, GrowBy

\* Every step keeps the rows, the spend and the authorisations there are.
LEMMA GrowStep == Base /\ [Next]_vars => Grow
<1> SUFFICES ASSUME Base, [Next]_vars PROVE Grow
  BY ZenonT(60)
<1>1. Base' /\ Len(rows) \in Nat
  BY BaseStep DEF Base, Types
<1>2. ASSUME UNCHANGED <<rows, tx, spent, econ, capa>> PROVE Grow
  <2>1. Len(rows) <= Len(rows')
    BY <1>1, <1>2
  <2> QED BY ZenonT(60), <1>1, <1>2, <2>1, GrowBy
<1>3. CASE UNCHANGED vars
  BY <1>2, <1>3 DEF vars, escrowVars, rowVars, gateVars
<1>4. CASE Other
  BY ZenonT(60), <1>2, <1>4, OtherKeeps
<1>5. ASSUME NEW c \in Requests, Request(c) PROVE Grow
  BY ZenonT(60), <1>2, <1>5, RequestFrame
<1>6. ASSUME NEW c \in Jobs, Job(c) PROVE Grow
  BY ZenonT(60), <1>2, <1>6, JobBase
<1> QED BY ZenonT(60), <1>3, <1>4, <1>5, <1>6, StepSplit, SettleGrows, ForeignGrows DEF Next

\* Only a broadcast spends.
LEMMA SpentMoves ==
  ASSUME Base, [Next]_vars
  PROVE  \/ UNCHANGED spent
         \/ \E c \in Calls : /\ call[c].op \in RowOps /\ call[c].pc = "broadcast"
                             /\ spent' = call[c].id
<1>1. UNCHANGED vars => UNCHANGED spent
  BY DEF vars
<1>2. ASSUME NEW c \in Calls, SettleStep(c)
      PROVE  \/ UNCHANGED spent
             \/ call[c].op \in RowOps /\ call[c].pc = "broadcast" /\ spent' = call[c].id
  BY ZenonT(60), <1>2, ReadSteps, SignSteps, GateSteps, AskStep, ClaimStep, BroadcastStep,
     ResultStep, EffectSteps, DeleteStep, RevertStep DEF SettleStep
<1>3. ASSUME NEW c \in Calls, ForeignStep(c) \/ Fault(c) PROVE UNCHANGED spent
  BY ZenonT(60), <1>3, ForeignOps, FaultStep
<1> QED BY ZenonT(60), <1>1, <1>2, <1>3, OtherKeeps, RequestFrame, JobBase, StepSplit DEF Next

\* Only the economic gate authorises a disputed row, and only one of the current ruling.
LEMMA EconMoves ==
  ASSUME Base, [Next]_vars
  PROVE  \/ UNCHANGED econ
         \/ \E i \in 1..Len(rows) : econ' = econ \cup {i} /\ (i \in econ \/ IsCurrent(rows[i].gen))
<1>1. UNCHANGED vars => UNCHANGED econ
  BY DEF vars, gateVars
<1>2. ASSUME NEW c \in Calls, AuthorizeDisputed(c)
      PROVE  \/ UNCHANGED econ
             \/ \E i \in 1..Len(rows) : econ' = econ \cup {i} /\ (i \in econ \/ IsCurrent(rows[i].gen))
  <2>1. call[c].pc = "economic"
    BY <1>2 DEF AuthorizeDisputed, At
  <2>2. call[c].op \in RowOps /\ call[c].pc # "pending"
    BY ZenonT(60), <2>1 DEF Base, CallOK, LifeOK, Life, RowOps
  <2>3. call[c].id \in 1..Len(rows)
    BY <2>2, RowOfCall
  <2> QED BY ZenonT(60), <1>2, <2>3 DEF AuthorizeDisputed
<1>3. ASSUME NEW c \in Calls, AuthorizeCapability(c) PROVE UNCHANGED econ
  BY <1>3 DEF AuthorizeCapability
<1>4. ASSUME NEW c \in Calls, SettleStep(c)
      PROVE  UNCHANGED econ \/ AuthorizeDisputed(c) \/ AuthorizeCapability(c)
  BY ZenonT(60), <1>4, ReadSteps, SignSteps, AskStep, ClaimStep, BroadcastStep,
     ResultStep, EffectSteps, DeleteStep, RevertStep DEF SettleStep
<1>5. ASSUME NEW c \in Calls, ForeignStep(c) \/ Fault(c) PROVE UNCHANGED econ
  BY ZenonT(60), <1>5, ForeignOps, FaultStep
<1>6. ASSUME NEW c \in Calls, Step(c) \/ Fault(c)
      PROVE  \/ UNCHANGED econ
             \/ \E i \in 1..Len(rows) : econ' = econ \cup {i} /\ (i \in econ \/ IsCurrent(rows[i].gen))
  BY ZenonT(60), <1>2, <1>3, <1>4, <1>5, <1>6, StepSplit
<1> QED BY ZenonT(60), <1>1, <1>6, OtherKeeps, RequestFrame, JobBase DEF Next

\* The commit gates stay ahead of the network while every broadcast is of an authorised row.
LEMMA AuthorityStep ==
  ASSUME Base, [Next]_vars, ExecutedUnderAuthority,
         \A c \in Calls : call[c].op = "terminal" /\ call[c].pc = "broadcast" => Authorised(call[c].id)
  PROVE  ExecutedUnderAuthority'
<1>1. Grow /\ rows \in Seq(RowRec) /\ spent \in 0..Len(rows)
  BY ZenonT(60), GrowStep DEF Base, Types
<1>2. ASSUME NEW i \in 1..Len(rows), Authorised(i), spent' = i PROVE ExecutedUnderAuthority'
  BY ZenonT(60), <1>1, <1>2 DEF Grow, Authorised, Ruled, ExecutedUnderAuthority
<1>3. CASE UNCHANGED spent /\ spent # 0
  BY <1>1, <1>2, <1>3 DEF ExecutedUnderAuthority, Authorised, Ruled
<1>4. CASE UNCHANGED spent /\ spent = 0
  BY <1>4 DEF ExecutedUnderAuthority
<1>5. ASSUME NEW c \in Calls, call[c].op \in RowOps, call[c].pc = "broadcast", spent' = call[c].id
      PROVE  ExecutedUnderAuthority'
  <2>1. call[c].id \in 1..Len(rows)
    BY <1>5, RowOfCall
  <2>2. call[c].op \in {"sign", "unclaimed"} => Authorised(call[c].id)
    BY ZenonT(60), <1>5 DEF Base, CallOK, GateOK, InTry
  <2>3. Authorised(call[c].id)
    BY <1>5, <2>2 DEF RowOps
  <2> QED BY ZenonT(60), <1>2, <1>5, <2>1, <2>3
<1> QED BY ZenonT(60), <1>3, <1>4, <1>5, SpentMoves

\* Where no recovery job re-broadcasts a terminal escrow's row the gates come first.
LEMMA GatedStep ==
  ASSUME Gated, Base, [Next]_vars, ExecutedUnderAuthority
  PROVE  ExecutedUnderAuthority'
<1>1. \A c \in Calls : call[c].op # "terminal"
  BY ZenonT(60) DEF Base, CallOK, LifeOK, JobOps, Gated
<1> QED BY ZenonT(60), <1>1, AuthorityStep

LEMMA InitAuthority == Init => ExecutedUnderAuthority
BY DEF Init, ExecutedUnderAuthority

\* A row of a round that was appealed before the ruling gate let the row through is never
\* let through and never spent.  Only rails without a recovery broadcast (not MULTISIG)
\* have appeals, so the gates come first there, and the ruling gate reads the current round.
THEOREM SupersededHolds == Spec => SupersededNeverExecutes
<1> DEFINE Inv == Base /\ (~MULTISIG => ExecutedUnderAuthority)
           Old == \A i \in 1..Len(rows) :
                    /\ rows[i].gen.disputed /\ rows[i].gen.round < dispute.round /\ i \notin econ
                    => i \notin econ' /\ spent' # i
<1>1. Init => Inv
  BY InitBase, InitAuthority
<1>2. Inv /\ [Next]_vars => Inv'
  BY BaseStep, GatedStep DEF Gated
<1>3. ASSUME Inv, [Next]_vars, NEW i \in 1..Len(rows),
             rows[i].gen.disputed, rows[i].gen.round < dispute.round, i \notin econ
      PROVE  i \notin econ' /\ spent' # i
  <2>1. ~MULTISIG
    <3>1. rows[i].gen \in GenRec
      <4>1. rows \in Seq(RowRec)
        BY <1>3 DEF Base, Types
      <4>2. rows[i] \in RowRec
        BY <4>1
      <4> QED BY ZenonT(60), <4>2 DEF RowRec
    <3>2. rows[i].gen.round \in Nat
      BY <3>1 DEF GenRec
    <3> QED BY <1>3, <3>2 DEF Base
  <2>2. ~IsCurrent(rows[i].gen)
    <3>1. dispute.round \in Nat
      <4>1. dispute \in DisputeRec
        BY <1>3 DEF Base, Types
      <4>2. dispute.round \in Rounds
        BY <4>1 DEF DisputeRec
      <4> QED BY ZenonT(60), <4>2, RoundZero
    <3>2. Generation.round = dispute.round
      BY DEF Generation
    <3> QED BY <1>3, <3>1, <3>2 DEF IsCurrent
  <2>3. i \notin econ'
    BY ZenonT(60), <1>3, <2>2, EconMoves
  <2>4. spent' # i
    <3>1. Grow /\ ExecutedUnderAuthority'
      BY ZenonT(60), <1>2, <1>3, <2>1, GrowStep
    <3>2. rows'[i].gen = rows[i].gen /\ i # 0
      BY <1>3, <3>1 DEF Grow
    <3> QED BY ZenonT(60), <1>3, <2>3, <3>1, <3>2 DEF ExecutedUnderAuthority
  <2> QED BY ZenonT(60), <2>3, <2>4
<1>4. Inv /\ [Next]_vars => [Old]_vars
  BY <1>3
<1> QED BY <1>1, <1>2, <1>4, PTL DEF Spec, SupersededNeverExecutes

-----------------------------------------------------------------------------
(* Held: a claim is this call's until it is handed back.                   *)

\* No other call depends on the status.
Alone(c) == \A d \in Calls \ {c} : ~Claimed(d) /\ ~Rereads(d)

LEMMA RevocableClaimed ==
  ASSUME NEW c, Revocable(c)
  PROVE  Claimed(c) /\ call[c].op = "sign"
BY DEF Revocable, RevocableAt, Claimed, ClaimedAt

LEMMA KindOf ==
  ASSUME Base, NEW c \in Calls
  PROVE  call[c].kind \in AllKinds
<1>1. call[c] \in CallRec
  BY DEF Base, Types
<1> QED BY <1>1 DEF CallRec

LEMMA RowKind ==
  ASSUME Base, NEW i \in 1..Len(rows)
  PROVE  rows[i].kind \in AllKinds
<1>1. rows \in Seq(RowRec)
  BY DEF Base, Types
<1>2. rows[i] \in RowRec
  BY <1>1
<1> QED BY <1>2 DEF RowRec

\* Before the terminal status nothing was claimed, announced or acknowledged.
LEMMA Unclaimed ==
  ASSUME Base, Held, status \notin TerminalStatuses
  PROVE  /\ events = {} /\ acked = {}
         /\ \A c \in Calls : ~Claimed(c) /\ ~Rereads(c) /\ Alone(c)
<1>1. \A e \in events : FALSE
  BY ZenonT(60) DEF Held
<1>2. \A i \in acked : FALSE
  BY ZenonT(60), RowKind, TargetTerminal DEF Held, AckedIsFinal
<1>3. \A c \in Calls : ~Claimed(c) /\ ~Rereads(c)
  BY ZenonT(60), KindOf, TargetTerminal DEF Held, HeldOK
<1> QED BY ZenonT(60), <1>1, <1>2, <1>3 DEF Alone

\* A request that holds its claim is the only call that does.
LEMMA SignAlone ==
  ASSUME Base, Held, NEW c \in Calls, call[c].op = "sign", Claimed(c)
  PROVE  Alone(c)
<1> SUFFICES ASSUME NEW d \in Calls \ {c}, Claimed(d) \/ Rereads(d)
             PROVE  FALSE
  BY DEF Alone
<1>1. Apart(c, d)
  BY DEF Held
<1>2. call[d].op \in SettleOps
  BY DEF Claimed, ClaimedAt, Rereads, SettleOps, RowOps
<1>3. call[d].op = "sign" => Claimed(d)
  BY DEF Rereads
<1> QED BY <1>1, <1>2, <1>3 DEF Apart, RequestOps, JobOps, SettleOps, RowOps

LEMMA NoneRevocable ==
  ASSUME Base, Held, NEW c \in Calls, Claimed(c), NEW d \in Calls, d # c
  PROVE  ~Revocable(d)
<1> SUFFICES ASSUME Revocable(d) PROVE FALSE
  OBVIOUS
<1>1. Apart(d, c) /\ Claimed(d) /\ call[d].op = "sign"
  BY RevocableClaimed DEF Held
<1>2. call[c].op \in SettleOps
  BY DEF Claimed, ClaimedAt, SettleOps, RowOps
<1> QED BY <1>1, <1>2 DEF Apart, RequestOps, JobOps, SettleOps, RowOps

\* What was acknowledged and announced stays as it is.
Told ==
  /\ \A e \in events : status = e.status /\ e.status \in TerminalStatuses
  /\ AckedIsFinal /\ acked \subseteq 1..Len(rows)

LEMMA AckedStays ==
  ASSUME Base, Held, Grow, UNCHANGED status, NEW i \in acked
  PROVE  i \in 1..Len(rows') /\ status' = Target(rows'[i].kind) /\ tx' = i /\ spent' = i
<1>1. i \in 1..Len(rows) /\ status = Target(rows[i].kind) /\ tx = i /\ spent = i
  BY ZenonT(60) DEF Held, AckedIsFinal
<1>2. i # 0 /\ i \in 1..Len(rows')
  BY <1>1 DEF Base, Types, Grow
<1> QED BY ZenonT(60), <1>1, <1>2 DEF Grow

LEMMA ToldStays ==
  ASSUME Base, Held, Grow, UNCHANGED <<status, events, acked>>
  PROVE  Told'
<1>1. \A e \in events' : status' = e.status /\ e.status \in TerminalStatuses
  BY ZenonT(60) DEF Held
<1> QED BY ZenonT(60), <1>1, AckedStays DEF Told, AckedIsFinal

\* Call c moves and every other call keeps what it holds.
LEMMA HeldBy ==
  ASSUME Base, Held, NEW c \in Calls, Only(c), HeldOK(c)', Told',
         status' = status \/ Alone(c),
         UNCHANGED <<events, acked>> \/ \A d \in Calls : d # c => ~Revocable(d),
         \A d \in Calls : d # c => Apart(c, d)' /\ Apart(d, c)'
  PROVE  Held'
<1>1. ASSUME NEW d \in Calls, d # c PROVE HeldOK(d)'
  <2>1. call'[d] = call[d] /\ HeldOK(d)
    BY ZenonT(60), <1>1 DEF Only, Held
  <2>2. Claimed(d)' = Claimed(d) /\ Rereads(d)' = Rereads(d) /\ Revocable(d)' = Revocable(d)
    BY ZenonT(60), <2>1 DEF Claimed, Rereads, Revocable
  <2>3. status' = status \/ (~Claimed(d) /\ ~Rereads(d))
    BY <1>1 DEF Alone
  <2>4. Revocable(d) => UNCHANGED <<events, acked>>
    BY ZenonT(60), <1>1
  <2> QED BY ZenonT(60), <2>1, <2>2, <2>3, <2>4 DEF HeldOK
<1>2. ASSUME NEW d \in Calls, d # c, NEW e \in Calls, e # c PROVE Apart(d, e)'
  <2>1. call'[d] = call[d] /\ call'[e] = call[e] /\ Apart(d, e)
    BY ZenonT(60), <1>2 DEF Only, Held
  <2> QED BY ZenonT(60), <2>1 DEF Apart, Claimed
<1>3. Apart(c, c)'
  BY DEF Apart, RequestOps, JobOps
<1>4. \A d \in Calls : HeldOK(d)'
  BY <1>1
<1>5. \A d, e \in Calls : Apart(d, e)'
  BY ZenonT(60), <1>2, <1>3
<1> QED BY ZenonT(60), <1>4, <1>5 DEF Held, Told

LEMMA ApartKept ==
  ASSUME Base, Held, NEW c \in Calls, Only(c), call'[c].op \in {call[c].op, "none"},
         call'[c].op = "sign" /\ Claimed(c)' => Claimed(c) \/ Alone(c),
         NEW d \in Calls, d # c
  PROVE  Apart(c, d)' /\ Apart(d, c)'
<1>1. call'[d] = call[d] /\ Apart(c, d) /\ Apart(d, c)
  BY ZenonT(60) DEF Only, Held
<1>2. Claimed(d)' = Claimed(d) /\ (Alone(c) => ~Claimed(d))
  BY ZenonT(60), <1>1 DEF Claimed, Alone
<1>3. "none" \notin RequestOps /\ "none" \notin JobOps /\ "none" # "sign"
  BY ZenonT(60) DEF RequestOps, JobOps
<1> QED BY ZenonT(60), <1>1, <1>2, <1>3 DEF Apart

\* The call ends, settles nothing, or moves on without a new claim.
Calm(c) ==
  \/ call'[c] = Idle
  \/ call[c].op \notin SettleOps /\ call'[c].op \in {call[c].op, "none"}
  \/ \E p \in PCs : /\ Went(c, p) /\ p # "pending"
                    /\ ClaimedAt(call[c].op, p) => Claimed(c)
                    /\ RevocableAt(call[c].op, p) => Revocable(c)

LEMMA NothingHeld ==
  ASSUME NEW c, call'[c].op \notin SettleOps
  PROVE  HeldOK(c)' /\ ~Claimed(c)'
BY DEF HeldOK, Claimed, ClaimedAt, Revocable, RevocableAt, Rereads, SettleOps, RowOps

LEMMA HeldCalm ==
  ASSUME Base, Held, Grow, NEW c \in Calls, Only(c), Calm(c), UNCHANGED <<status, events, acked>>
  PROVE  Held'
<1>1. HeldOK(c)
  BY DEF Held
<1>2. /\ HeldOK(c)' /\ call'[c].op \in {call[c].op, "none"}
      /\ call'[c].op = "sign" /\ Claimed(c)' => Claimed(c)
  <2>1. CASE call'[c].op \notin SettleOps /\ call'[c].op \in {call[c].op, "none"}
    BY ZenonT(60), <2>1, NothingHeld
  <2>2. CASE call'[c] = Idle
    BY ZenonT(60), <2>1, <2>2, IdleRec DEF SettleOps, RowOps
  <2>3. CASE call[c].op \notin SettleOps /\ call'[c].op \in {call[c].op, "none"}
    BY <2>1, <2>3 DEF SettleOps, RowOps
  <2>4. ASSUME NEW p \in PCs, Went(c, p), p # "pending", ClaimedAt(call[c].op, p) => Claimed(c),
               RevocableAt(call[c].op, p) => Revocable(c)
        PROVE  /\ HeldOK(c)' /\ call'[c].op \in {call[c].op, "none"}
               /\ call'[c].op = "sign" /\ Claimed(c)' => Claimed(c)
    <3>1. /\ Claimed(c)' => Claimed(c)
          /\ Revocable(c)' => Revocable(c)
          /\ ~Rereads(c)'
          /\ call'[c].kind = call[c].kind /\ call'[c].op = call[c].op
      BY ZenonT(60), <2>4 DEF Went, Claimed, Revocable, Rereads
    <3> QED BY ZenonT(60), <1>1, <3>1 DEF HeldOK
  <2> QED BY ZenonT(60), <2>2, <2>3, <2>4 DEF Calm
<1>3. \A d \in Calls : d # c => Apart(c, d)' /\ Apart(d, c)'
  BY ZenonT(60), <1>2, ApartKept
<1> QED BY ZenonT(60), <1>2, <1>3, ToldStays, HeldBy

LEMMA ForeignHeld ==
  ASSUME Base, Held, NEW c \in Calls, ForeignStep(c)
  PROVE  Held'
<1>1. Foreign(c) /\ Grow /\ UNCHANGED <<status, events, acked>>
  BY ZenonT(60), ForeignKeepsBase, ForeignGrows, ForeignOps
<1>2. Only(c) /\ Calm(c)
  BY ZenonT(60), <1>1 DEF Foreign, Calm
<1> QED BY <1>1, <1>2, HeldCalm

LEMMA FaultHeld ==
  ASSUME Base, Held, NEW c \in Calls, Fault(c)
  PROVE  Held'
<1>1. /\ Only(c) /\ Grow /\ UNCHANGED <<status, events, acked>>
      /\ \/ call'[c] = Idle
         \/ call[c].op = "sign" /\ call[c].pc \in InTry /\ Went(c, "revert")
         \/ call[c].op = "resolve" /\ Went(c, "unrule")
  BY ZenonT(60), SettleGrows, FaultStep
<1>2. ASSUME call[c].op = "sign", call[c].pc \in InTry
      PROVE  Claimed(c) /\ Revocable(c)
  BY ZenonT(60), <1>2 DEF Claimed, ClaimedAt, Revocable, RevocableAt
<1>3. ASSUME call[c].op = "resolve", Went(c, "unrule")
      PROVE  call[c].op \notin SettleOps /\ call'[c].op = call[c].op
  BY <1>3 DEF Went, SettleOps, RowOps
<1>4. "revert" \in PCs /\ "revert" # "pending"
  BY DEF PCs
<1>5. Calm(c)
  BY ZenonT(60), <1>1, <1>2, <1>3, <1>4 DEF Calm
<1> QED BY <1>1, <1>5, HeldCalm

\* The steps that read, sign and pass the gates claim nothing.
LEMMA CalmSteps ==
  ASSUME Base, NEW c \in Calls,
         \/ UpsertSignature(c) \/ ReadSignatures(c)
         \/ AuthorizeDisputed(c) \/ AuthorizeCapability(c) \/ AskChain(c)
         \/ Broadcast(c) \/ RecordResult(c) \/ RecordObligation(c)
  PROVE  Only(c) /\ Calm(c) /\ UNCHANGED <<status, events, acked>>
<1> DEFINE Mild(op, pc, p) == /\ p \in PCs /\ p # "pending"
                              /\ ClaimedAt(op, p) => ClaimedAt(op, pc)
                              /\ RevocableAt(op, p) => RevocableAt(op, pc)
<1>1. ASSUME NEW p, Went(c, p), Mild(call[c].op, call[c].pc, p) PROVE Calm(c)
  BY ZenonT(60), <1>1 DEF Calm, Claimed, Revocable
<1>2. ASSUME call'[c] = Idle PROVE Calm(c)
  BY <1>2, ZenonT(60) DEF Calm
<1>3. CASE UpsertSignature(c) \/ ReadSignatures(c)
  <2>1. /\ Only(c) /\ UNCHANGED <<status, events, acked>> /\ call[c].op = "sign"
        /\ call'[c] = Idle \/ \E p \in {"signatures", "economic"} : Went(c, p)
    BY ZenonT(60), <1>3, SignSteps
  <2>2. \A p \in {"signatures", "economic"} : Mild("sign", call[c].pc, p)
    BY DEF ClaimedAt, RevocableAt, PCs, InTry
  <2> QED BY ZenonT(60), <1>1, <1>2, <2>1, <2>2
<1>4. CASE AuthorizeDisputed(c) \/ AuthorizeCapability(c)
  <2>1. /\ Only(c) /\ UNCHANGED <<status, events, acked>> /\ call[c].op \in {"sign", "unclaimed"}
        /\ call'[c] = Idle \/ \E p \in {"capability", AfterGates(c)} : Went(c, p)
    BY ZenonT(60), <1>4, GateSteps
  <2>2. \A p \in {"capability", AfterGates(c)} : Mild(call[c].op, call[c].pc, p)
    BY ZenonT(60), <2>1 DEF ClaimedAt, RevocableAt, PCs, InTry, AfterGates, Effects
  <2> QED BY ZenonT(60), <1>1, <1>2, <2>1, <2>2
<1>5. CASE AskChain(c)
  <2>1. /\ Only(c) /\ UNCHANGED <<status, events, acked>> /\ call[c].pc = "ask"
        /\ \/ call'[c] = Idle
           \/ call[c].op = "unclaimed" /\ \E p \in {"claim", "economic"} : Went(c, p)
           \/ call[c].op = "terminal" /\ \E p \in {"result", "broadcast"} : Went(c, p)
    BY ZenonT(60), <1>5, AskStep
  <2>2. /\ \A p \in {"claim", "economic"} : Mild("unclaimed", "ask", p)
        /\ \A p \in {"result", "broadcast"} : Mild("terminal", "ask", p)
    BY DEF ClaimedAt, RevocableAt, PCs, InTry, Effects
  <2> QED BY ZenonT(60), <1>1, <1>2, <2>1, <2>2
<1>6. CASE Broadcast(c)
  <2>1. /\ Only(c) /\ UNCHANGED <<status, events, acked>> /\ call[c].pc = "broadcast"
        /\ call[c].op \in RowOps
        /\ \/ call'[c] = Idle
           \/ call[c].op = "sign" /\ Went(c, "revert")
           \/ Went(c, AfterBroadcast(c))
    BY ZenonT(60), <1>6, BroadcastStep
  <2>2. Mild("sign", "broadcast", "revert") /\ Mild(call[c].op, "broadcast", AfterBroadcast(c))
    BY ZenonT(60), <2>1 DEF ClaimedAt, RevocableAt, PCs, InTry, Effects, AfterBroadcast, RowOps
  <2> QED BY ZenonT(60), <1>1, <1>2, <2>1, <2>2
<1>7. CASE RecordResult(c)
  <2>1. /\ Only(c) /\ UNCHANGED <<status, events, acked>> /\ call[c].pc = "result"
        /\ call[c].op \in RowOps /\ Went(c, "obligation")
    BY ZenonT(60), <1>7, ResultStep
  <2>2. Mild(call[c].op, "result", "obligation")
    BY ZenonT(60), <2>1 DEF ClaimedAt, RevocableAt, PCs, InTry, Effects, RowOps
  <2> QED BY ZenonT(60), <1>1, <2>1, <2>2
<1>8. CASE RecordObligation(c)
  <2>1. call[c].pc = "obligation" /\ "obligation" # "emit"
    BY ZenonT(60), <1>8 DEF RecordObligation, At
  <2>2. /\ Only(c) /\ UNCHANGED <<status, events, acked>> /\ call[c].op \in SettleOps
        /\ Went(c, "emit")
    BY ZenonT(60), <1>8, <2>1, EffectSteps
  <2>3. Mild(call[c].op, "obligation", "emit")
    BY <2>2 DEF ClaimedAt, RevocableAt, PCs, InTry, Effects, RowOps, SettleOps
  <2> QED BY ZenonT(60), <1>1, <2>1, <2>2, <2>3
<1> QED BY ZenonT(60), <1>3, <1>4, <1>5, <1>6, <1>7, <1>8

LEMMA ReadHeld ==
  ASSUME Base, Held, NEW c \in Calls, ReadPending(c) \/ ReadTerminalPending(c)
  PROVE  Held'
<1>1. /\ Only(c) /\ Grow /\ UNCHANGED <<status, events, acked>>
      /\ call[c].pc = "pending" /\ call[c].op \in {"sign", "terminal"}
      /\ \/ call'[c] = Idle
         \/ call[c].op = "sign" /\ Reads(c, "upsert")
         \/ call[c].op = "terminal" /\ Reads(c, "ask") /\ Target(rows[live].kind) = call[c].from
  BY ZenonT(60), ReadSteps, SettleGrows DEF SettleStep
<1>2. CASE call'[c] = Idle
  BY ZenonT(60), <1>1, <1>2, HeldCalm DEF Calm
<1>3. CASE call[c].op = "sign" /\ Reads(c, "upsert")
  <2>1. /\ HeldOK(c)' /\ call'[c].op = call[c].op /\ ~Claimed(c)'
    BY <1>3 DEF Reads, HeldOK, Claimed, ClaimedAt, Revocable, RevocableAt, Rereads, InTry
  <2>2. \A d \in Calls : d # c => Apart(c, d)' /\ Apart(d, c)'
    BY ZenonT(60), <1>1, <2>1, ApartKept
  <2> QED BY ZenonT(60), <1>1, <2>1, <2>2, ToldStays, HeldBy
<1>4. CASE call[c].op = "terminal" /\ Reads(c, "ask") /\ Target(rows[live].kind) = call[c].from
  <2>1. status = call[c].from
    BY ZenonT(60), <1>1, <1>4 DEF Held, HeldOK, Rereads
  <2>2. /\ HeldOK(c)' /\ call'[c].op = call[c].op /\ call'[c].op # "sign"
    BY ZenonT(60), <1>1, <1>4, <2>1 DEF Reads, HeldOK, Claimed, ClaimedAt, Revocable, RevocableAt, Rereads
  <2>3. \A d \in Calls : d # c => Apart(c, d)' /\ Apart(d, c)'
    BY ZenonT(60), <1>1, <2>2, ApartKept
  <2> QED BY ZenonT(60), <1>1, <2>2, <2>3, ToldStays, HeldBy
<1> QED BY ZenonT(60), <1>1, <1>2, <1>3, <1>4

LEMMA ClaimHeld ==
  ASSUME Base, Held, NEW c \in Calls, ClaimTerminal(c)
  PROVE  Held'
<1> DEFINE p == IF call[c].op = "sign" THEN "broadcast" ELSE "result"
<1>1. /\ Only(c) /\ Grow /\ UNCHANGED <<events, acked>> /\ call[c].op \in {"sign", "unclaimed"}
      /\ \/ call'[c] = Idle /\ UNCHANGED status
         \/ status' = Target(call[c].kind) /\ status \notin TerminalStatuses /\ Went(c, p)
  BY ZenonT(60), ClaimStep, SettleGrows DEF SettleStep
<1>2. CASE call'[c] = Idle /\ UNCHANGED status
  BY ZenonT(60), <1>1, <1>2, HeldCalm DEF Calm
<1>3. CASE status' = Target(call[c].kind) /\ status \notin TerminalStatuses /\ Went(c, p)
  <2>1. events' = {} /\ acked' = {} /\ Alone(c)
    BY ZenonT(60), <1>1, <1>3, Unclaimed
  <2>2. call'[c].op = call[c].op /\ call'[c].kind = call[c].kind /\ call'[c].pc \in {"broadcast", "result"}
    BY ZenonT(60), <1>3 DEF Went
  <2>3. HeldOK(c)'
    BY ZenonT(60), <1>3, <2>1, <2>2 DEF HeldOK, Rereads
  <2>4. Told'
    BY <2>1 DEF Told, AckedIsFinal
  <2>5. \A d \in Calls : d # c => Apart(c, d)' /\ Apart(d, c)'
    BY ZenonT(60), <1>1, <2>1, <2>2, ApartKept
  <2> QED BY ZenonT(60), <1>1, <2>1, <2>3, <2>4, <2>5, HeldBy
<1> QED BY ZenonT(60), <1>1, <1>2, <1>3

LEMMA EmitHeld ==
  ASSUME Base, Held, NEW c \in Calls, EmitTransition(c)
  PROVE  Held'
<1>1. call[c].pc = "emit" /\ "obligation" # "emit"
  BY ZenonT(60) DEF EmitTransition, At
<1>2. /\ Only(c) /\ Grow /\ UNCHANGED <<status, acked>> /\ call[c].op \in SettleOps
      /\ Went(c, "delete")
      /\ \/ UNCHANGED events
         \/ events' = events \cup {[status |-> Target(call[c].kind), tx |-> call[c].id]}
  BY ZenonT(60), <1>1, EffectSteps, SettleGrows DEF SettleStep
<1>3. Claimed(c)
  BY <1>1, <1>2 DEF Claimed, ClaimedAt, InTry, Effects, SettleOps, RowOps
<1>4. status = Target(call[c].kind) /\ status \in TerminalStatuses
  BY ZenonT(60), <1>3, KindOf, TargetTerminal DEF Held, HeldOK
<1>5. HeldOK(c)' /\ call'[c].op = call[c].op
  BY ZenonT(60), <1>2, <1>4 DEF Went, HeldOK, Revocable, RevocableAt, Rereads, InTry
<1>6. Told'
  <2>1. /\ AckedIsFinal' /\ acked' \subseteq 1..Len(rows')
    BY ZenonT(60), <1>2, AckedStays DEF AckedIsFinal
  <2>2. [status |-> Target(call[c].kind), tx |-> call[c].id].status = status
    BY ZenonT(60), <1>4
  <2>3. \A e \in events' : status' = e.status /\ e.status \in TerminalStatuses
    BY <1>2, <1>4, <2>2 DEF Held
  <2> QED BY <2>1, <2>3 DEF Told
<1>7. \A d \in Calls : d # c => ~Revocable(d)
  BY ZenonT(60), <1>3, NoneRevocable
<1>8. \A d \in Calls : d # c => Apart(c, d)' /\ Apart(d, c)'
  BY ZenonT(60), <1>2, <1>3, <1>5, ApartKept
<1> QED BY ZenonT(60), <1>2, <1>5, <1>6, <1>7, <1>8, HeldBy

LEMMA DeleteHeld ==
  ASSUME Base, Held, NEW c \in Calls, DeletePending(c)
  PROVE  Held'
<1>1. /\ Only(c) /\ Grow /\ UNCHANGED <<status, events>> /\ call'[c] = Idle
      /\ UNCHANGED <<rows, tx, spent>>
      /\ acked' = IF call[c].op = "sign" THEN acked \cup {call[c].id} ELSE acked
      /\ call[c].op \in SettleOps /\ call[c].pc = "delete"
  BY ZenonT(60), DeleteStep, SettleGrows DEF SettleStep
<1>2. CASE call[c].op # "sign"
  BY ZenonT(60), <1>1, <1>2, HeldCalm DEF Calm
<1>3. CASE call[c].op = "sign"
  <2>1. Claimed(c) /\ call[c].op \in RowOps /\ call[c].pc # "pending" /\ call[c].pc \in Effects
    BY <1>1, <1>3 DEF Claimed, ClaimedAt, RowOps, Effects
  <2>2. /\ call[c].id \in 1..Len(rows) /\ tx = call[c].id /\ spent = call[c].id
        /\ status = Target(rows[call[c].id].kind)
    BY ZenonT(60), <2>1 DEF Base, CallOK, RowOK, Held, HeldOK
  <2>3. HeldOK(c)' /\ call'[c].op = "none" /\ ~Claimed(c)'
    BY ZenonT(60), <1>1, IdleRec, NothingHeld DEF SettleOps, RowOps
  <2>4. \A e \in events' : status' = e.status /\ e.status \in TerminalStatuses
    BY ZenonT(60), <1>1 DEF Held
  <2>5. AckedIsFinal' /\ acked' \subseteq 1..Len(rows')
    BY ZenonT(60), <1>1, <1>3, <2>2, AckedStays DEF AckedIsFinal
  <2>6. \A d \in Calls : d # c => ~Revocable(d)
    BY ZenonT(60), <2>1, NoneRevocable
  <2>7. \A d \in Calls : d # c => Apart(c, d)' /\ Apart(d, c)'
    BY ZenonT(60), <1>1, <2>3, ApartKept
  <2>8. Told'
    BY <2>4, <2>5 DEF Told
  <2> QED BY ZenonT(60), <1>1, <2>3, <2>6, <2>7, <2>8, HeldBy
<1> QED BY <1>2, <1>3

LEMMA RevertHeld ==
  ASSUME Base, Held, NEW c \in Calls, RevertClaim(c)
  PROVE  Held'
<1>1. /\ Only(c) /\ UNCHANGED <<events, acked>> /\ call'[c] = Idle
      /\ call[c].op = "sign" /\ call[c].pc = "revert"
  BY ZenonT(60), RevertStep
<1>2. Claimed(c) /\ Revocable(c)
  BY <1>1 DEF Claimed, ClaimedAt, Revocable, RevocableAt
<1>3. events' = {} /\ acked' = {} /\ Alone(c)
  BY ZenonT(60), <1>1, <1>2, SignAlone DEF Held, HeldOK
<1>4. HeldOK(c)' /\ call'[c].op = "none" /\ ~Claimed(c)'
  BY <1>1, IdleRec, NothingHeld DEF SettleOps, RowOps
<1>5. Told'
  BY <1>3 DEF Told, AckedIsFinal
<1>6. \A d \in Calls : d # c => Apart(c, d)' /\ Apart(d, c)'
  BY ZenonT(60), <1>1, <1>4, ApartKept
<1> QED BY ZenonT(60), <1>1, <1>3, <1>4, <1>5, <1>6, HeldBy

LEMMA SettleHeld ==
  ASSUME Base, Held, NEW c \in Calls, SettleStep(c)
  PROVE  Held'
<1>1. Grow
  BY SettleGrows
<1> QED BY ZenonT(60), <1>1, CalmSteps, HeldCalm, ReadHeld, ClaimHeld, EmitHeld, DeleteHeld, RevertHeld
        DEF SettleStep

\* A slot that is not at work is idle.
LEMMA IdleSlots ==
  ASSUME Base, NEW c \in Calls
  PROVE  /\ At(c, "idle") <=> call[c].op = "none"
         /\ call[c].op \in RequestOps => c \in Requests
         /\ call[c].op \in JobOps => c \in Jobs
BY ZenonT(60) DEF Base, CallOK, LifeOK, Life, At

LEMMA RequestHeld ==
  ASSUME Quiet, Base, Held, NEW c \in Requests, Request(c)
  PROVE  Held'
<1>1. /\ RequestStart(c) /\ Base' /\ UNCHANGED <<tx, rows, spent, econ, capa, events, acked>>
      /\ \/ status' = status
         \/ "DISPUTED" \in VALID_TRANSITIONS[status] /\ status' = "DISPUTED"
      /\ Overlap \/ AllIdle(Jobs)
      /\ c \in Calls
  BY ZenonT(60), RequestBase, RequestFrame DEF Calls
<1>2. status' = status \/ status \notin TerminalStatuses
  BY <1>1, TerminalEnds
<1>3. \A d \in Calls : call[d].op \notin JobOps
  <2>1. "none" \notin JobOps
    BY ZenonT(60) DEF JobOps
  <2> QED BY ZenonT(60), <1>1, <2>1, IdleSlots DEF Quiet, AllIdle
<1>4. HeldOK(c)' /\ ~Claimed(c)'
  BY ZenonT(60), <1>1 DEF RequestStart, RequestOps, HeldOK, Claimed, ClaimedAt, Revocable, RevocableAt, Rereads, InTry
<1>5. \A d \in Calls : d # c => Apart(c, d)' /\ Apart(d, c)'
  <2>1. \A d \in Calls : d # c => call'[d] = call[d]
    BY ZenonT(60), <1>1 DEF RequestStart, Only
  <2>2. call'[c].op \notin JobOps
    BY ZenonT(60), <1>1 DEF RequestStart, RequestOps, JobOps
  <2> QED BY ZenonT(60), <1>3, <1>4, <2>1, <2>2 DEF Apart
<1>6. Told'
  <2>1. CASE status' = status
    <3>1. Grow
      BY ZenonT(60), <1>1, SameGrow
    <3> QED BY ZenonT(60), <1>1, <2>1, <3>1, ToldStays
  <2>2. CASE status \notin TerminalStatuses
    BY ZenonT(60), <1>1, <2>2, Unclaimed DEF Told, AckedIsFinal
  <2> QED BY <1>2, <2>1, <2>2
<1>7. status' = status \/ Alone(c)
  BY ZenonT(60), <1>1, <1>2, Unclaimed
<1>8. Only(c)
  BY <1>1, ZenonT(60) DEF RequestStart
<1> QED BY ZenonT(60), <1>1, <1>4, <1>5, <1>6, <1>7, <1>8, HeldBy

LEMMA JobHeld ==
  ASSUME Quiet, Base, Held, NEW c \in Jobs, Job(c)
  PROVE  Held'
<1>1. /\ JobStart(c) /\ Base' /\ UNCHANGED <<status, tx, rows, spent, econ, capa, events, acked>>
      /\ Overlap \/ AllIdle(Requests)
      /\ c \in Calls
  BY ZenonT(60), JobBase, JobFrame DEF Calls
<1>2. \A d \in Calls : call[d].op \notin RequestOps
  <2>1. "none" \notin RequestOps /\ Jobs # {}
    BY ZenonT(60) DEF RequestOps
  <2> QED BY ZenonT(60), <1>1, <2>1, IdleSlots DEF Quiet, AllIdle
<1>3. call'[c].op \in JobOps /\ call'[c].op \notin RequestOps /\ call'[c].op # "sign"
  BY ZenonT(60), <1>1 DEF JobStart, RequestOps, JobOps
<1>4. HeldOK(c)'
  BY <1>1, ZenonT(60) DEF JobStart, JobOps, HeldOK, Claimed, ClaimedAt, Revocable, RevocableAt, Rereads, Effects
<1>5. \A d \in Calls : d # c => Apart(c, d)' /\ Apart(d, c)'
  <2>1. \A d \in Calls : d # c => call'[d] = call[d]
    BY ZenonT(60), <1>1 DEF JobStart, Only
  <2> QED BY ZenonT(60), <1>2, <1>3, <2>1 DEF Apart
<1>6. Grow
  BY ZenonT(60), <1>1, SameGrow
<1>7. Only(c)
  BY <1>1 DEF JobStart
<1> QED BY ZenonT(60), <1>1, <1>4, <1>5, <1>6, <1>7, ToldStays, HeldBy

\* No call moves; the status does only before it is terminal.
LEMMA StillHeld ==
  ASSUME Base, Held, UNCHANGED <<tx, rows, spent, econ, capa, events, acked, call>>,
         status' = status \/ status \notin TerminalStatuses
  PROVE  Held'
<1>1. Grow
  BY ZenonT(60), SameGrow
<1>2. \A c \in Calls : Claimed(c)' = Claimed(c) /\ Rereads(c)' = Rereads(c) /\ Revocable(c)' = Revocable(c)
  BY DEF Claimed, Rereads, Revocable
<1>3. \A c \in Calls : HeldOK(c)'
  BY ZenonT(60), <1>2, Unclaimed DEF Held, HeldOK
<1>4. \A c, d \in Calls : Apart(c, d)'
  BY ZenonT(60), <1>2 DEF Held, Apart
<1>5. Told'
  <2>1. CASE status' = status
    BY ZenonT(60), <1>1, <2>1, ToldStays
  <2>2. CASE status \notin TerminalStatuses
    BY <2>2, Unclaimed DEF Told, AckedIsFinal
  <2> QED BY <2>1, <2>2
<1> QED BY ZenonT(60), <1>3, <1>4, <1>5 DEF Held, Told

LEMMA HeldStep ==
  ASSUME Quiet, Base, Held, [Next]_vars
  PROVE  Held'
<1>1. CASE UNCHANGED vars
  BY <1>1, StillHeld DEF vars, escrowVars, rowVars, gateVars, effectVars
<1>2. CASE Other
  <2>1. "FUNDS_LOCKED" \notin TerminalStatuses
    BY DEF TerminalStatuses
  <2> QED BY ZenonT(60), <1>2, <2>1, OtherKeeps, StillHeld
<1>3. ASSUME NEW c \in Calls, Step(c) \/ Fault(c) PROVE Held'
  BY ZenonT(60), <1>3, StepSplit, ForeignHeld, SettleHeld, FaultHeld
<1> QED BY ZenonT(60), <1>1, <1>2, <1>3, RequestHeld, JobHeld DEF Next

LEMMA InitHeld == Init => Held
<1> SUFFICES ASSUME Init PROVE Held
  OBVIOUS
<1>1. \A c \in Calls : call[c].op = "none"
  BY ZenonT(60), IdleRec DEF Init
<1>2. \A c \in Calls : HeldOK(c)
  BY <1>1 DEF HeldOK, Claimed, ClaimedAt, Revocable, RevocableAt, Rereads
<1>3. \A c, d \in Calls : Apart(c, d)
  BY <1>1 DEF Apart, RequestOps, JobOps
<1> QED BY ZenonT(60), <1>2, <1>3 DEF Init, Held, AckedIsFinal

LEMMA HeldHolds ==
  ASSUME Quiet
  PROVE  Spec => [](Base /\ Held)
<1>1. Init => Base /\ Held
  BY InitBase, InitHeld
<1>2. Base /\ Held /\ [Next]_vars => (Base /\ Held)'
  BY BaseStep, HeldStep
<1> QED BY <1>1, <1>2, PTL DEF Spec

\* What a signer was told complete stays true, with any number of requests at once and
\* any number of failed awaits and crashes, as long as no recovery job runs among them.
THEOREM AckedFinal ==
  ASSUME Quiet
  PROVE  Spec => []AckedIsFinal
<1>1. Held => AckedIsFinal
  BY ZenonT(60) DEF Held
<1> QED BY <1>1, HeldHolds, PTL

\* revertEscrowStatus never takes back what was announced, under the same condition.
THEOREM AnnouncedFinal ==
  ASSUME Quiet
  PROVE  Spec => []AnnouncedIsFinal
<1>1. Held => AnnouncedIsFinal
  BY DEF Held, AnnouncedIsFinal
<1> QED BY <1>1, HeldHolds, PTL

-----------------------------------------------------------------------------
(* What is announced is what the network took.                             *)

Spoken == AnnouncedIsTrue /\ (events # {} => spent # 0)

LEMMA SpokenStays ==
  ASSUME Base, Grow, Spoken, UNCHANGED <<events, obligation>>
  PROVE  Spoken'
<1>1. ASSUME spent # 0 PROVE spent' = spent /\ rows'[spent].kind = rows[spent].kind
  BY <1>1 DEF Base, Types, Grow
<1>2. CASE spent = 0
  BY ZenonT(60), <1>2 DEF Spoken, AnnouncedIsTrue
<1>3. CASE spent # 0
  BY ZenonT(60), <1>1, <1>3 DEF Spoken, AnnouncedIsTrue
<1> QED BY ZenonT(60), <1>2, <1>3

LEMMA SpokenStep ==
  ASSUME Jobs = {}, Base, Spoken, [Next]_vars
  PROVE  Spoken'
<1>1. Grow
  BY GrowStep
<1>2. ASSUME NEW c \in Calls, RecordObligation(c) \/ EmitTransition(c) PROVE Spoken'
  <2>1. /\ UNCHANGED <<rows, spent>> /\ call[c].op \in SettleOps /\ call[c].pc \in {"obligation", "emit"}
        /\ obligation' \in {obligation, call[c].kind}
        /\ \/ UNCHANGED events
           \/ events' = events \cup {[status |-> Target(call[c].kind), tx |-> call[c].id]}
    BY ZenonT(60), <1>2, EffectSteps
  <2>2. call[c].op \in RowOps
    BY ZenonT(60), <2>1, IdleSlots DEF SettleOps, JobOps
  <2>3. call[c].pc # "pending" /\ call[c].pc \in Effects
    BY <2>1 DEF Effects
  <2>4. call[c].id \in 1..Len(rows) /\ call[c].kind = rows[call[c].id].kind /\ spent = call[c].id
    BY ZenonT(60), <2>2, <2>3, RowOfCall DEF Base, CallOK, RowOK
  <2>5. spent # 0
    BY <2>4
  <2>6. obligation' # "none" => obligation' = rows[spent].kind
    BY ZenonT(60), <2>1, <2>4 DEF Spoken, AnnouncedIsTrue
  <2> DEFINE n == [status |-> Target(call[c].kind), tx |-> call[c].id]
  <2>7. n.status = Target(rows[spent].kind) /\ n.tx = spent
    BY <2>4
  <2> HIDE DEF n
  <2>8. \A e \in events' : e.tx = spent /\ e.status = Target(rows[spent].kind)
    BY ZenonT(60), <2>1, <2>7 DEF Spoken, AnnouncedIsTrue, n
  <2> QED BY ZenonT(60), <2>1, <2>5, <2>6, <2>8 DEF Spoken, AnnouncedIsTrue
<1>3. ASSUME NEW c \in Calls, SettleStep(c)
      PROVE  RecordObligation(c) \/ EmitTransition(c) \/ UNCHANGED <<events, obligation>>
  BY ZenonT(60), <1>3, ReadSteps, SignSteps, GateSteps, AskStep, ClaimStep, BroadcastStep,
     ResultStep, DeleteStep, RevertStep DEF SettleStep
<1>4. ASSUME NEW c \in Calls, ForeignStep(c) \/ Fault(c) PROVE UNCHANGED <<events, obligation>>
  BY ZenonT(60), <1>4, ForeignOps, FaultStep
<1>5. UNCHANGED vars => UNCHANGED <<events, obligation>>
  BY DEF vars, effectVars
<1>6. \/ UNCHANGED <<events, obligation>>
      \/ \E c \in Calls : RecordObligation(c) \/ EmitTransition(c)
  BY ZenonT(60), <1>3, <1>4, <1>5, OtherKeeps, RequestFrame, JobFrame, StepSplit DEF Next
<1> QED BY ZenonT(60), <1>1, <1>2, <1>6, SpokenStays

\* Events and fee obligations are about the transaction that moved the money, where no
\* recovery job completes settlements from the status alone.
THEOREM AnnouncedTruly ==
  ASSUME Jobs = {}
  PROVE  Spec => []AnnouncedIsTrue
<1>1. Init => Base /\ Spoken
  <2>1. Init => Spoken
    BY DEF Init, Spoken, AnnouncedIsTrue
  <2> QED BY ZenonT(60), <2>1, InitBase
<1>2. Base /\ Spoken /\ [Next]_vars => (Base /\ Spoken)'
  BY BaseStep, SpokenStep
<1>3. Spoken => AnnouncedIsTrue
  BY ZenonT(60) DEF Spoken
<1> QED BY <1>1, <1>2, <1>3, PTL DEF Spec

-----------------------------------------------------------------------------
(* Solo: with one call at a time no job broadcasts what no gate let through. *)

LEMMA AuthorisedStays ==
  ASSUME Base, Grow, NEW i \in 1..Len(rows), Authorised(i)
  PROVE  AuthorisedThen(i)
BY DEF Authorised, Ruled, AuthorisedThen, RuledThen, Grow

LEMMA WaitKept ==
  ASSUME Base, Grow, WaitOK,
         status' = status \/ status' \notin TerminalStatuses, live' \in {0, live}
  PROVE  WaitOK'
<1> SUFFICES ASSUME status' \in TerminalStatuses, tx' = 0, live' # 0
             PROVE  AuthorisedThen(live')
  BY DEF WaitOK, AuthorisedThen, RuledThen, Authorised, Ruled
<1>1. status \in TerminalStatuses /\ tx = 0 /\ live # 0 /\ live' = live
  BY DEF Grow
<1>2. Authorised(live) /\ live \in 1..Len(rows)
  BY <1>1 DEF WaitOK, Base, Types
<1> QED BY <1>1, <1>2, AuthorisedStays

\* Call c moves and no other call is at work.
LEMMA SoloBy ==
  ASSUME Base, NEW c \in Calls, Only(c), \A d \in Calls : d # c => call[d].op = "none",
         LiveOK(c)', WaitOK'
  PROVE  Solo'
<1>1. ASSUME NEW d \in Calls, d # c PROVE call'[d].op = "none" /\ LiveOK(d)'
  <2>1. call'[d] = call[d] /\ call[d].op = "none" /\ call[d].pc = "idle"
    BY ZenonT(60), <1>1, IdleSlots DEF Only, At
  <2> QED BY <2>1 DEF LiveOK, RowOps, Dispatching
<1> QED BY ZenonT(60), <1>1 DEF Solo

LEMMA SoloOthers ==
  ASSUME Solo, NEW c \in Calls, call[c].op # "none"
  PROVE  \A d \in Calls : d # c => call[d].op = "none"
BY ZenonT(60) DEF Solo

\* The call ends, or moves on with the row it has.
Sedate(c) ==
  \/ call'[c] = Idle
  \/ \E p : /\ Went(c, p) /\ p \notin Dispatching \cup {"pending"}
            /\ call[c].op \in RowOps => call[c].pc # "pending"
            /\ call[c].op = "terminal" /\ p \in {"ask", "broadcast"} => call[c].pc = "ask"

LEMMA IdleLive ==
  ASSUME NEW c, call'[c] = Idle
  PROVE  LiveOK(c)'
BY IdleRec DEF LiveOK, RowOps, Dispatching

LEMMA SoloSedate ==
  ASSUME Base, Solo, Grow, NEW c \in Calls, call[c].op # "none", Only(c), Sedate(c),
         UNCHANGED <<status, live>>
  PROVE  Solo'
<1>1. ASSUME NEW p, Went(c, p), p \notin Dispatching \cup {"pending"},
             call[c].op \in RowOps => call[c].pc # "pending",
             call[c].op = "terminal" /\ p \in {"ask", "broadcast"} => call[c].pc = "ask"
      PROVE  LiveOK(c)'
  <2>1. LiveOK(c) /\ (call[c].op \in RowOps => call[c].id \in 1..Len(rows))
    BY ZenonT(60), <1>1, RowOfCall DEF Solo
  <2>2. ASSUME call[c].op = "terminal", p \in {"ask", "broadcast"} PROVE AuthorisedThen(call[c].id)
    <3>1. Authorised(call[c].id) /\ call[c].id \in 1..Len(rows)
      BY ZenonT(60), <1>1, <2>1, <2>2 DEF LiveOK, RowOps
    <3> QED BY ZenonT(60), <3>1, AuthorisedStays
  <2>3. call'[c].op = "terminal" /\ call'[c].pc \in {"ask", "broadcast"} => Authorised(call[c].id)'
    BY ZenonT(60), <1>1, <2>2 DEF Went, AuthorisedThen, RuledThen, Authorised, Ruled
  <2>4. /\ call'[c].op = call[c].op /\ call'[c].id = call[c].id /\ call'[c].pc = p
        /\ p # "pending" /\ p \notin Dispatching
    BY ZenonT(60), <1>1 DEF Went
  <2> QED BY ZenonT(60), <1>1, <2>1, <2>3, <2>4 DEF LiveOK
<1>2. LiveOK(c)'
  BY ZenonT(60), <1>1, IdleLive DEF Sedate
<1>3. WaitOK'
  BY WaitKept DEF Solo
<1> QED BY ZenonT(60), <1>2, <1>3, SoloOthers, SoloBy

LEMMA ForeignSolo ==
  ASSUME Base, Solo, NEW c \in Calls, ForeignStep(c)
  PROVE  Solo'
<1>1. Foreign(c) /\ Grow /\ UNCHANGED status
  BY ZenonT(60), ForeignKeepsBase, ForeignGrows, ForeignOps
<1>2. Only(c) /\ call[c].op # "none" /\ call'[c].op \notin RowOps
  BY ZenonT(60), <1>1 DEF Foreign, SettleOps, RowOps
<1>3. ASSUME call'[c].pc \notin Dispatching \ {"core"} PROVE LiveOK(c)'
  BY <1>2, <1>3 DEF LiveOK, RowOps
<1>4. LiveOK(c)' /\ WaitOK'
  <2>1. CASE ReadForInitiate(c) \/ CheckAuthority(c) \/ CheckExisting(c)
    <3>1. /\ UNCHANGED live
          /\ call'[c].pc \in {"idle", "unrule", "authority", "exists", "create"}
          /\ call'[c].pc = "authority" => VALID_TRANSITIONS[status] # {}
          /\ call'[c].pc = "exists" => call[c].pc = "authority"
          /\ call'[c].pc = "create" => call[c].pc = "exists"
      BY ZenonT(60), <2>1, InitiateSteps
    <3>2. LiveOK(c) /\ WaitOK
      BY ZenonT(60) DEF Solo
    <3>3. call'[c].pc \in Dispatching \ {"core"} => status \notin TerminalStatuses
      BY ZenonT(60), <3>1, <3>2, TerminalEnds DEF LiveOK, Dispatching
    <3>4. LiveOK(c)'
      BY ZenonT(60), <1>1, <1>2, <3>3 DEF LiveOK, RowOps
    <3> QED BY ZenonT(60), <1>1, <3>1, <3>2, <3>4, WaitKept
  <2>2. CASE CreatePending(c)
    <3>1. call[c].pc = "create" /\ LiveOK(c)
      BY ZenonT(60), <2>2 DEF CreatePending, At, Solo
    <3>2. WaitOK'
      BY ZenonT(60), <1>1, <3>1 DEF LiveOK, Dispatching, WaitOK
    <3>3. call'[c].pc \notin Dispatching \ {"core"}
      BY ZenonT(60), <2>2, CreateStep DEF Dispatching
    <3> QED BY ZenonT(60), <1>3, <3>2, <3>3
  <2>3. CASE \/ CreateDispute(c) \/ AssignArbiter(c) \/ CommitRuling(c) \/ Dispatch(c)
             \/ TranslationGuard(c) \/ RevertRuling(c) \/ RevertRecord(c) \/ CommitAppeal(c)
             \/ DeleteStale(c)
    <3>1. live' \in {0, live} /\ call'[c].pc \notin Dispatching \ {"core"} /\ WaitOK
      BY ZenonT(60), <2>3, RulingSteps DEF Solo
    <3> QED BY ZenonT(60), <1>1, <1>3, <3>1, WaitKept
  <2> QED BY ZenonT(60), <2>1, <2>2, <2>3 DEF ForeignStep
<1> QED BY ZenonT(60), <1>2, <1>4, SoloOthers, SoloBy

LEMMA FaultSolo ==
  ASSUME Base, Solo, NEW c \in Calls, Fault(c)
  PROVE  Solo'
<1>1. /\ Only(c) /\ Grow /\ UNCHANGED <<status, live>> /\ call[c].op # "none"
      /\ \/ call'[c] = Idle
         \/ call[c].op = "sign" /\ call[c].pc \in InTry /\ Went(c, "revert")
         \/ call[c].op = "resolve" /\ Went(c, "unrule")
  BY ZenonT(60), SettleGrows, FaultStep
<1>2. /\ "revert" \notin Dispatching \cup {"pending", "ask", "broadcast"}
      /\ "unrule" \notin Dispatching \cup {"pending", "ask", "broadcast"}
      /\ "pending" \notin InTry /\ "resolve" \notin RowOps
  BY DEF Dispatching, InTry, RowOps
<1>3. Sedate(c)
  BY ZenonT(60), <1>1, <1>2 DEF Sedate
<1> QED BY ZenonT(60), <1>1, <1>3, SoloSedate

LEMMA SedateSteps ==
  ASSUME Base, NEW c \in Calls,
         \/ UpsertSignature(c) \/ ReadSignatures(c)
         \/ AuthorizeDisputed(c) \/ AuthorizeCapability(c) \/ AskChain(c)
         \/ Broadcast(c) \/ RecordResult(c) \/ RecordObligation(c) \/ EmitTransition(c)
  PROVE  Sedate(c) /\ Only(c) /\ UNCHANGED <<status, live>> /\ call[c].op # "none"
<1> DEFINE Ps == {"signatures", "economic", "capability", "claim", "result", "revert", "obligation",
                  "emit", "delete"}
<1>1. \A p \in Ps \cup {"broadcast"} : p \notin Dispatching \cup {"pending"} /\ p # "ask"
  BY DEF Dispatching
<1>0. \A p \in Ps : p # "broadcast"
  OBVIOUS
<1>2. /\ Only(c) /\ UNCHANGED <<status, live>>
      /\ \/ call'[c] = Idle
         \/ \E p \in Ps \cup {"broadcast"} :
               /\ Went(c, p) /\ (p = "broadcast" => call[c].pc = "ask" \/ call[c].op # "terminal")
  <2>1. CASE UpsertSignature(c) \/ ReadSignatures(c)
    BY ZenonT(60), <2>1, SignSteps
  <2>2. CASE AuthorizeDisputed(c) \/ AuthorizeCapability(c)
    <3>1. /\ Only(c) /\ UNCHANGED <<status, live>> /\ call[c].op \in {"sign", "unclaimed"}
          /\ call'[c] = Idle \/ \E p \in {"capability", AfterGates(c)} : Went(c, p)
      BY ZenonT(60), <2>2, GateSteps
    <3>2. {"capability", AfterGates(c)} \subseteq Ps \cup {"broadcast"} /\ call[c].op # "terminal"
      BY <3>1 DEF AfterGates
    <3> QED BY ZenonT(60), <3>1, <3>2
  <2>3. CASE AskChain(c)
    BY ZenonT(60), <2>3, AskStep
  <2>4. CASE Broadcast(c)
    <3>1. AfterBroadcast(c) \in {"claim", "result"} /\ "revert" # "broadcast"
      BY DEF AfterBroadcast
    <3>2. /\ Only(c) /\ UNCHANGED <<status, live>>
          /\ call'[c] = Idle \/ \E p \in {"revert", "claim", "result"} : Went(c, p)
      BY ZenonT(60), <2>4, <3>1, BroadcastStep
    <3> QED BY ZenonT(60), <3>2
  <2>5. CASE RecordResult(c)
    BY ZenonT(60), <1>0, <2>5, ResultStep
  <2>6. CASE RecordObligation(c) \/ EmitTransition(c)
    BY ZenonT(60), <1>0, <2>6, EffectSteps
  <2> QED BY ZenonT(60), <2>1, <2>2, <2>3, <2>4, <2>5, <2>6
<1>3. call[c].op \in SettleOps /\ call[c].pc # "pending"
  <2>1. call[c].pc \in {"upsert", "signatures", "economic", "capability", "ask", "broadcast", "result",
                        "obligation", "emit"}
    BY ZenonT(60) DEF UpsertSignature, ReadSignatures, AuthorizeDisputed, AuthorizeCapability, AskChain,
       Broadcast, RecordResult, RecordObligation, EmitTransition, At
  <2>2. Life(call[c].pc, call[c].op)
    BY ZenonT(60) DEF Base, CallOK, LifeOK
  <2> QED BY ZenonT(60), <2>1, <2>2 DEF Life, SettleOps, RowOps, Effects
<1>4. call[c].op # "none"
  BY <1>3 DEF SettleOps, RowOps
<1>5. Sedate(c)
  BY ZenonT(60), <1>1, <1>2, <1>3 DEF Sedate
<1> QED BY ZenonT(60), <1>2, <1>4, <1>5

LEMMA ReadSolo ==
  ASSUME Base, Solo, NEW c \in Calls, ReadPending(c) \/ ReadTerminalPending(c)
  PROVE  Solo'
<1>1. /\ Only(c) /\ Grow /\ UNCHANGED <<status, tx, rows, live, econ, capa>>
      /\ call[c].pc = "pending" /\ call[c].op \in {"sign", "terminal"}
      /\ \/ call'[c] = Idle
         \/ call[c].op = "sign" /\ Reads(c, "upsert")
         \/ call[c].op = "terminal" /\ Reads(c, "ask")
  BY ZenonT(60), ReadSteps, SettleGrows DEF SettleStep
<1>2. LiveOK(c) /\ WaitOK
  BY ZenonT(60) DEF Solo
<1>3. WaitOK'
  BY ZenonT(60), <1>1, <1>2, WaitKept
<1>4. ASSUME call[c].op = "sign", Reads(c, "upsert") PROVE LiveOK(c)'
  BY ZenonT(60), <1>1, <1>4 DEF Reads, LiveOK, RowOps, Dispatching
<1>5. ASSUME call[c].op = "terminal", Reads(c, "ask") PROVE LiveOK(c)'
  <2>0. live \in 1..Len(rows)
    BY ZenonT(60), <1>5 DEF Reads
  <2>3. live # 0
    BY <2>0
  <2>1. Authorised(live)
    BY ZenonT(60), <1>1, <1>2, <1>5, <2>3 DEF LiveOK, WaitOK
  <2>2. Authorised(call[c].id)'
    BY ZenonT(60), <1>1, <1>5, <2>1 DEF Reads, Authorised, Ruled
  <2> QED BY ZenonT(60), <1>1, <1>5, <2>2 DEF Reads, LiveOK, RowOps, Dispatching
<1>6. LiveOK(c)' /\ call[c].op # "none"
  <2>1. call[c].op # "none"
    BY ZenonT(60), <1>1
  <2> QED BY ZenonT(60), <1>1, <1>4, <1>5, <2>1, IdleLive
<1> QED BY ZenonT(60), <1>1, <1>3, <1>6, SoloOthers, SoloBy

LEMMA ClaimSolo ==
  ASSUME Base, Solo, ExecutedUnderAuthority, NEW c \in Calls, ClaimTerminal(c)
  PROVE  Solo'
<1> DEFINE p == IF call[c].op = "sign" THEN "broadcast" ELSE "result"
<1>1. /\ Only(c) /\ Grow /\ UNCHANGED <<tx, rows, live, econ, capa>>
      /\ call[c].op \in {"sign", "unclaimed"} /\ call[c].pc = "claim"
      /\ (call'[c] = Idle /\ UNCHANGED status) \/ Went(c, p)
  BY ZenonT(60), ClaimStep, SettleGrows DEF SettleStep
<1>2. call[c].op \in RowOps /\ call[c].op # "terminal" /\ call[c].pc # "pending" /\ call[c].op # "none"
  BY <1>1 DEF RowOps
<1>3. LiveOK(c) /\ WaitOK /\ GateOK(c) /\ RowOK(c) /\ call[c].id \in 1..Len(rows)
  BY ZenonT(60), <1>2, RowOfCall DEF Solo, Base, CallOK
<1>4. Authorised(call[c].id)
  <2>1. CASE call[c].op = "sign"
    BY ZenonT(60), <1>1, <1>3, <2>1 DEF GateOK
  <2>2. CASE call[c].op = "unclaimed"
    <3>1. call[c].id # 0
      BY <1>3
    <3>2. spent = call[c].id
      BY ZenonT(60), <1>1, <1>3, <2>2 DEF RowOK
    <3> QED BY ZenonT(60), <3>1, <3>2 DEF ExecutedUnderAuthority, Authorised, Ruled
  <2> QED BY ZenonT(60), <1>1, <2>1, <2>2
<1>5. ASSUME call'[c] = Idle, UNCHANGED status PROVE LiveOK(c)' /\ WaitOK'
  BY ZenonT(60), <1>1, <1>3, <1>5, IdleLive, WaitKept
<1>6. ASSUME Went(c, p) PROVE LiveOK(c)' /\ WaitOK'
  <2>1. live = call[c].id
    BY ZenonT(60), <1>2, <1>3 DEF LiveOK
  <2>2. WaitOK'
    BY ZenonT(60), <1>1, <1>4, <2>1 DEF WaitOK, Authorised, Ruled
  <2>3. p \notin Dispatching \cup {"pending"}
    BY DEF Dispatching
  <2>4. LiveOK(c)'
    BY ZenonT(60), <1>1, <1>2, <1>6, <2>1, <2>3 DEF Went, LiveOK
  <2> QED BY <2>2, <2>4
<1> QED BY ZenonT(60), <1>1, <1>2, <1>5, <1>6, SoloOthers, SoloBy

LEMMA SettleSolo ==
  ASSUME Base, Solo, ExecutedUnderAuthority, NEW c \in Calls, SettleStep(c)
  PROVE  Solo'
<1>1. Grow
  BY ZenonT(60), SettleGrows
<1>2. CASE DeletePending(c)
  <2>1. /\ Only(c) /\ call'[c] = Idle /\ UNCHANGED status /\ live' \in {0, live}
        /\ call[c].op \in SettleOps
    BY ZenonT(60), <1>2, DeleteStep
  <2>2. call[c].op # "none"
    BY <2>1 DEF SettleOps, RowOps
  <2>3. LiveOK(c)' /\ WaitOK'
    BY ZenonT(60), <1>1, <2>1, IdleLive, WaitKept DEF Solo
  <2> QED BY ZenonT(60), <2>1, <2>2, <2>3, SoloOthers, SoloBy
<1>3. CASE RevertClaim(c)
  <2>1. /\ Only(c) /\ call'[c] = Idle /\ UNCHANGED <<tx, rows, live, econ, capa>>
        /\ call[c].op = "sign" /\ call[c].pc = "revert"
    BY ZenonT(60), <1>3, RevertStep
  <2>2. call[c].op # "none" /\ call[c].op \in RowOps /\ call[c].pc # "pending"
    BY ZenonT(60), <2>1 DEF RowOps
  <2>3. Authorised(call[c].id) /\ live = call[c].id
    BY ZenonT(60), <2>1, <2>2 DEF Solo, LiveOK, Base, CallOK, GateOK
  <2>4. WaitOK'
    BY ZenonT(60), <2>1, <2>3 DEF WaitOK, Authorised, Ruled
  <2> QED BY ZenonT(60), <2>1, <2>2, <2>4, IdleLive, SoloOthers, SoloBy
<1>4. CASE \/ UpsertSignature(c) \/ ReadSignatures(c)
           \/ AuthorizeDisputed(c) \/ AuthorizeCapability(c) \/ AskChain(c)
           \/ Broadcast(c) \/ RecordResult(c) \/ RecordObligation(c) \/ EmitTransition(c)
  BY ZenonT(60), <1>1, <1>4, SedateSteps, SoloSedate
<1> QED BY ZenonT(60), <1>2, <1>3, <1>4, ReadSolo, ClaimSolo DEF SettleStep

\* A call starts on an idle slot, and only there.
LEMMA StartSolo ==
  ASSUME OneAtATime, Base, NEW c \in Calls,
         (c \in Requests /\ AllIdle(Jobs)) \/ (c \in Jobs /\ AllIdle(Requests))
  PROVE  \A d \in Calls : d # c => call[d].op = "none"
BY ZenonT(60), IdleSlots DEF OneAtATime, AllIdle, Calls

LEMMA RequestSolo ==
  ASSUME OneAtATime, Base, Solo, NEW c \in Requests, Request(c)
  PROVE  Solo'
<1>1. /\ RequestStart(c) /\ Base' /\ UNCHANGED <<tx, rows, live, spent, econ, capa>>
      /\ status' = status \/ status' = "DISPUTED"
      /\ AllIdle(Jobs) /\ c \in Calls
  BY ZenonT(60), RequestBase, RequestFrame DEF Calls, OneAtATime
<1>2. Grow /\ "DISPUTED" \notin TerminalStatuses
  BY ZenonT(60), <1>1, SameGrow DEF TerminalStatuses
<1>3. WaitOK'
  BY ZenonT(60), <1>1, <1>2, WaitKept DEF Solo
<1>4. LiveOK(c)'
  BY ZenonT(60), <1>1 DEF RequestStart, RequestOps, LiveOK, RowOps
<1>5. Only(c)
  BY ZenonT(60), <1>1 DEF RequestStart
<1>6. \A d \in Calls : d # c => call[d].op = "none"
  BY ZenonT(60), <1>1, StartSolo
<1> QED BY ZenonT(60), <1>1, <1>3, <1>4, <1>5, <1>6, SoloBy

LEMMA JobSolo ==
  ASSUME OneAtATime, Base, Solo, NEW c \in Jobs, Job(c)
  PROVE  Solo'
<1>1. /\ JobStart(c) /\ Base' /\ UNCHANGED <<status, tx, rows, live, spent, econ, capa>>
      /\ AllIdle(Requests) /\ c \in Calls
  BY ZenonT(60), JobBase, JobFrame DEF Calls, OneAtATime
<1>2. Grow
  BY ZenonT(60), <1>1, SameGrow
<1>3. WaitOK'
  BY ZenonT(60), <1>1, <1>2, WaitKept DEF Solo
<1>4. LiveOK(c)'
  BY ZenonT(60), <1>1 DEF JobStart, JobOps, LiveOK, RowOps
<1>5. Only(c)
  BY ZenonT(60), <1>1 DEF JobStart
<1>6. \A d \in Calls : d # c => call[d].op = "none"
  BY ZenonT(60), <1>1, StartSolo
<1> QED BY ZenonT(60), <1>1, <1>3, <1>4, <1>5, <1>6, SoloBy

\* No call moves; the status does only between statuses that are not terminal.
LEMMA StillSolo ==
  ASSUME Base, Solo, UNCHANGED <<tx, rows, live, spent, econ, capa, call>>,
         status' = status \/ (status \notin TerminalStatuses /\ status' \notin TerminalStatuses)
  PROVE  Solo'
<1>1. Grow
  BY ZenonT(60), SameGrow
<1>2. WaitOK'
  BY ZenonT(60), <1>1, WaitKept DEF Solo
<1>3. \A c \in Calls : LiveOK(c)'
  BY ZenonT(60) DEF Solo, LiveOK, Authorised, Ruled
<1> QED BY ZenonT(60), <1>2, <1>3 DEF Solo

LEMMA SoloStep ==
  ASSUME OneAtATime, Base, Solo, ExecutedUnderAuthority, [Next]_vars
  PROVE  Solo'
<1>1. CASE UNCHANGED vars
  <2>1. UNCHANGED <<tx, rows, live, spent, econ, capa, call, status>>
    BY <1>1 DEF vars, escrowVars, rowVars, gateVars, effectVars
  <2> QED BY ZenonT(60), <2>1, StillSolo
<1>2. CASE Other
  <2>1. {"FUNDS_LOCKED", "PAYMENT_PENDING", "EXPIRED"} \cap TerminalStatuses = {}
    BY DEF TerminalStatuses
  <2> QED BY ZenonT(60), <1>2, <2>1, OtherKeeps, StillSolo
<1>3. ASSUME NEW c \in Calls, Step(c) \/ Fault(c) PROVE Solo'
  BY ZenonT(60), <1>3, StepSplit, ForeignSolo, SettleSolo, FaultSolo
<1> QED BY ZenonT(60), <1>1, <1>2, <1>3, RequestSolo, JobSolo DEF Next

LEMMA InitSolo == Init => Solo
<1> SUFFICES ASSUME Init PROVE Solo
  OBVIOUS
<1>1. \A c \in Calls : call[c].op = "none" /\ call[c].pc = "idle"
  BY ZenonT(60), IdleRec DEF Init
<1>2. \A c \in Calls : LiveOK(c)
  BY ZenonT(60), <1>1 DEF LiveOK, RowOps, Dispatching
<1>3. WaitOK
  BY DEF Init, WaitOK
<1> QED BY ZenonT(60), <1>1, <1>2, <1>3 DEF Solo

LEMMA SoloAuthority ==
  ASSUME OneAtATime
  PROVE  Spec => []ExecutedUnderAuthority
<1>1. Init => Base /\ Solo /\ ExecutedUnderAuthority
  BY InitBase, InitSolo, InitAuthority
<1>2. Base /\ Solo /\ ExecutedUnderAuthority /\ [Next]_vars => (Base /\ Solo /\ ExecutedUnderAuthority)'
  <2> SUFFICES ASSUME Base, Solo, ExecutedUnderAuthority, [Next]_vars
               PROVE  Base' /\ Solo' /\ ExecutedUnderAuthority'
    BY ZenonT(60)
  <2>1. \A c \in Calls : call[c].op = "terminal" /\ call[c].pc = "broadcast" => Authorised(call[c].id)
    BY ZenonT(60) DEF Solo, LiveOK
  <2> QED BY ZenonT(60), <2>1, BaseStep, SoloStep, AuthorityStep
<1> QED BY <1>1, <1>2, PTL DEF Spec

LEMMA GatedAuthority ==
  ASSUME Gated
  PROVE  Spec => []ExecutedUnderAuthority
<1>1. Init => Base /\ ExecutedUnderAuthority
  BY InitBase, InitAuthority
<1>2. Base /\ ExecutedUnderAuthority /\ [Next]_vars => (Base /\ ExecutedUnderAuthority)'
  BY BaseStep, GatedStep
<1> QED BY <1>1, <1>2, PTL DEF Spec

\* No transaction reaches the network before both commit gates authorised its row: with
\* any number of overlapping requests where no recovery job may broadcast (the rail is not
\* MULTISIG, or no job runs), and with the jobs where one call runs at a time.
THEOREM GatesFirst ==
  ASSUME Gated \/ OneAtATime
  PROVE  Spec => []ExecutedUnderAuthority
BY SoloAuthority, GatedAuthority

=============================================================================
