------------------------- MODULE FeeCollectionProofs ------------------------
(***************************************************************************)
(* Theorems about FeeCollection, for any number of settlers, sweeps,       *)
(* callers of allocate() and reverseGeneration(), any policies, and a      *)
(* chain of any height that reorganizes at any depth: what is allocated    *)
(* follows the frozen policy; and, with one reorg sweep at a time, a       *)
(* confirmation is recognized once and entitlements are backed or reported.*)
(***************************************************************************)
EXTENDS FeeCollection, TLAPS

\* Every leaf that names no prover is tried with SMT, with Zenon and with SMT again.
USE SMTT(60), ZenonT(30), SMTT(61), SMTT(62)

Kinds == {"BROADCAST", "CONFIRMED", "REORGED_OUT"}
Rows == [kind : Kinds, height : Nat, policy : Policies \cup {None}]
JobRec == [pc : PCs, at : Nat, saw : CollectionStatuses \cup Policies \cup {None}, gen : Nat,
           todo : Seq(Recipients)]

Types ==
  /\ status \in CollectionStatuses
  /\ evidence \in Seq(Rows)
  /\ job \in [Callers -> JobRec]
  /\ tip \in Nat /\ mined \in Nat

\* What a caller learned before its last await still holds.
JobKnows(c) ==
  /\ job[c].pc = "allocate" => Generations # {}
  /\ job[c].pc = "confirm" => job[c].saw \in Policies \cup {None}
  /\ job[c].pc = "reverse" => job[c].gen \in DOMAIN evidence /\ job[c].todo # <<>>

\* The last CONFIRMED row exists when it is asked for.
LastGeneration ==
  /\ status = "COLLECTED" => Generations # {}
  /\ Generations # {} => \E m \in Generations : \A g \in Generations : m >= g

Inv ==
  /\ Types /\ LastGeneration
  /\ \A c \in Callers : JobKnows(c)
  /\ \A e \in ledger : e[1] \in DOMAIN evidence
  /\ AllocatedAsFrozen

-----------------------------------------------------------------------------
(* The chain and the evidence.                                             *)

LEMMA Recorded ==
  ASSUME evidence \in Seq(Rows), NEW row \in Rows, evidence' = Append(evidence, row)
  PROVE  /\ evidence' \in Seq(Rows) /\ Len(evidence) \in Nat
         /\ DOMAIN evidence = 1..Len(evidence) /\ DOMAIN evidence' = 1..(Len(evidence) + 1)
         /\ \A i \in DOMAIN evidence : evidence'[i] = evidence[i]
         /\ evidence'[Len(evidence) + 1] = row
OBVIOUS

\* Evidence is only added to: a row that is no CONFIRMED one adds no generation.
LEMMA RecordedGenerations ==
  ASSUME evidence \in Seq(Rows), NEW row \in Rows, evidence' = Append(evidence, row)
  PROVE  /\ row.kind # "CONFIRMED" => Generations' = Generations
         /\ row.kind = "CONFIRMED" => Generations' = Generations \cup {Len(evidence) + 1}
         /\ \A g \in Generations : g \in Nat /\ g <= Len(evidence)
<1>1. /\ Len(evidence) \in Nat
      /\ DOMAIN evidence = 1..Len(evidence) /\ DOMAIN evidence' = 1..(Len(evidence) + 1)
      /\ \A i \in DOMAIN evidence : evidence'[i] = evidence[i]
      /\ evidence'[Len(evidence) + 1] = row
  BY Recorded
<1>2. DOMAIN evidence' = DOMAIN evidence \cup {Len(evidence) + 1}
  BY <1>1
<1>3. \A i : i \in Generations' <=>
         i \in Generations \/ (i = Len(evidence) + 1 /\ row.kind = "CONFIRMED")
  BY <1>1, <1>2 DEF Generations
<1> QED BY <1>1, <1>3 DEF Generations

LEMMA LastIsMax ==
  ASSUME LastGeneration, Types, Generations # {}
  PROVE  Max(Generations) \in Generations /\ \A g \in Generations : Max(Generations) >= g
BY DEF LastGeneration, Max

LEMMA LivePolicyType == LivePolicy \in Policies \cup {None}
BY DEF LivePolicy

-----------------------------------------------------------------------------
(* What the steps of a caller do to it.                                    *)

\* The step is one of caller c.
Only(c) == \A d \in Callers \ {c} : job'[d] = job[d]

LEMMA JobEffects ==
  ASSUME Types, NEW c \in Callers
  PROVE  /\ \A p \in PCs : Goto(c, p) =>
              /\ job' \in [Callers -> JobRec] /\ Only(c)
              /\ job'[c].pc = p /\ job'[c].saw = job[c].saw
         /\ \A p \in PCs, h \in Nat : Learn(c, p, h) =>
              job' \in [Callers -> JobRec] /\ Only(c) /\ job'[c].pc = p
         /\ \A p \in PCs, w \in CollectionStatuses \cup Policies \cup {None} : Recall(c, p, w) =>
              job' \in [Callers -> JobRec] /\ Only(c) /\ job'[c].pc = p /\ job'[c].saw = w
         /\ End(c) => job' \in [Callers -> JobRec] /\ Only(c) /\ job'[c].pc = "idle"
         /\ Finish(c) => job' \in [Callers -> JobRec] /\ Only(c) /\ job'[c].pc = "done"
<1>1. job \in [Callers -> JobRec] /\ job[c] \in JobRec
  BY DEF Types
<1>2. Idle \in JobRec /\ Idle.pc = "idle"
  <2>1. <<>> \in Seq(Recipients) /\ "idle" \in PCs /\ 0 \in Nat
    BY DEF PCs
  <2> QED BY <2>1 DEF Idle, JobRec
<1>3. [Idle EXCEPT !.pc = "done"] \in JobRec /\ [Idle EXCEPT !.pc = "done"].pc = "done"
  BY <1>2 DEF JobRec, PCs
<1>4. ASSUME NEW p \in PCs, Goto(c, p)
      PROVE  job' \in [Callers -> JobRec] /\ Only(c) /\ job'[c].pc = p /\ job'[c].saw = job[c].saw
  BY ZenonT(60), <1>1, <1>4 DEF Goto, Only, JobRec
<1>5. ASSUME NEW p \in PCs, NEW h \in Nat, Learn(c, p, h)
      PROVE  job' \in [Callers -> JobRec] /\ Only(c) /\ job'[c].pc = p
  BY ZenonT(60), <1>1, <1>5 DEF Learn, Only, JobRec
<1>6. ASSUME NEW p \in PCs, NEW w \in CollectionStatuses \cup Policies \cup {None}, Recall(c, p, w)
      PROVE  job' \in [Callers -> JobRec] /\ Only(c) /\ job'[c].pc = p /\ job'[c].saw = w
  BY ZenonT(60), <1>1, <1>6 DEF Recall, Only, JobRec
<1>7. ASSUME End(c) PROVE job' \in [Callers -> JobRec] /\ Only(c) /\ job'[c].pc = "idle"
  BY <1>1, <1>2, <1>7 DEF End, Only
<1>8. ASSUME Finish(c) PROVE job' \in [Callers -> JobRec] /\ Only(c) /\ job'[c].pc = "done"
  BY <1>1, <1>3, <1>8 DEF Finish, Only
<1> QED BY <1>4, <1>5, <1>6, <1>7, <1>8

-----------------------------------------------------------------------------
(* How a step frames the invariant.                                        *)

LEMMA InitInv == Init => Inv
<1> SUFFICES ASSUME Init PROVE Inv
  OBVIOUS
<1>1. Idle \in JobRec
  <2>1. <<>> \in Seq(Recipients) /\ "idle" \in PCs /\ 0 \in Nat
    BY DEF PCs
  <2> QED BY <2>1 DEF Idle, JobRec
<1>2. Types
  BY <1>1 DEF Init, Types, CollectionStatuses
<1>3. Generations = {}
  BY DEF Init, Generations
<1>4. \A c \in Callers : JobKnows(c)
  BY DEF Init, JobKnows, Idle
<1> QED BY <1>2, <1>3, <1>4 DEF Init, Inv, LastGeneration, AllocatedAsFrozen

\* A step that neither records evidence nor writes the ledger.
LEMMA QuietInv ==
  ASSUME Inv, Types', UNCHANGED <<evidence, ledger>>, NEW c \in Callers, Only(c),
         status' = "COLLECTED" => status = "COLLECTED", JobKnows(c)'
  PROVE  Inv'
<1>1. Generations' = Generations
  BY DEF Generations
<1>2. \A d \in Callers : JobKnows(d)'
  BY <1>1 DEF Inv, JobKnows, Only
<1>3. LastGeneration'
  BY <1>1 DEF Inv, LastGeneration
<1>4. AllocatedAsFrozen'
  BY <1>1 DEF Inv, AllocatedAsFrozen
<1> QED BY <1>2, <1>3, <1>4 DEF Inv

\* A step of the chain or of the policies.
LEMMA OutsideInv ==
  ASSUME Inv, tip' \in Nat, mined' \in Nat, UNCHANGED <<status, evidence, ledger, job>>
  PROVE  Inv'
<1>1. Generations' = Generations
  BY DEF Generations
<1>2. \A d \in Callers : JobKnows(d)'
  BY <1>1 DEF Inv, JobKnows
<1>3. LastGeneration'
  BY <1>1 DEF Inv, LastGeneration
<1>4. Types'
  BY DEF Inv, Types
<1>5. AllocatedAsFrozen'
  BY <1>1 DEF Inv, AllocatedAsFrozen
<1> QED BY <1>2, <1>3, <1>4, <1>5 DEF Inv

\* A step that records evidence.  A new generation has no entries yet.
LEMMA EvidenceInv ==
  ASSUME Inv, NEW row \in Rows, evidence' = Append(evidence, row), UNCHANGED <<ledger, tip, mined>>,
         status' \in CollectionStatuses, job' \in [Callers -> JobRec],
         NEW c \in Callers, Only(c), job'[c].pc \notin {"allocate", "confirm", "reverse"},
         status' = "COLLECTED" => status = "COLLECTED" \/ row.kind = "CONFIRMED"
  PROVE  Inv'
<1>1. /\ evidence' \in Seq(Rows) /\ Len(evidence) \in Nat
      /\ DOMAIN evidence = 1..Len(evidence) /\ DOMAIN evidence' = 1..(Len(evidence) + 1)
      /\ \A i \in DOMAIN evidence : evidence'[i] = evidence[i]
  BY Recorded DEF Inv, Types
<1>2. /\ row.kind # "CONFIRMED" => Generations' = Generations
      /\ row.kind = "CONFIRMED" => Generations' = Generations \cup {Len(evidence) + 1}
      /\ \A g \in Generations : g \in Nat /\ g <= Len(evidence)
  BY RecordedGenerations DEF Inv, Types
<1>3. Types'
  BY <1>1 DEF Inv, Types
<1>4. LastGeneration'
  <2>1. CASE row.kind # "CONFIRMED"
    BY <1>2, <2>1 DEF Inv, LastGeneration
  <2>2. CASE row.kind = "CONFIRMED"
    <3>1. \A g \in Generations' : Len(evidence) + 1 >= g
      BY <1>1, <1>2, <2>2
    <3> QED BY <1>2, <2>2, <3>1 DEF LastGeneration
  <2> QED BY <2>1, <2>2
<1>5. Generations \subseteq Generations'
  BY <1>2
<1>6. \A d \in Callers : JobKnows(d)'
  BY <1>1, <1>5 DEF Inv, JobKnows, Only
<1>7. \A e \in ledger' : e[1] \in DOMAIN evidence'
  BY <1>1 DEF Inv
<1>8. AllocatedAsFrozen'
  <2> SUFFICES ASSUME NEW g \in Generations', NEW x \in Recipients,
                      <<g, x, "ALLOCATION">> \in ledger
               PROVE  /\ evidence'[g].policy # None
                      /\ {r \in Recipients : <<g, r, "ALLOCATION">> \in ledger} =
                           {Payees[evidence'[g].policy][i] : i \in DOMAIN Payees[evidence'[g].policy]}
    BY ZenonT(60) DEF AllocatedAsFrozen
  <2>1. g \in DOMAIN evidence
    BY DEF Inv
  <2>2. g \in Generations
    BY <1>1, <1>2, <2>1
  <2>3. evidence'[g] = evidence[g]
    BY <1>1, <2>1
  <2> QED BY <2>2, <2>3 DEF Inv, AllocatedAsFrozen
<1> QED BY <1>3, <1>4, <1>6, <1>7, <1>8 DEF Inv

-----------------------------------------------------------------------------
(* Every step keeps the invariant.                                         *)

\* A step of a caller that only reads, or moves the obligation without
\* collecting it.
LEMMA ReadInv ==
  ASSUME Inv, NEW c \in Callers, job' \in [Callers -> JobRec], Only(c),
         job'[c].pc \notin {"allocate", "confirm", "reverse"}, status' \in CollectionStatuses,
         status' = "COLLECTED" => status = "COLLECTED", UNCHANGED <<evidence, ledger, tip, mined>>
  PROVE  Inv'
<1>1. Types' /\ JobKnows(c)'
  BY DEF Inv, Types, JobKnows
<1> QED BY <1>1, QuietInv

LEMMA SettleInv ==
  ASSUME Inv, NEW s \in Settlers, Settle(s)
  PROVE  Inv'
<1>1. s \in Callers /\ Types
  BY DEF Callers, Inv
<1>2. CASE RecordObligation(s)
  <2>1. job' \in [Callers -> JobRec] /\ Only(s) /\ job'[s].pc = "broadcast"
    BY <1>1, <1>2, JobEffects DEF RecordObligation, PCs
  <2>2. status' \in CollectionStatuses /\ (status' = "COLLECTED" => status = "COLLECTED")
    BY <1>1, <1>2 DEF RecordObligation, Types, CollectionStatuses
  <2> QED BY <1>1, <1>2, <2>1, <2>2, ReadInv DEF RecordObligation, ledgerVars, chainVars
<1>3. CASE RecordBroadcast(s)
  <2>1. job' \in [Callers -> JobRec] /\ Only(s) /\ job'[s].pc = "advance"
    BY <1>1, <1>3, JobEffects DEF RecordBroadcast, PCs
  <2>2. Row("BROADCAST", 0, None) \in Rows
    BY DEF Row, Rows, Kinds
  <2> QED BY <1>1, <1>3, <2>1, <2>2, EvidenceInv
          DEF RecordBroadcast, ledgerVars, chainVars, Types
<1>4. CASE Advance(s)
  <2>1. job' \in [Callers -> JobRec] /\ Only(s) /\ job'[s].pc = "done"
    BY <1>1, <1>4, JobEffects DEF Advance
  <2>2. status' \in CollectionStatuses /\ (status' = "COLLECTED" => status = "COLLECTED")
    BY <1>1, <1>4 DEF Advance, Types, CollectionStatuses
  <2> QED BY <1>1, <1>4, <2>1, <2>2, ReadInv DEF Advance, ledgerVars, chainVars
<1> QED BY <1>2, <1>3, <1>4 DEF Settle

LEMMA ConfirmationInv ==
  ASSUME Inv, NEW c \in Confirmers, SweepConfirmations(c)
  PROVE  Inv'
<1>1. c \in Callers /\ Types
  BY DEF Callers, Inv
<1>2. CASE FindInProgress(c) \/ FetchStatus(c) \/ FetchTip(c) \/ AssertInProgress(c)
  <2>1. UNCHANGED <<status, evidence, ledger, tip, mined>>
    BY <1>2 DEF FindInProgress, FetchStatus, FetchTip, AssertInProgress, ledgerVars, chainVars
  <2>2. \/ Goto(c, "status") \/ Learn(c, "tip", mined) \/ Goto(c, "assert") \/ Goto(c, "policy")
        \/ End(c)
    BY <1>2 DEF FindInProgress, FetchStatus, FetchTip, AssertInProgress
  <2>3. /\ job' \in [Callers -> JobRec] /\ Only(c)
        /\ job'[c].pc \in {"status", "tip", "assert", "policy", "idle"}
    BY <1>1, <2>2, JobEffects DEF PCs, Types
  <2> QED BY <1>1, <2>1, <2>3, ReadInv DEF Types
<1>3. CASE ReadLivePolicy(c)
  <2>1. /\ job' \in [Callers -> JobRec] /\ Only(c) /\ job'[c].pc = "confirm"
        /\ job'[c].saw \in Policies \cup {None}
    BY <1>1, <1>3, JobEffects, LivePolicyType DEF ReadLivePolicy, PCs
  <2>2. UNCHANGED <<status, evidence, ledger, tip, mined>>
    BY <1>3 DEF ReadLivePolicy, ledgerVars, chainVars
  <2>3. Types' /\ JobKnows(c)'
    BY <1>1, <2>1, <2>2 DEF Types, JobKnows
  <2> QED BY <1>1, <2>1, <2>2, <2>3, QuietInv
<1>4. CASE Confirm(c)
  <2>1. /\ job' \in [Callers -> JobRec] /\ Only(c) /\ job'[c].pc = "idle"
        /\ UNCHANGED <<ledger, tip, mined>>
    BY <1>1, <1>4, JobEffects DEF Confirm, ledgerVars, chainVars
  <2>2. CASE status = "IN_PROGRESS"
    <3>1. Row("CONFIRMED", job[c].at, job[c].saw) \in Rows
      BY <1>1, <1>4 DEF Confirm, At, Inv, JobKnows, Types, JobRec, Row, Rows, Kinds
    <3>2. Row("CONFIRMED", job[c].at, job[c].saw).kind = "CONFIRMED"
      BY DEF Row
    <3>3. /\ evidence' = Append(evidence, Row("CONFIRMED", job[c].at, job[c].saw))
          /\ status' = "COLLECTED" /\ "COLLECTED" \in CollectionStatuses
      BY <1>4, <2>2 DEF Confirm, CollectionStatuses
    <3> QED BY <1>1, <2>1, <3>1, <3>2, <3>3, EvidenceInv
  <2>3. CASE status # "IN_PROGRESS"
    BY <1>1, <1>4, <2>1, <2>3, ReadInv DEF Confirm, Types
  <2> QED BY <2>2, <2>3
<1> QED BY <1>2, <1>3, <1>4 DEF SweepConfirmations

LEMMA ReorgInv ==
  ASSUME Inv, NEW r \in Reorgers, SweepReorgs(r)
  PROVE  Inv'
<1>1. r \in Callers /\ Types
  BY DEF Callers, Inv
<1>2. CASE FindCollected(r) \/ FetchSweepTip(r) \/ Recheck(r) \/ ReadObligation(r)
  <2>1. UNCHANGED <<status, evidence, ledger, tip, mined>>
    BY <1>2 DEF FindCollected, FetchSweepTip, Recheck, ReadObligation, ledgerVars, chainVars
  <2>2. \/ Goto(r, "depth") \/ Learn(r, "recheck", tip) \/ Goto(r, "read")
        \/ Recall(r, "reorged", status) \/ End(r)
    BY <1>2 DEF FindCollected, FetchSweepTip, Recheck, ReadObligation
  <2>3. /\ job' \in [Callers -> JobRec] /\ Only(r)
        /\ job'[r].pc \in {"depth", "recheck", "read", "reorged", "idle"}
    BY <1>1, <2>2, JobEffects DEF PCs, Types
  <2> QED BY <1>1, <2>1, <2>3, ReadInv DEF Types
<1>3. CASE RecordReorg(r)
  <2>1. job' \in [Callers -> JobRec] /\ Only(r) /\ job'[r].pc \in {"revert", "idle"}
    BY <1>1, <1>3, JobEffects DEF RecordReorg, PCs
  <2>2. Row("REORGED_OUT", 0, None) \in Rows
    BY DEF Row, Rows, Kinds
  <2> QED BY <1>1, <1>3, <2>1, <2>2, EvidenceInv DEF RecordReorg, ledgerVars, chainVars, Types
<1>4. CASE Revert(r)
  <2>1. job' \in [Callers -> JobRec] /\ Only(r) /\ job'[r].pc = "idle"
    BY <1>1, <1>4, JobEffects DEF Revert
  <2>2. status' \in CollectionStatuses /\ status' # "COLLECTED"
    BY <1>1, <1>4 DEF Revert, Types, CollectionStatuses
  <2> QED BY <1>1, <1>4, <2>1, <2>2, ReadInv DEF Revert, ledgerVars, chainVars
<1> QED BY <1>2, <1>3, <1>4 DEF SweepReorgs

LEMMA EntriesMember ==
  ASSUME NEW g, NEW p, NEW kind
  PROVE  /\ \A h, x, k : <<h, x, k>> \in EntriesOf(g, p, kind) <=>
              h = g /\ k = kind /\ \E i \in DOMAIN Payees[p] : x = Payees[p][i]
         /\ \A e \in EntriesOf(g, p, kind) : e[1] = g
BY DEF EntriesOf

\* A step of a caller that writes the ledger and ends, or goes on reversing.
LEMMA LedgerInv ==
  ASSUME Inv, NEW c \in Callers, job' \in [Callers -> JobRec], Only(c), JobKnows(c)',
         UNCHANGED <<status, evidence, tip, mined>>,
         \A e \in ledger' : e[1] \in DOMAIN evidence, AllocatedAsFrozen'
  PROVE  Inv'
<1>1. Generations' = Generations
  BY DEF Generations
<1>2. \A d \in Callers : JobKnows(d)'
  BY <1>1 DEF Inv, JobKnows, Only
<1>3. LastGeneration' /\ Types'
  BY <1>1 DEF Inv, LastGeneration, Types
<1> QED BY <1>2, <1>3 DEF Inv

LEMMA AllocateInv ==
  ASSUME Inv, NEW a \in Allocators, BeginAllocate(a) \/ Allocate(a)
  PROVE  Inv'
<1>1. a \in Callers /\ Types
  BY DEF Callers, Inv
<1>2. CASE BeginAllocate(a)
  <2>1. job' \in [Callers -> JobRec] /\ Only(a) /\ job'[a].pc = "allocate"
    BY <1>1, <1>2, JobEffects DEF BeginAllocate, PCs
  <2>2. UNCHANGED <<status, evidence, ledger, tip, mined>> /\ Generations # {}
    BY <1>2 DEF BeginAllocate, ledgerVars, chainVars, Inv, LastGeneration
  <2>3. Types' /\ JobKnows(a)'
    BY <1>1, <2>1, <2>2 DEF Types, JobKnows, Generations
  <2> QED BY <1>1, <2>1, <2>2, <2>3, QuietInv
<1>3. CASE Allocate(a)
  <2> DEFINE g == Max(Generations)
             frozen == evidence[g].policy
  <2>1. /\ job' \in [Callers -> JobRec] /\ Only(a) /\ job'[a].pc = "idle"
        /\ UNCHANGED <<status, evidence, tip, mined>>
    BY ZenonT(60), <1>1, <1>3, JobEffects DEF Allocate, chainVars
  <2>2. g \in Generations
    BY <1>1, <1>3, LastIsMax DEF Allocate, At, Inv, JobKnows
  <2> HIDE DEF g
  <2>3. CASE ledger' = ledger
    BY <1>1, <2>1, <2>3, ReadInv DEF Types
  <2>4. CASE ledger' # ledger
    <3>1. /\ frozen # None /\ \A e \in ledger : e[1] # g
          /\ ledger' = ledger \cup EntriesOf(g, frozen, "ALLOCATION")
      BY <1>3, <2>4 DEF Allocate, g
    <3>2. frozen \in Policies
      <4>1. evidence[g] \in Rows
        BY <1>1, <2>2 DEF Types, Generations
      <4> QED BY <3>1, <4>1 DEF Rows
    <3>3. \A e \in ledger' : e[1] \in DOMAIN evidence
      BY <2>2, <3>1, EntriesMember DEF Inv, Generations
    <3>4. \A h, x : <<h, x, "ALLOCATION">> \in ledger' <=>
             \/ <<h, x, "ALLOCATION">> \in ledger
             \/ h = g /\ \E i \in DOMAIN Payees[frozen] : x = Payees[frozen][i]
      BY <3>1, EntriesMember
    <3>5. \A x : <<g, x, "ALLOCATION">> \notin ledger
      BY <3>1
    <3>6. \A i \in DOMAIN Payees[frozen] : Payees[frozen][i] \in Recipients
      BY <3>2 DEF Recipients
    <3>7. AllocatedAsFrozen'
      <4> SUFFICES ASSUME NEW h \in Generations, NEW y \in Recipients,
                          <<h, y, "ALLOCATION">> \in ledger'
                   PROVE  /\ evidence[h].policy # None
                          /\ {x \in Recipients : <<h, x, "ALLOCATION">> \in ledger'} =
                               {Payees[evidence[h].policy][i] : i \in DOMAIN Payees[evidence[h].policy]}
        <5>1. Generations' = Generations
          BY <2>1 DEF Generations
        <5> QED BY ZenonT(60), <2>1, <5>1 DEF AllocatedAsFrozen
      <4>1. CASE h = g
        <5>1. \A x : x \in Recipients /\ <<h, x, "ALLOCATION">> \in ledger' <=>
                 \E i \in DOMAIN Payees[frozen] : x = Payees[frozen][i]
          BY <3>4, <3>5, <3>6, <4>1
        <5> QED BY <3>1, <4>1, <5>1
      <4>2. CASE h # g
        <5>1. \A x : <<h, x, "ALLOCATION">> \in ledger' <=> <<h, x, "ALLOCATION">> \in ledger
          BY <3>4, <4>2
        <5> QED BY <5>1 DEF Inv, AllocatedAsFrozen
      <4> QED BY <4>1, <4>2
    <3>8. JobKnows(a)'
      BY <2>1 DEF JobKnows
    <3> QED BY <1>1, <2>1, <3>3, <3>7, <3>8, LedgerInv
  <2> QED BY ZenonT(60), <2>3, <2>4
<1> QED BY <1>2, <1>3

LEMMA ReverseInv ==
  ASSUME Inv, NEW v \in Reversers, Reverse(v)
  PROVE  Inv'
<1>1. v \in Callers /\ Types /\ job[v] \in JobRec
  BY DEF Callers, Inv, Types
<1>2. ASSUME NEW g \in Generations, BeginReverse(v, g)
      PROVE  Inv'
  <2>1. g \in DOMAIN evidence /\ g \in Nat /\ evidence[g] \in Rows
    BY <1>1 DEF Generations, Types
  <2>2. evidence[g].policy \in Policies
    <3>1. \E r \in Recipients : <<g, r, "ALLOCATION">> \in ledger
      BY ZenonT(60), <1>2 DEF BeginReverse, FindReorgedNotReversed, Unreversed
    <3>2. evidence[g].policy # None
      BY <3>1 DEF Inv, AllocatedAsFrozen
    <3> QED BY <2>1, <3>2 DEF Rows
  <2> DEFINE list == Payees[evidence[g].policy]
  <2>3. list \in Seq(Recipients) /\ list # <<>>
    BY <2>2, FeeAssumption
  <2> HIDE DEF list
  <2>4. job' = [job EXCEPT ![v].pc = "reverse", ![v].gen = g, ![v].todo = list]
    BY <1>2 DEF BeginReverse, list
  <2>5. /\ job' \in [Callers -> JobRec] /\ Only(v)
        /\ job'[v].pc = "reverse" /\ job'[v].gen = g /\ job'[v].todo = list
    <3>1. "reverse" \in PCs /\ job \in [Callers -> JobRec]
      BY <1>1 DEF PCs, Types
    <3> QED BY ZenonT(60), <1>1, <2>1, <2>3, <2>4, <3>1 DEF Only, JobRec
  <2>6. UNCHANGED <<status, evidence, ledger, tip, mined>>
    BY <1>2 DEF BeginReverse, ledgerVars, chainVars
  <2>7. Types' /\ JobKnows(v)'
    BY <1>1, <2>1, <2>3, <2>5, <2>6 DEF Types, JobKnows
  <2> QED BY <1>1, <2>5, <2>6, <2>7, QuietInv
<1>3. CASE ReverseEntry(v)
  <2> DEFINE e == <<job[v].gen, Head(job[v].todo), "REVERSAL">>
             rest == Tail(job[v].todo)
  <2>1. /\ job[v].gen \in DOMAIN evidence /\ job[v].todo # <<>> /\ job[v].todo \in Seq(Recipients)
        /\ UNCHANGED <<status, evidence, tip, mined>> /\ ledger' = ledger \cup {e}
        /\ job[v].pc = "reverse"
    BY <1>1, <1>3 DEF ReverseEntry, At, Inv, JobKnows, JobRec, chainVars
  <2>2. rest \in Seq(Recipients)
    BY <2>1
  <2>3. job' \in [Callers -> JobRec] /\ Only(v) /\ JobKnows(v)'
    <3> HIDE DEF rest
    <3>1. End(v) \/ (job' = [job EXCEPT ![v].todo = rest] /\ rest # <<>>)
      BY <1>3 DEF ReverseEntry, rest
    <3>2. CASE End(v)
      BY <1>1, <3>2, JobEffects DEF JobKnows
    <3>3. CASE job' = [job EXCEPT ![v].todo = rest] /\ rest # <<>>
      <4>1. /\ job' \in [Callers -> JobRec] /\ Only(v) /\ job'[v].todo = rest
            /\ job'[v].pc = "reverse" /\ job'[v].gen = job[v].gen
        BY ZenonT(60), <1>1, <2>1, <2>2, <3>3 DEF Types, JobRec, Only
      <4> QED BY <2>1, <3>3, <4>1 DEF JobKnows
    <3> QED BY <3>1, <3>2, <3>3
  <2>4. \A h, x : <<h, x, "ALLOCATION">> \in ledger' <=> <<h, x, "ALLOCATION">> \in ledger
    BY <2>1
  <2>5. AllocatedAsFrozen'
    <3>1. Generations' = Generations
      BY <2>1 DEF Generations
    <3>2. \A h \in Generations :
             {x \in Recipients : <<h, x, "ALLOCATION">> \in ledger'} =
             {x \in Recipients : <<h, x, "ALLOCATION">> \in ledger}
      BY <2>4
    <3> QED BY ZenonT(60), <2>1, <3>1, <3>2 DEF Inv, AllocatedAsFrozen
  <2>6. \A f \in ledger' : f[1] \in DOMAIN evidence
    BY <2>1 DEF Inv
  <2> QED BY <1>1, <2>1, <2>3, <2>5, <2>6, LedgerInv
<1> QED BY <1>2, <1>3 DEF Reverse

LEMMA FaultInv ==
  ASSUME Inv, NEW c \in Callers, Fault(c)
  PROVE  Inv'
<1>1. job' \in [Callers -> JobRec] /\ Only(c) /\ job'[c].pc \in {"idle", "done"}
  BY JobEffects DEF Fault, Inv
<1> QED BY <1>1, ReadInv DEF Fault, ledgerVars, chainVars, Inv, Types

LEMMA ChainInv ==
  ASSUME Inv, Mine \/ \E d \in 1..MaxDepth : Reorganize(d)
  PROVE  Inv'
<1>1. UNCHANGED <<status, evidence, ledger, job>>
  BY DEF Mine, Reorganize, ledgerVars
<1>2. tip' \in Nat /\ mined' \in Nat
  <2>1. CASE Mine
    BY <2>1 DEF Mine, Inv, Types
  <2>2. ASSUME NEW d \in 1..MaxDepth, Reorganize(d)
        PROVE  tip' \in Nat /\ mined' \in Nat
    BY <2>2, FeeAssumption DEF Reorganize, Inv, Types
  <2> QED BY <2>1, <2>2
<1> QED BY <1>1, <1>2, OutsideInv

LEMMA NextInv == Inv /\ [Next]_vars => Inv'
<1> SUFFICES ASSUME Inv, [Next]_vars PROVE Inv'
  OBVIOUS
<1>1. CASE UNCHANGED vars
  BY <1>1, OutsideInv DEF vars, Inv, Types
<1>2. ASSUME NEW p \in Policies, PublishPolicy(p) \/ RetirePolicy(p)
      PROVE  Inv'
  BY <1>2, OutsideInv DEF PublishPolicy, RetirePolicy, chainVars, Inv, Types
<1> QED BY <1>1, <1>2, ChainInv, SettleInv, ConfirmationInv, ReorgInv, AllocateInv, ReverseInv,
           FaultInv DEF Next

LEMMA Invariance == Spec => []Inv
BY InitInv, NextInv, PTL DEF Spec

\* Whatever is published or retired between a confirmation and allocate(), and
\* however many callers allocate and reverse, the entries of a generation are
\* those of the policy its CONFIRMED row froze, all of them or none.
THEOREM AllocatedFrozen == Spec => []AllocatedAsFrozen
<1>1. Inv => AllocatedAsFrozen
  BY DEF Inv
<1> QED BY <1>1, Invariance, PTL

-----------------------------------------------------------------------------
(* One reorg sweep at a time.                                              *)

\* Generation g was seen to leave the chain after it was confirmed.
Left(g) == \E k \in DOMAIN evidence : k > g /\ evidence[k].kind = "REORGED_OUT"

\* A fee that is not collected now is backed by no generation, and the reorg
\* sweep that reverts has recorded the reorganization of every one.
SweepKnows(c) ==
  /\ job[c].pc \in {"reorged", "revert"} => c \in Reorgers
  /\ job[c].pc = "reorged" /\ job[c].saw = "COLLECTED" => status = "COLLECTED"
  /\ job[c].pc = "revert" => status = "COLLECTED" /\ \A g \in Generations : Left(g)

SweepInv ==
  /\ status # "COLLECTED" => \A g \in Generations : Left(g)
  /\ \A c \in Callers : SweepKnows(c)
  /\ ConfirmedOnce

LEMMA SweepInit == Init => SweepInv
<1> SUFFICES ASSUME Init PROVE SweepInv
  OBVIOUS
<1>1. Generations = {}
  BY DEF Init, Generations
<1>2. \A c \in Callers : SweepKnows(c)
  BY DEF Init, SweepKnows, Idle
<1> QED BY <1>1, <1>2 DEF SweepInv, ConfirmedOnce

\* A step that neither collects, nor reverts, nor records evidence.
LEMMA SweepQuiet ==
  ASSUME SweepInv, status' = "COLLECTED" <=> status = "COLLECTED", evidence' = evidence,
         NEW c \in Callers, Only(c), SweepKnows(c)'
  PROVE  SweepInv'
<1>1. Generations' = Generations /\ \A g : Left(g)' <=> Left(g)
  BY DEF Generations, Left
<1>2. \A d \in Callers : SweepKnows(d)'
  BY <1>1 DEF SweepInv, SweepKnows, Only
<1>3. ConfirmedOnce'
  BY <1>1 DEF SweepInv, ConfirmedOnce
<1> QED BY <1>1, <1>2, <1>3 DEF SweepInv

\* A step that records a row other than a CONFIRMED one.
LEMMA SweepRecord ==
  ASSUME Types, SweepInv, NEW row \in Rows, row.kind # "CONFIRMED",
         evidence' = Append(evidence, row), status' = status,
         NEW c \in Callers, Only(c), SweepKnows(c)'
  PROVE  SweepInv'
<1>1. /\ Len(evidence) \in Nat
      /\ DOMAIN evidence = 1..Len(evidence) /\ DOMAIN evidence' = 1..(Len(evidence) + 1)
      /\ \A i \in DOMAIN evidence : evidence'[i] = evidence[i]
  BY Recorded DEF Types
<1>2. Generations' = Generations /\ \A g \in Generations : g \in Nat /\ g <= Len(evidence)
  BY RecordedGenerations DEF Types
<1>3. \A g \in Generations : Left(g) => Left(g)'
  BY <1>1 DEF Left
<1>4. \A d \in Callers : SweepKnows(d)'
  BY <1>2, <1>3 DEF SweepInv, SweepKnows, Only
<1>5. ConfirmedOnce'
  <2> SUFFICES ASSUME NEW g \in Generations, NEW h \in Generations, g < h
               PROVE  \E k \in (g + 1)..(h - 1) : evidence'[k].kind = "REORGED_OUT"
    BY <1>2 DEF ConfirmedOnce
  <2>1. PICK k \in (g + 1)..(h - 1) : evidence[k].kind = "REORGED_OUT"
    BY DEF SweepInv, ConfirmedOnce
  <2>2. k \in DOMAIN evidence
    BY <1>1, <1>2
  <2> QED BY <1>1, <2>1, <2>2
<1> QED BY <1>2, <1>3, <1>4, <1>5 DEF SweepInv

\* recognizeConfirmation() records a generation only from IN_PROGRESS, when
\* every earlier one has left the chain and no sweep is about to revert.
LEMMA SweepConfirm ==
  ASSUME Inv, SweepInv, NEW c \in Confirmers, Confirm(c), status = "IN_PROGRESS"
  PROVE  SweepInv'
<1> DEFINE row == Row("CONFIRMED", job[c].at, job[c].saw)
           n == Len(evidence) + 1
<1>1. c \in Callers /\ Types
  BY DEF Callers, Inv
<1>2. row \in Rows /\ row.kind = "CONFIRMED"
  BY <1>1 DEF Confirm, At, Inv, JobKnows, Types, JobRec, Row, Rows, Kinds
<1> HIDE DEF row
<1>3. evidence' = Append(evidence, row) /\ status' = "COLLECTED"
  BY ZenonT(60) DEF Confirm, row
<1>4. Only(c) /\ job'[c].pc = "idle"
  BY <1>1, JobEffects DEF Confirm
<1>5. /\ Len(evidence) \in Nat
      /\ DOMAIN evidence = 1..Len(evidence) /\ DOMAIN evidence' = 1..n
      /\ \A i \in DOMAIN evidence : evidence'[i] = evidence[i]
  BY <1>1, <1>2, <1>3, Recorded DEF Types
<1>6. /\ Generations' = Generations \cup {n}
      /\ \A g \in Generations : g \in Nat /\ g <= Len(evidence)
  BY <1>1, <1>2, <1>3, RecordedGenerations DEF Types
<1>7. \A d \in Callers : SweepKnows(d)'
  BY ZenonT(60), <1>4 DEF SweepInv, SweepKnows, Only
<1>8. ConfirmedOnce'
  <2> SUFFICES ASSUME NEW g \in Generations', NEW h \in Generations', g < h
               PROVE  \E k \in (g + 1)..(h - 1) : evidence'[k].kind = "REORGED_OUT"
    BY DEF ConfirmedOnce
  <2>1. g \in Generations
    BY <1>5, <1>6
  <2>2. CASE h \in Generations
    <3>1. PICK k \in (g + 1)..(h - 1) : evidence[k].kind = "REORGED_OUT"
      BY <2>1, <2>2 DEF SweepInv, ConfirmedOnce
    <3>2. k \in DOMAIN evidence
      BY <1>5, <1>6, <2>1, <2>2
    <3> QED BY <1>5, <3>1, <3>2
  <2>3. CASE h = n
    <3>1. PICK k \in DOMAIN evidence : k > g /\ evidence[k].kind = "REORGED_OUT"
      BY <2>1 DEF SweepInv, Left
    <3>2. k \in (g + 1)..(h - 1)
      BY <1>5, <1>6, <2>1, <2>3, <3>1
    <3> QED BY <1>5, <3>1, <3>2
  <2> QED BY <1>6, <2>2, <2>3
<1> QED BY <1>3, <1>7, <1>8 DEF SweepInv

LEMMA SweepReorgsInv ==
  ASSUME \A q, r \in Reorgers : q = r, Inv, SweepInv, NEW r \in Reorgers, SweepReorgs(r)
  PROVE  SweepInv'
<1>1. r \in Callers /\ Types
  BY DEF Callers, Inv
<1>2. CASE FindCollected(r) \/ FetchSweepTip(r) \/ Recheck(r)
  <2>1. Goto(r, "depth") \/ Learn(r, "recheck", tip) \/ Goto(r, "read") \/ End(r)
    BY <1>2 DEF FindCollected, FetchSweepTip, Recheck
  <2>2. Only(r) /\ job'[r].pc \in {"depth", "recheck", "read", "idle"}
    BY ZenonT(60), <1>1, <2>1, JobEffects DEF PCs, Types
  <2>3. UNCHANGED <<status, evidence>>
    BY <1>2 DEF FindCollected, FetchSweepTip, Recheck
  <2>4. SweepKnows(r)'
    BY <2>2 DEF SweepKnows
  <2> QED BY <1>1, <2>2, <2>3, <2>4, SweepQuiet
<1>3. CASE ReadObligation(r)
  <2>1. /\ Only(r) /\ job'[r].pc = "reorged" /\ job'[r].saw = status /\ UNCHANGED <<status, evidence>>
    BY <1>1, <1>3, JobEffects DEF ReadObligation, PCs, Types
  <2>2. SweepKnows(r)'
    BY <2>1 DEF SweepKnows
  <2> QED BY <1>1, <2>1, <2>2, SweepQuiet
<1>4. CASE RecordReorg(r)
  <2> DEFINE row == Row("REORGED_OUT", 0, None)
  <2>1. row \in Rows /\ row.kind = "REORGED_OUT"
    BY ZenonT(60) DEF Row, Rows, Kinds
  <2> HIDE DEF row
  <2>2. evidence' = Append(evidence, row) /\ status' = status /\ job[r].pc = "reorged"
    BY ZenonT(60), <1>4 DEF RecordReorg, row, At
  <2>3. Only(r) /\ job'[r].pc = IF job[r].saw = "COLLECTED" THEN "revert" ELSE "idle"
    BY <1>1, <1>4, JobEffects DEF RecordReorg, PCs
  <2>4. /\ Len(evidence) \in Nat
        /\ DOMAIN evidence = 1..Len(evidence) /\ DOMAIN evidence' = 1..(Len(evidence) + 1)
        /\ evidence'[Len(evidence) + 1] = row
    BY <1>1, <2>1, <2>2, Recorded DEF Types
  <2>5. Generations' = Generations /\ \A g \in Generations : g \in Nat /\ g <= Len(evidence)
    BY <1>1, <2>1, <2>2, RecordedGenerations DEF Types
  <2>6. \A g \in Generations' : Left(g)'
    BY <2>1, <2>4, <2>5 DEF Left
  <2>7. SweepKnows(r)'
    BY <1>1, <2>2, <2>3, <2>6 DEF SweepKnows, SweepInv
  <2> QED BY <1>1, <2>1, <2>2, <2>3, <2>7, SweepRecord
<1>5. CASE Revert(r)
  <2>1. /\ Only(r) /\ job'[r].pc = "idle" /\ evidence' = evidence
        /\ status = "COLLECTED" /\ status' # "COLLECTED" /\ \A g \in Generations : Left(g)
    BY ZenonT(60), <1>1, <1>5, JobEffects DEF Revert, At, SweepInv, SweepKnows
  <2>2. Generations' = Generations /\ \A g : Left(g)' <=> Left(g)
    BY ZenonT(60), <2>1 DEF Generations, Left
  <2>3. \A d \in Callers : SweepKnows(d)'
    BY <2>1 DEF SweepInv, SweepKnows, Only
  <2>4. ConfirmedOnce'
    BY <2>1, <2>2 DEF SweepInv, ConfirmedOnce
  <2> QED BY ZenonT(60), <2>1, <2>2, <2>3, <2>4 DEF SweepInv
<1> QED BY <1>2, <1>3, <1>4, <1>5 DEF SweepReorgs

LEMMA SweepNext ==
  ASSUME \A q, r \in Reorgers : q = r
  PROVE  Inv /\ SweepInv /\ [Next]_vars => SweepInv'
<1> SUFFICES ASSUME Inv, SweepInv, [Next]_vars PROVE SweepInv'
  OBVIOUS
<1>1. Types
  BY DEF Inv
\* The chain, the policies and stuttering touch nothing the sweeps rely on.
<1>2. ASSUME UNCHANGED <<status, evidence, job>> PROVE SweepInv'
  BY <1>2 DEF SweepInv, SweepKnows, ConfirmedOnce, Left, Generations
<1>3. ASSUME NEW c \in Callers, Only(c), job'[c].pc \notin {"reorged", "revert"},
             evidence' = evidence, status' = "COLLECTED" <=> status = "COLLECTED"
      PROVE  SweepInv'
  <2>1. SweepKnows(c)'
    BY <1>3 DEF SweepKnows
  <2> QED BY <1>3, <2>1, SweepQuiet
<1>4. ASSUME NEW s \in Settlers, Settle(s) PROVE SweepInv'
  <2>1. s \in Callers
    BY DEF Callers
  <2>2. CASE RecordObligation(s) \/ Advance(s)
    <3>1. Only(s) /\ job'[s].pc \in {"broadcast", "done"}
      BY <1>1, <2>1, <2>2, JobEffects DEF RecordObligation, Advance, PCs
    <3>2. evidence' = evidence /\ (status' = "COLLECTED" <=> status = "COLLECTED")
      BY ZenonT(60), <2>2 DEF RecordObligation, Advance
    <3> QED BY ZenonT(60), <1>3, <2>1, <3>1, <3>2
  <2>3. CASE RecordBroadcast(s)
    <3>1. Only(s) /\ job'[s].pc = "advance"
      BY <1>1, <2>1, <2>3, JobEffects DEF RecordBroadcast, PCs
    <3>2. Row("BROADCAST", 0, None) \in Rows /\ Row("BROADCAST", 0, None).kind # "CONFIRMED"
      BY DEF Row, Rows, Kinds
    <3>3. SweepKnows(s)'
      BY <3>1 DEF SweepKnows
    <3> QED BY ZenonT(60), <1>1, <2>1, <2>3, <3>1, <3>2, <3>3, SweepRecord DEF RecordBroadcast
  <2> QED BY <1>4, <2>2, <2>3 DEF Settle
<1>5. ASSUME NEW c \in Confirmers, SweepConfirmations(c) PROVE SweepInv'
  <2>1. c \in Callers
    BY DEF Callers
  <2>2. CASE Confirm(c) /\ status = "IN_PROGRESS"
    BY <2>2, SweepConfirm
  <2>3. CASE ~(Confirm(c) /\ status = "IN_PROGRESS")
    <3>1. UNCHANGED <<status, evidence>>
      BY ZenonT(60), <1>5, <2>3 DEF SweepConfirmations, FindInProgress, FetchStatus, FetchTip,
                        AssertInProgress, ReadLivePolicy, Confirm
    <3>2. \/ Goto(c, "status") \/ Learn(c, "tip", mined) \/ Goto(c, "assert") \/ Goto(c, "policy")
          \/ Recall(c, "confirm", LivePolicy) \/ End(c)
      BY ZenonT(60), <1>5 DEF SweepConfirmations, FindInProgress, FetchStatus, FetchTip, AssertInProgress,
                  ReadLivePolicy, Confirm
    <3>3. Only(c) /\ job'[c].pc \in {"status", "tip", "assert", "policy", "confirm", "idle"}
      BY <1>1, <2>1, <3>2, JobEffects, LivePolicyType DEF PCs, Types
    <3> QED BY ZenonT(60), <1>3, <2>1, <3>1, <3>3
  <2> QED BY <2>2, <2>3
<1>6. ASSUME NEW a \in Allocators, BeginAllocate(a) \/ Allocate(a) PROVE SweepInv'
  <2>1. a \in Callers
    BY DEF Callers
  <2>2. Only(a) /\ job'[a].pc \in {"allocate", "idle"} /\ UNCHANGED <<status, evidence>>
    BY ZenonT(60), <1>1, <1>6, <2>1, JobEffects DEF BeginAllocate, Allocate, PCs
  <2> QED BY <1>3, <2>1, <2>2
<1>7. ASSUME NEW v \in Reversers, Reverse(v) PROVE SweepInv'
  <2>1. v \in Callers /\ job \in [Callers -> JobRec]
    BY <1>1 DEF Callers, Types
  <2>2. CASE ReverseEntry(v)
    <3>1. \/ End(v)
          \/ job' = [job EXCEPT ![v].todo = Tail(job[v].todo)] /\ job[v].pc = "reverse"
      BY <2>2 DEF ReverseEntry, At
    <3>2. Only(v) /\ job'[v].pc \in {"idle", "reverse"}
      <4>1. CASE End(v)
        BY <1>1, <2>1, <4>1, JobEffects
      <4>2. CASE job' = [job EXCEPT ![v].todo = Tail(job[v].todo)] /\ job[v].pc = "reverse"
        BY <2>1, <4>2 DEF JobRec, Only
      <4> QED BY <3>1, <4>1, <4>2
    <3> QED BY <1>3, <2>1, <2>2, <3>2 DEF ReverseEntry
  <2>3. ASSUME NEW g \in Generations, BeginReverse(v, g) PROVE SweepInv'
    <3>1. Only(v) /\ job'[v].pc = "reverse"
      BY <2>1, <2>3 DEF BeginReverse, Only, JobRec
    <3> QED BY <1>3, <2>1, <2>3, <3>1 DEF BeginReverse
  <2> QED BY <1>7, <2>2, <2>3 DEF Reverse
<1>8. ASSUME NEW c \in Callers, Fault(c) PROVE SweepInv'
  <2>1. Only(c) /\ job'[c].pc \in {"idle", "done"} /\ UNCHANGED <<status, evidence>>
    BY ZenonT(60), <1>1, <1>8, JobEffects DEF Fault
  <2> QED BY ZenonT(60), <1>3, <2>1
<1>9. CASE \/ Mine \/ (\E d \in 1..MaxDepth : Reorganize(d))
           \/ (\E p \in Policies : PublishPolicy(p) \/ RetirePolicy(p)) \/ UNCHANGED vars
  BY <1>2, <1>9 DEF Mine, Reorganize, PublishPolicy, RetirePolicy, vars
<1> QED BY <1>4, <1>5, <1>6, <1>7, <1>8, <1>9, SweepReorgsInv DEF Next

LEMMA SweepInvariance ==
  ASSUME \A q, r \in Reorgers : q = r
  PROVE  Spec => [](Inv /\ SweepInv)
<1>1. Init => Inv /\ SweepInv
  BY InitInv, SweepInit
<1>2. Inv /\ SweepInv /\ [Next]_vars => (Inv /\ SweepInv)'
  BY NextInv, SweepNext
<1> QED BY <1>1, <1>2, PTL DEF Spec

\* With one reorg sweep at a time, recognizeConfirmation() never records the
\* same confirmation twice, however many confirmation sweeps race.
THEOREM ConfirmedOnceHolds ==
  ASSUME \A q, r \in Reorgers : q = r
  PROVE  Spec => []ConfirmedOnce
<1>1. SweepInv => ConfirmedOnce
  BY DEF SweepInv
<1> QED BY <1>1, SweepInvariance, PTL

\* With one reorg sweep at a time, an entitlement that is not reversed rests on
\* the last generation of a fee that is collected now, or on one the
\* reconciliation report names.
THEOREM EntitlementBacked ==
  ASSUME \A q, r \in Reorgers : q = r
  PROVE  Spec => []EntitlementIsBackedOrReported
<1>1. Inv /\ SweepInv => EntitlementIsBackedOrReported
  <2> SUFFICES ASSUME Inv, SweepInv, NEW g \in Generations, ~Left(g)
               PROVE  status = "COLLECTED" /\ g = Max(Generations)
    BY DEF EntitlementIsBackedOrReported, FindReorgedNotReversed, Left
  <2>1. status = "COLLECTED"
    BY DEF SweepInv
  <2>2. evidence \in Seq(Rows) /\ \A h \in Generations : h \in DOMAIN evidence /\ h \in Nat
    BY DEF Generations, Inv, Types
  <2>3. \A h \in Generations : h <= g
    <3> SUFFICES ASSUME NEW h \in Generations, g < h PROVE FALSE
      BY <2>2
    <3>1. PICK k \in (g + 1)..(h - 1) : evidence[k].kind = "REORGED_OUT"
      BY DEF SweepInv, ConfirmedOnce
    <3>2. k \in DOMAIN evidence /\ k > g
      BY <2>2
    <3> QED BY <3>1, <3>2 DEF Left
  <2>4. Max(Generations) \in Generations /\ \A h \in Generations : Max(Generations) >= h
    BY LastIsMax DEF Inv
  <2> QED BY <2>1, <2>2, <2>3, <2>4
<1> QED BY <1>1, SweepInvariance, PTL

=============================================================================
