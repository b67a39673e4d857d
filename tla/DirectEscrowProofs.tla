------------------------- MODULE DirectEscrowProofs -------------------------
(***************************************************************************)
(* Theorems about DirectEscrow, for any set of requests, any threshold, any*)
(* number of faults and either setting of the feature flags.  First the    *)
(* inductive invariant, that it holds initially and how a step frames it;  *)
(* then one lemma per step of a request; then the theorems.                *)
(***************************************************************************)
EXTENDS DirectEscrow, TLAPS

\* Every leaf that names no prover is tried with SMT, with Zenon and with SMT again.
USE SMTT(60), ZenonT(30), SMTT(61), SMTT(62)

\* The escrow's account has made every transfer of the operation.
Landed(op) == \A k \in DOMAIN Legs[op] : Legs[op][k] \in landed

Disposing(r) == Holds(r) /\ req[r].op \in Dispositions

\* What the program counter of a request says about its other fields.
Shape(r) ==
  /\ req[r].pc # "idle" => req[r].op \in Handlers \cup {"reconcile"}
  /\ (req[r].pc # "idle" /\ req[r].op \in Handlers) =>
        req[r].to = Target[req[r].op] /\ req[r].to \in VALID_TRANSITIONS[req[r].from]
  /\ (req[r].pc # "idle" /\ req[r].op = "reconcile") =>
        req[r].to \in TerminalStatuses /\ req[r].pc \in {"oblige", "emit", "publish"}
  /\ req[r].pc \in {"call", "sent", "record", "revert"} => req[r].op \in Guarded
  /\ req[r].pc = "oblige" => req[r].op \in Dispositions \cup {"reconcile"}
  /\ req[r].pc \in {"row", "assign"} => req[r].op = "dispute"
  /\ req[r].pc = "claim" => req[r].leg = 1
  /\ req[r].pc \in {"call", "sent"} => req[r].leg \in DOMAIN Legs[req[r].op]

\* How much of its operation a request has seen on the chain and written down.
Progress(r) ==
  /\ req[r].pc \in {"call", "sent"} =>
        \A k \in DOMAIN Legs[req[r].op] : k < req[r].leg => Legs[req[r].op][k] \in landed
  /\ (req[r].pc \in {"record", "oblige", "emit", "publish"} /\ req[r].op \in Guarded)
        => Landed(req[r].op)
  /\ (req[r].pc \in {"oblige", "emit", "publish"} /\ req[r].op \in Dispositions)
        => txReleaseId = req[r].op

ConfirmedLanded == \A o \in Operations : attempt[o] = "confirmed" => o \in landed

\* Nobody disposes of an escrow whose disposition was acknowledged.
AckedAlone ==
  \A op \in acked \cap Dispositions :
     /\ status = Target[op] /\ txReleaseId = op /\ Landed(op)
     /\ \A r \in Requests : ~Disposing(r)

Inv ==
  /\ TypeOK
  /\ \A r \in Requests : Shape(r) /\ Progress(r)
  /\ ConfirmedLanded
  /\ SoleDisposition
  /\ AckedAlone

-----------------------------------------------------------------------------

\* Facts about the tables.
LEMMA Tables ==
  /\ Handlers = {"lock", "pay", "release", "dispute", "refund", "split"}
  /\ Guarded = {"lock", "release", "refund", "split"}
  /\ \A op \in Handlers : Target[op] \in Statuses
  /\ \A op \in Dispositions : Target[op] \in TerminalStatuses
  /\ \A op \in Handlers \ Dispositions : Target[op] \notin TerminalStatuses
  /\ \A s \in Statuses : VALID_TRANSITIONS[s] \subseteq Statuses
  /\ \A s \in TerminalStatuses : VALID_TRANSITIONS[s] = {}
  BY DEF Handlers, Guarded, Target, Legs, Statuses, TerminalStatuses, Dispositions,
         VALID_TRANSITIONS

LEMMA LegTable ==
  \A op \in Guarded :
     /\ DOMAIN Legs[op] = 1 .. Len(Legs[op])
     /\ Len(Legs[op]) \in 1 .. 2
     /\ \A k \in DOMAIN Legs[op] : Legs[op][k] \in Operations
  BY DEF Guarded, Legs, Operations

LEMMA InitInv == Init => Inv
<1> SUFFICES ASSUME Init PROVE Inv
  OBVIOUS
<1> USE DEF Init
<1>1. TypeOK
  <2>1. req \in [Requests -> [pc : PCs, op : Handlers \cup {"none", "reconcile"},
                              from : Statuses, to : Statuses, leg : 1 .. 2]]
    BY DEF Idle, PCs, Statuses
  <2>2. Rail!RailTypeOK
    BY DEF Rail!RailInit, Rail!RailTypeOK, Rail!AttemptStates
  <2>3. conflicts \in 0 .. failureThreshold /\ faults \in 0 .. MaxFaults
    BY ThresholdAssumption, FaultsAssumption
  <2>4. status \in Statuses
    BY DEF Statuses
  <2>5. events \in Seq(Statuses \X Statuses) /\ bus \in Seq(Statuses)
    OBVIOUS
  <2> QED
    BY <2>1, <2>2, <2>3, <2>4, <2>5, ZenonT(60) DEF TypeOK
<1>2. \A r \in Requests : req[r].pc = "idle"
  BY DEF Idle
<1>3. \A r \in Requests : Shape(r) /\ Progress(r)
  BY <1>2 DEF Shape, Progress
<1>4. ConfirmedLanded
  BY DEF ConfirmedLanded, Rail!RailInit
<1>5. SoleDisposition
  BY <1>2 DEF SoleDisposition, Holds
<1>6. AckedAlone
  BY DEF AckedAlone
<1> QED
  BY <1>1, <1>3, <1>4, <1>5, <1>6 DEF Inv

-----------------------------------------------------------------------------

\* The rest of the invariant is about the requests one at a time, the row, the
\* chain and the acknowledgements: a request that is left alone keeps its part.
LEMMA Untouched ==
  ASSUME NEW q \in Requests, Shape(q), Progress(q), req'[q] = req[q],
         landed \subseteq landed',
         Disposing(q) => txReleaseId' = txReleaseId
  PROVE  Shape(q)' /\ Progress(q)'
<1>1. Shape(q)'
  BY DEF Shape
<1>2. Progress(q)'
  BY DEF Progress, Landed, Disposing, Holds, Dispositions
<1> QED
  BY <1>1, <1>2

\* A step of request r that leaves the row and the acknowledgements alone, and
\* gives r no claim it did not have.
LEMMA Frame ==
  ASSUME Inv, NEW r \in Requests, TypeOK', ConfirmedLanded',
         \A q \in Requests \ {r} : req'[q] = req[q],
         Shape(r)', Progress(r)',
         status' = status, txReleaseId' = txReleaseId, acked' = acked,
         landed \subseteq landed',
         Disposing(r)' => Disposing(r) /\ req'[r].to = req[r].to
  PROVE  Inv'
<1>1. \A q \in Requests : Shape(q)' /\ Progress(q)'
  BY Untouched DEF Inv
<1>2. \A q \in Requests : Disposing(q)' => Disposing(q) /\ req'[q].to = req[q].to
  BY DEF Disposing, Holds
<1>3. SoleDisposition'
  BY <1>2 DEF Inv, SoleDisposition, Disposing, Holds
<1>4. AckedAlone'
  BY <1>2 DEF Inv, AckedAlone, Landed
<1> QED
  BY <1>1, <1>3, <1>4 DEF Inv

\* A step that moves no request.
LEMMA StillFrame ==
  ASSUME Inv, TypeOK', ConfirmedLanded', req' = req,
         status' = status, txReleaseId' = txReleaseId, acked' = acked,
         landed \subseteq landed'
  PROVE  Inv'
<1>1. \A q \in Requests : Shape(q)' /\ Progress(q)'
  BY Untouched DEF Inv
<1>2. SoleDisposition'
  BY DEF Inv, SoleDisposition, Holds
<1>3. AckedAlone'
  BY DEF Inv, AckedAlone, Landed, Disposing, Holds
<1> QED
  BY <1>1, <1>2, <1>3 DEF Inv

\* A request that finishes successfully.
LEMMA Acknowledge ==
  ASSUME Inv, NEW r \in Requests, TypeOK', ConfirmedLanded',
         \A q \in Requests \ {r} : req'[q] = req[q],
         req'[r].pc = "idle", req[r].op \in Handlers,
         req[r].pc \in {"emit", "publish", "assign"},
         status' = status, txReleaseId' = txReleaseId,
         acked' = acked \cup {req[r].op},
         landed' = landed
  PROVE  Inv'
<1>1. \A q \in Requests : Shape(q)' /\ Progress(q)'
  <2>1. Shape(r)' /\ Progress(r)'
    BY DEF Shape, Progress
  <2> QED
    BY <2>1, Untouched DEF Inv
<1>2. \A q \in Requests : Disposing(q)' => q # r /\ Disposing(q) /\ req'[q] = req[q]
  BY DEF Disposing, Holds
<1>3. SoleDisposition'
  BY <1>2 DEF Inv, SoleDisposition, Disposing, Holds
<1>4. AckedAlone'
  <2> SUFFICES ASSUME NEW op \in acked' \cap Dispositions
               PROVE  /\ status' = Target[op] /\ txReleaseId' = op /\ Landed(op)'
                      /\ \A q \in Requests : ~Disposing(q)'
    BY DEF AckedAlone
  <2>1. CASE op \in acked
    BY <1>2, <2>1 DEF Inv, AckedAlone, Landed
  <2>2. CASE op = req[r].op
    <3>1. Disposing(r) /\ Shape(r) /\ Progress(r) /\ req[r].pc # "assign"
      BY <2>2, ZenonT(60) DEF Inv, Disposing, Holds, Shape, Dispositions
    <3>2. status = Target[op] /\ \A q \in Requests \ {r} : ~Disposing(q)
      BY <2>2, <3>1, ZenonT(60) DEF Inv, SoleDisposition, Disposing, Holds, Shape
    <3>3. txReleaseId = op /\ Landed(op)
      BY <2>2, <3>1, Tables, ZenonT(60) DEF Progress, Dispositions
    <3> QED
      BY <1>2, <3>2, <3>3 DEF Landed
  <2> QED
    BY <2>1, <2>2
<1> QED
  BY <1>1, <1>3, <1>4 DEF Inv

-----------------------------------------------------------------------------

ReqType == [pc : PCs, op : Handlers \cup {"none", "reconcile"},
            from : Statuses, to : Statuses, leg : 1 .. 2]

\* What Goto and Finish do to the requests.
LEMMA GotoEffect ==
  ASSUME TypeOK, NEW r \in Requests, NEW p \in PCs, Goto(r, p)
  PROVE  /\ req' \in [Requests -> ReqType]
         /\ \A q \in Requests \ {r} : req'[q] = req[q]
         /\ req'[r].pc = p /\ req'[r].op = req[r].op /\ req'[r].from = req[r].from
         /\ req'[r].to = req[r].to /\ req'[r].leg = req[r].leg
  BY ZenonT(60) DEF TypeOK, Goto, ReqType

LEMMA FinishEffect ==
  ASSUME TypeOK, NEW r \in Requests, Finish(r)
  PROVE  /\ req' \in [Requests -> ReqType]
         /\ \A q \in Requests \ {r} : req'[q] = req[q]
         /\ req'[r].pc = "idle"
  BY DEF TypeOK, Finish, ReqType, Idle, PCs, Statuses

\* A request that ends without success leaves the invariant alone.
LEMMA QuietFinish ==
  ASSUME Inv, NEW r \in Requests, Finish(r), TypeOK', ConfirmedLanded',
         status' = status, txReleaseId' = txReleaseId, acked' = acked, landed' = landed
  PROVE  Inv'
<1>1. /\ \A q \in Requests \ {r} : req'[q] = req[q]
      /\ req'[r].pc = "idle"
  BY FinishEffect DEF Inv
<1>2. Shape(r)' /\ Progress(r)' /\ ~Disposing(r)'
  BY <1>1, ZenonT(60) DEF Shape, Progress, Disposing, Holds
<1> QED
  BY <1>1, <1>2, Frame, ZenonT(60)

\* Begin reads a status the table lets the handler leave.
LEMMA BeginInv ==
  ASSUME Inv, NEW r \in Requests, NEW op \in Handlers, Begin(r, op)
  PROVE  Inv'
<1> USE DEF Begin
<1>1. /\ req' \in [Requests -> ReqType]
      /\ \A q \in Requests \ {r} : req'[q] = req[q]
      /\ req'[r].pc = "claim" /\ req'[r].op = op /\ req'[r].from = status
      /\ req'[r].to = Target[op] /\ req'[r].leg = 1
  BY Tables DEF Inv, TypeOK, ReqType, PCs
<1>2. TypeOK' /\ ConfirmedLanded'
  BY <1>1, ZenonT(60) DEF Inv, TypeOK, ReqType, ConfirmedLanded, rowVars, sideVars, logVars,
              breakerVars, Rail!RailTypeOK
<1>3. Shape(r)' /\ Progress(r)' /\ ~Disposing(r)'
  BY <1>1, ZenonT(60) DEF Shape, Progress, Disposing, Holds, Handlers, Target
<1> QED
  BY <1>1, <1>2, <1>3, Frame, ZenonT(60) DEF rowVars, logVars

LEMMA ReconcileInv ==
  ASSUME Inv, NEW r \in Requests, Reconcile(r)
  PROVE  Inv'
<1> USE DEF Reconcile
<1>0. lastKnownStatus(status) \in Statuses
  BY DEF Inv, TypeOK, lastKnownStatus
<1>1. /\ req' \in [Requests -> ReqType]
      /\ \A q \in Requests \ {r} : req'[q] = req[q]
      /\ req'[r].pc = "oblige" /\ req'[r].op = "reconcile" /\ req'[r].to = status
  BY <1>0 DEF Inv, TypeOK, ReqType, PCs
<1>2. TypeOK' /\ ConfirmedLanded'
  BY <1>1, ZenonT(60) DEF Inv, TypeOK, ReqType, ConfirmedLanded, rowVars, sideVars, logVars,
              breakerVars, Rail!RailTypeOK
<1>3. Shape(r)' /\ Progress(r)' /\ ~Disposing(r)'
  BY <1>1, Tables, ZenonT(60) DEF Shape, Progress, Disposing, Holds, Dispositions
<1> QED
  BY <1>1, <1>2, <1>3, Frame DEF rowVars, logVars

\* The claim is where two requests meet: no claim wins from a terminal status,
\* so none wins while another request disposes of the money.
LEMMA ClaimWinsInv ==
  ASSUME Inv, NEW r \in Requests, ClaimWins(r)
  PROVE  Inv'
<1> USE DEF ClaimWins
<1> DEFINE p == IF req[r].op \in Guarded THEN "call" ELSE "emit"
<1>0. p \in PCs
  BY DEF PCs
<1>1. /\ req' \in [Requests -> ReqType]
      /\ \A q \in Requests \ {r} : req'[q] = req[q]
      /\ req'[r].pc = p /\ req'[r].op = req[r].op /\ req'[r].from = req[r].from
      /\ req'[r].to = req[r].to /\ req'[r].leg = req[r].leg
  BY <1>0, GotoEffect, ZenonT(60) DEF Inv
<1>2. TypeOK' /\ ConfirmedLanded'
  BY <1>1 DEF Inv, TypeOK, ReqType, ConfirmedLanded, sideVars, logVars, breakerVars,
              Rail!RailTypeOK
<1>3. /\ Shape(r) /\ req[r].op \in Handlers
      /\ status \in Statuses \ TerminalStatuses
  BY Tables, ZenonT(60) DEF Inv, TypeOK, Shape
<1>4. \A q \in Requests : ~Disposing(q)
  BY <1>3, Tables, ZenonT(60) DEF Inv, SoleDisposition, Disposing, Holds, Shape
<1>5. acked \cap Dispositions = {}
  BY <1>3, Tables, ZenonT(60) DEF Inv, AckedAlone
<1>6. Shape(r)' /\ Progress(r)'
  <2>1. CASE req[r].op \in Guarded
    <3>1. req'[r].pc = "call" /\ req'[r].leg = 1
      BY <1>1, <1>3, <2>1, ZenonT(60) DEF Shape
    <3>2. 1 \in DOMAIN Legs[req[r].op] /\ \A k \in DOMAIN Legs[req[r].op] : ~(k < 1)
      BY <2>1, LegTable
    <3> QED
      BY <1>1, <1>3, <2>1, <3>1, <3>2, ZenonT(60) DEF Shape, Progress
  <2>2. CASE req[r].op \notin Guarded
    BY <1>1, <1>3, <2>2, Tables, ZenonT(60) DEF Shape, Progress, Dispositions
  <2> QED
    BY <2>1, <2>2
<1>7. \A q \in Requests : Shape(q)' /\ Progress(q)'
  BY <1>1, <1>6, Untouched, ZenonT(60) DEF Inv
<1>8. SoleDisposition'
  BY <1>1, <1>4 DEF SoleDisposition, Disposing, Holds
<1>9. AckedAlone'
  BY <1>5, ZenonT(60) DEF AckedAlone, logVars
<1> QED
  BY <1>2, <1>7, <1>8, <1>9 DEF Inv

\* The refused and the lost claims only touch the breaker.
LEMMA ClaimEndsInv ==
  ASSUME Inv, NEW r \in Requests, ClaimRefused(r) \/ ClaimLost(r)
  PROVE  Inv'
<1>1. Finish(r) /\ UNCHANGED <<rowVars, sideVars, logVars, faults, attempt, landed>>
  BY ZenonT(60) DEF ClaimRefused, ClaimLost
<1>2. conflicts' \in 0 .. failureThreshold /\ circuitOpen' \in BOOLEAN
  <2>1. CASE UNCHANGED breakerVars
    BY <2>1 DEF Inv, TypeOK, breakerVars
  <2>2. CASE recordEscrowConflict
    <3>1. conflicts' \in 0 .. failureThreshold
      BY <2>2, ThresholdAssumption DEF Inv, TypeOK, recordEscrowConflict
    <3>2. circuitOpen' \in BOOLEAN
      BY <2>2, ZenonT(60) DEF Inv, TypeOK, recordEscrowConflict
    <3> QED
      BY <3>1, <3>2
  <2> QED
    BY <2>1, <2>2, ZenonT(60) DEF ClaimRefused, ClaimLost
<1>3. TypeOK' /\ ConfirmedLanded'
  BY <1>1, <1>2, FinishEffect
  DEF Inv, TypeOK, ReqType, ConfirmedLanded, rowVars, sideVars, logVars, Rail!RailTypeOK
<1> QED
  BY <1>1, <1>3, QuietFinish DEF rowVars, logVars

\* The provider's steps and the chain's.
LEMMA RailTypes ==
  ASSUME Inv, NEW o \in Operations,
         \/ Rail!RailSubmit(o) \/ Rail!RailConfirm(o) \/ Rail!RailPending(o)
         \/ Rail!RailReverted(o) \/ Rail!RailLand(o) \/ UNCHANGED <<attempt, landed>>
  PROVE  Rail!RailTypeOK' /\ ConfirmedLanded' /\ landed \subseteq landed'
<1> USE DEF Inv, TypeOK, Rail!RailTypeOK, ConfirmedLanded, Rail!AttemptStates
<1>1. CASE Rail!RailSubmit(o)
  BY <1>1 DEF Rail!RailSubmit
<1>2. CASE Rail!RailConfirm(o)
  BY <1>2 DEF Rail!RailConfirm
<1>3. CASE Rail!RailPending(o)
  BY <1>3 DEF Rail!RailPending
<1>4. CASE Rail!RailReverted(o)
  BY <1>4 DEF Rail!RailReverted
<1>5. CASE Rail!RailLand(o)
  BY <1>5 DEF Rail!RailLand
<1>6. CASE UNCHANGED <<attempt, landed>>
  BY <1>6
<1> QED
  BY <1>1, <1>2, <1>3, <1>4, <1>5, <1>6

\* The transfer a request is at is one of the rail's operations.
LEMMA LegInOperations ==
  ASSUME Inv, NEW r \in Requests, req[r].pc \in {"call", "sent"}
  PROVE  Leg(r) \in Operations /\ req[r].op \in Guarded
  BY LegTable, ZenonT(60) DEF Inv, Shape, Leg

\* A provider step that hands the request on to "sent" or to "revert".
LEMMA ProviderGoesOn ==
  ASSUME Inv, NEW r \in Requests, NEW p \in {"sent", "revert"},
         req[r].pc \in {"call", "sent"}, Goto(r, p),
         Rail!RailTypeOK', ConfirmedLanded', landed \subseteq landed',
         faults' \in 0 .. MaxFaults,
         UNCHANGED <<rowVars, sideVars, logVars, breakerVars>>
  PROVE  Inv'
<1>1. /\ req' \in [Requests -> ReqType]
      /\ \A q \in Requests \ {r} : req'[q] = req[q]
      /\ req'[r].pc = p /\ req'[r].op = req[r].op /\ req'[r].from = req[r].from
      /\ req'[r].to = req[r].to /\ req'[r].leg = req[r].leg
  BY GotoEffect, ZenonT(60) DEF Inv, PCs
<1>2. TypeOK'
  BY <1>1 DEF Inv, TypeOK, ReqType, rowVars, sideVars, logVars, breakerVars
<1>3. Shape(r)'
  BY <1>1, LegInOperations, ZenonT(60) DEF Inv, Shape, Guarded, Legs
<1>4. Progress(r)'
  BY <1>1, ZenonT(60) DEF Inv, Progress
<1>5. Disposing(r)' => Disposing(r)
  BY <1>1, ZenonT(60) DEF Disposing, Holds
<1> QED
  BY <1>1, <1>2, <1>3, <1>4, <1>5, Frame, ZenonT(60) DEF rowVars, logVars

\* A provider step that completes the request's leg.
LEMMA ProviderLegDone ==
  ASSUME Inv, NEW r \in Requests, req[r].pc \in {"call", "sent"}, LegDone(r),
         Rail!RailTypeOK', ConfirmedLanded', landed' = landed, Leg(r) \in landed,
         unchangedByProvider
  PROVE  Inv'
<1>0. req[r].op \in Guarded /\ req[r].leg \in 1 .. 2 /\ Shape(r) /\ Progress(r)
  BY LegInOperations DEF Inv, TypeOK
<1>1. CASE req[r].leg = Len(Legs[req[r].op])
  <2>1. /\ req' \in [Requests -> ReqType]
        /\ \A q \in Requests \ {r} : req'[q] = req[q]
        /\ req'[r].pc = "record" /\ req'[r].op = req[r].op /\ req'[r].from = req[r].from
        /\ req'[r].to = req[r].to /\ req'[r].leg = req[r].leg
    BY <1>1, GotoEffect DEF Inv, PCs, LegDone
  <2>2. TypeOK'
    BY <2>1 DEF Inv, TypeOK, ReqType, rowVars, sideVars, logVars, breakerVars,
                unchangedByProvider
  <2>3. Shape(r)'
    BY <1>0, <2>1, ZenonT(60) DEF Shape, Guarded, Legs
  <2>4. Progress(r)'
    <3>1. \A k \in DOMAIN Legs[req[r].op] : k < req[r].leg \/ k = req[r].leg
      BY <1>0, <1>1, LegTable
    <3> QED
      BY <1>0, <2>1, <3>1, ZenonT(60) DEF Progress, Landed, Leg
  <2>5. Disposing(r)' => Disposing(r)
    BY <2>1, ZenonT(60) DEF Disposing, Holds
  <2> QED
    BY <2>1, <2>2, <2>3, <2>4, <2>5, Frame, ZenonT(60) DEF rowVars, logVars, unchangedByProvider
<1>2. CASE req[r].leg # Len(Legs[req[r].op])
  <2>0. req[r].leg + 1 \in DOMAIN Legs[req[r].op] /\ req[r].leg + 1 \in 1 .. 2
    <3> DEFINE n == Len(Legs[req[r].op])
    <3>1. n \in 1 .. 2 /\ req[r].leg \in 1 .. n /\ DOMAIN Legs[req[r].op] = 1 .. n
      BY <1>0, LegTable, ZenonT(60) DEF Shape
    <3>2. n # req[r].leg
      BY <1>2
    <3> HIDE DEF n
    <3> QED
      BY <3>1, <3>2
  <2>1. /\ req' \in [Requests -> ReqType]
        /\ \A q \in Requests \ {r} : req'[q] = req[q]
        /\ req'[r].pc = "call" /\ req'[r].op = req[r].op /\ req'[r].from = req[r].from
        /\ req'[r].to = req[r].to /\ req'[r].leg = req[r].leg + 1
    <3>1. req \in [Requests -> ReqType]
      BY DEF Inv, TypeOK, ReqType
    <3>2. req' = [req EXCEPT ![r].leg = req[r].leg + 1, ![r].pc = "call"]
      BY <1>2 DEF LegDone
    <3> QED
      BY <2>0, <3>1, <3>2, ZenonT(60) DEF ReqType, PCs
  <2>2. TypeOK'
    BY <2>1 DEF Inv, TypeOK, ReqType, rowVars, sideVars, logVars, breakerVars,
                unchangedByProvider
  <2>3. Shape(r)'
    BY <1>0, <2>0, <2>1, ZenonT(60) DEF Shape
  <2>4. Progress(r)'
    <3>1. \A k \in DOMAIN Legs[req[r].op] : k < req[r].leg + 1 => k < req[r].leg \/ k = req[r].leg
      BY <1>0, LegTable
    <3> QED
      BY <1>0, <2>1, <3>1, ZenonT(60) DEF Progress, Leg
  <2>5. Disposing(r)' => Disposing(r)
    BY <2>1, ZenonT(60) DEF Disposing, Holds
  <2> QED
    BY <2>1, <2>2, <2>3, <2>4, <2>5, Frame, ZenonT(60) DEF rowVars, logVars, unchangedByProvider
<1> QED
  BY <1>1, <1>2

LEMMA ProviderInv ==
  ASSUME Inv, NEW r \in Requests,
         \/ CallProvider(r) \/ ResumeConfirmed(r) \/ ProviderReturns(r)
         \/ ProviderRefuses(r) \/ ProviderPending(r) \/ ProviderThrows(r)
  PROVE  Inv'
<1>0. Leg(r) \in Operations
  BY LegInOperations, ZenonT(60)
  DEF CallProvider, ResumeConfirmed, ProviderRefuses, ProviderReturns, ProviderPending,
      ProviderThrows
<1>1. Rail!RailTypeOK' /\ ConfirmedLanded' /\ landed \subseteq landed'
  BY <1>0, RailTypes, ZenonT(60)
  DEF CallProvider, ResumeConfirmed, ProviderRefuses, ProviderReturns, ProviderPending,
      ProviderThrows
<1>2. CASE CallProvider(r) \/ ProviderRefuses(r) \/ ProviderPending(r)
  BY <1>1, <1>2, ProviderGoesOn, ZenonT(60)
  DEF CallProvider, ProviderRefuses, ProviderPending, unchangedByProvider, Inv, TypeOK
<1>3. CASE ProviderThrows(r)
  <2>1. faults' \in 0 .. MaxFaults
    BY <1>3, FaultsAssumption DEF ProviderThrows, Fault, Inv, TypeOK
  <2> QED
    BY <1>1, <1>3, <2>1, ProviderGoesOn, ZenonT(60) DEF ProviderThrows
<1>4. CASE ResumeConfirmed(r)
  <2>1. Leg(r) \in landed /\ landed' = landed
    BY <1>0, <1>4, ZenonT(60) DEF ResumeConfirmed, Rail!RailConfirm, Inv, ConfirmedLanded
  <2> QED
    BY <1>1, <1>4, <2>1, ProviderLegDone, ZenonT(60) DEF ResumeConfirmed
<1>5. CASE ProviderReturns(r)
  <2>1. Leg(r) \in landed /\ landed' = landed
    BY <1>5 DEF ProviderReturns, Rail!RailConfirm
  <2> QED
    BY <1>1, <1>5, <2>1, ProviderLegDone, ZenonT(60) DEF ProviderReturns
<1> QED
  BY <1>2, <1>3, <1>4, <1>5

LEMMA LandInv ==
  ASSUME Inv, NEW o \in Operations, Land(o)
  PROVE  Inv'
<1>1. Rail!RailTypeOK' /\ ConfirmedLanded' /\ landed \subseteq landed'
  BY RailTypes DEF Land
<1>2. TypeOK'
  BY <1>1 DEF Land, Inv, TypeOK, rowVars, sideVars, logVars, breakerVars
<1> QED
  BY <1>1, <1>2, StillFrame DEF Land, rowVars, logVars

-----------------------------------------------------------------------------
(* The remaining steps of a request.                                      *)

\* Only the one request that disposes of the money writes txReleaseId.
LEMMA RecordResultInv ==
  ASSUME Inv, NEW r \in Requests, RecordResult(r)
  PROVE  Inv'
<1> USE DEF RecordResult
<1> DEFINE p == IF req[r].op = "lock" THEN "emit" ELSE "oblige"
<1>0. p \in PCs /\ req[r].op \in Guarded /\ Shape(r) /\ Progress(r)
  BY ZenonT(60) DEF PCs, Inv, Shape
<1>1. /\ req' \in [Requests -> ReqType]
      /\ \A q \in Requests \ {r} : req'[q] = req[q]
      /\ req'[r].pc = p /\ req'[r].op = req[r].op /\ req'[r].from = req[r].from
      /\ req'[r].to = req[r].to /\ req'[r].leg = req[r].leg
  BY <1>0, GotoEffect DEF Inv
<1>2. txReleaseId' \in {"none"} \cup Dispositions /\ txLockId' \in BOOLEAN
  BY <1>0, Tables, ZenonT(60) DEF Inv, TypeOK, Dispositions
<1>3. TypeOK' /\ ConfirmedLanded'
  BY <1>1, <1>2 DEF Inv, TypeOK, ReqType, ConfirmedLanded, sideVars, logVars, breakerVars,
                    Rail!RailTypeOK
<1>4. CASE req[r].op = "lock"
  <2>1. Shape(r)' /\ Progress(r)'
    <3>1. Shape(r)'
      BY <1>0, <1>1, <1>4 DEF Shape
    <3>2. Progress(r)'
      BY <1>0, <1>1, <1>4 DEF Progress, Landed, Dispositions
    <3> QED
      BY <3>1, <3>2
  <2>2. Disposing(r)' => Disposing(r)
    BY ZenonT(60), <1>1 DEF Disposing, Holds
  <2> QED
    BY <1>1, <1>3, <1>4, <2>1, <2>2, Frame DEF logVars
<1>5. CASE req[r].op # "lock"
  <2>1. req[r].op \in Dispositions /\ txReleaseId' = req[r].op /\ Disposing(r)
    BY <1>0, <1>5, Tables DEF Dispositions, Disposing, Holds
  <2>2. \A q \in Requests \ {r} : ~Disposing(q)
    BY <2>1 DEF Inv, SoleDisposition, Disposing, Holds
  <2>3. acked \cap Dispositions = {}
    BY ZenonT(60), <2>1 DEF Inv, AckedAlone
  <2>4. Shape(r)'
    BY <1>0, <1>1, <1>5, <2>1 DEF Shape, Dispositions
  <2>5. Progress(r)'
    BY <1>0, <1>1, <1>5, <2>1, ZenonT(60) DEF Progress, Landed
  <2>6. \A q \in Requests : Shape(q)' /\ Progress(q)'
    BY ZenonT(60), <1>1, <2>2, <2>4, <2>5, Untouched DEF Inv
  <2>7. SoleDisposition'
    BY <1>1, <2>1, <2>2, ZenonT(60) DEF Inv, SoleDisposition, Disposing, Holds
  <2>8. AckedAlone'
    BY ZenonT(60), <2>3 DEF AckedAlone, logVars
  <2> QED
    BY <1>3, <2>6, <2>7, <2>8 DEF Inv
<1> QED
  BY <1>4, <1>5

\* Steps that only move the request's program counter or write other tables.
LEMMA RecordObligationInv ==
  ASSUME Inv, NEW r \in Requests, RecordObligation(r)
  PROVE  Inv'
<1> USE DEF RecordObligation
<1>0. Shape(r) /\ Progress(r) /\ req[r].to \in TerminalStatuses
  BY Tables, ZenonT(60) DEF Inv, Shape
<1>1. /\ req' \in [Requests -> ReqType]
      /\ \A q \in Requests \ {r} : req'[q] = req[q]
      /\ req'[r].pc = "emit" /\ req'[r].op = req[r].op /\ req'[r].from = req[r].from
      /\ req'[r].to = req[r].to /\ req'[r].leg = req[r].leg
  BY GotoEffect DEF Inv, PCs
<1>2. obligation' \in {"none"} \cup Dispositions
  <2>1. DispositionOf[req[r].to] \in Dispositions
    BY <1>0 DEF DispositionOf, Dispositions, TerminalStatuses
  <2> QED
    BY <2>1 DEF Inv, TypeOK
<1>3. TypeOK' /\ ConfirmedLanded'
  BY ZenonT(60), <1>1, <1>2 DEF Inv, TypeOK, ReqType, ConfirmedLanded, sideVars, logVars, breakerVars,
                    Rail!RailTypeOK
<1>4. Shape(r)'
  BY ZenonT(60), <1>0, <1>1 DEF Shape
<1>5. Progress(r)'
  BY <1>0, <1>1 DEF Progress, Landed
<1>6. Disposing(r)' => Disposing(r)
  BY <1>1 DEF Disposing, Holds
<1> QED
  BY <1>1, <1>3, <1>4, <1>5, <1>6, Frame DEF logVars

LEMMA EmitRowInv ==
  ASSUME Inv, NEW r \in Requests, EmitRow(r)
  PROVE  Inv'
<1> USE DEF EmitRow
<1>0. Shape(r) /\ Progress(r) /\ req[r] \in ReqType
  BY DEF Inv, TypeOK, ReqType
<1>1. /\ req' \in [Requests -> ReqType]
      /\ \A q \in Requests \ {r} : req'[q] = req[q]
      /\ req'[r].pc = "publish" /\ req'[r].op = req[r].op /\ req'[r].from = req[r].from
      /\ req'[r].to = req[r].to /\ req'[r].leg = req[r].leg
  BY GotoEffect, ZenonT(60) DEF Inv, PCs
<1>2. events' \in Seq(Statuses \X Statuses)
  BY <1>0 DEF Inv, TypeOK, ReqType
<1>3. TypeOK' /\ ConfirmedLanded'
  BY <1>1, <1>2 DEF Inv, TypeOK, ReqType, ConfirmedLanded, rowVars, sideVars, breakerVars,
                    Rail!RailTypeOK
<1>4. Shape(r)'
  BY <1>0, <1>1, ZenonT(60) DEF Shape
<1>5. Progress(r)'
  BY <1>0, <1>1, ZenonT(60) DEF Progress, Landed, rowVars
<1>6. Disposing(r)' => Disposing(r)
  BY <1>1 DEF Disposing, Holds
<1> QED
  BY <1>1, <1>3, <1>4, <1>5, <1>6, Frame, ZenonT(60) DEF rowVars

\* The handler returns, after skipping the event or after publishing it.
LEMMA ReturnedInv ==
  ASSUME Inv, NEW r \in Requests, req[r].pc \in {"emit", "publish"}, Returned(r),
         bus' \in Seq(Statuses),
         UNCHANGED <<rowVars, sideVars, events, breakerVars, faults, attempt, landed>>
  PROVE  Inv'
<1>0. Shape(r) /\ Progress(r) /\ req[r].op \in Handlers \cup {"reconcile"}
  BY ZenonT(60) DEF Inv, Shape
<1>1. ConfirmedLanded' /\ Rail!RailTypeOK'
  BY DEF Inv, TypeOK, ConfirmedLanded, Rail!RailTypeOK
<1>2. CASE req[r].op = "dispute"
  <2>1. Goto(r, "row") /\ acked' = acked
    BY <1>2 DEF Returned
  <2>2. /\ req' \in [Requests -> ReqType]
        /\ \A q \in Requests \ {r} : req'[q] = req[q]
        /\ req'[r].pc = "row" /\ req'[r].op = req[r].op /\ req'[r].from = req[r].from
        /\ req'[r].to = req[r].to /\ req'[r].leg = req[r].leg
    BY <2>1, GotoEffect, ZenonT(60) DEF Inv, PCs
  <2>3. TypeOK'
    BY <1>1, <2>1, <2>2 DEF Inv, TypeOK, ReqType, rowVars, sideVars, breakerVars
  <2>4. Shape(r)' /\ Progress(r)' /\ ~Disposing(r)'
    BY <1>0, <1>2, <2>2, ZenonT(60) DEF Shape, Progress, Disposing, Dispositions
  <2> QED
    BY <1>1, <2>1, <2>2, <2>3, <2>4, Frame, ZenonT(60) DEF rowVars
<1>3. CASE req[r].op = "reconcile"
  <2>1. Finish(r) /\ acked' = acked
    BY <1>3 DEF Returned
  <2>2. TypeOK'
    BY <1>1, <2>1, FinishEffect DEF Inv, TypeOK, ReqType, rowVars, sideVars, breakerVars
  <2> QED
    BY <1>1, <2>1, <2>2, QuietFinish, ZenonT(60) DEF rowVars
<1>4. CASE req[r].op \notin {"dispute", "reconcile"}
  <2>1. Finish(r) /\ acked' = acked \cup {req[r].op}
    BY <1>4 DEF Returned
  <2>2. TypeOK'
    BY <1>0, <1>1, <1>4, <2>1, FinishEffect
    DEF Inv, TypeOK, ReqType, rowVars, sideVars, breakerVars
  <2>3. /\ \A q \in Requests \ {r} : req'[q] = req[q]
        /\ req'[r].pc = "idle"
    BY <2>1, FinishEffect, ZenonT(60) DEF Inv
  <2> QED
    BY <1>0, <1>1, <1>4, <2>1, <2>2, <2>3, Acknowledge, ZenonT(60) DEF rowVars
<1> QED
  BY <1>2, <1>3, <1>4

LEMMA EmitSkippedInv ==
  ASSUME Inv, NEW r \in Requests, EmitSkipped(r)
  PROVE  Inv'
  BY ReturnedInv DEF EmitSkipped, Inv, TypeOK

LEMMA PublishInv ==
  ASSUME Inv, NEW r \in Requests, Publish(r)
  PROVE  Inv'
<1>1. bus' \in Seq(Statuses)
  BY DEF Publish, Inv, TypeOK
<1> QED
  BY <1>1, ReturnedInv DEF Publish

LEMMA CreateDisputeInv ==
  ASSUME Inv, NEW r \in Requests, CreateDispute(r)
  PROVE  Inv'
<1> USE DEF CreateDispute
<1>0. Shape(r) /\ req[r].op = "dispute"
  BY ZenonT(60) DEF Inv, Shape
<1>1. ConfirmedLanded'
  BY DEF Inv, ConfirmedLanded
<1>2. CASE dispute = "none"
  <2>1. /\ req' \in [Requests -> ReqType]
        /\ \A q \in Requests \ {r} : req'[q] = req[q]
        /\ req'[r].pc = "assign" /\ req'[r].op = req[r].op /\ req'[r].from = req[r].from
        /\ req'[r].to = req[r].to /\ req'[r].leg = req[r].leg
    BY <1>2, GotoEffect, ZenonT(60) DEF Inv, PCs
  <2>2. TypeOK'
    BY <1>2, <2>1 DEF Inv, TypeOK, ReqType, rowVars, logVars, breakerVars, Rail!RailTypeOK
  <2>3. Shape(r)' /\ Progress(r)' /\ ~Disposing(r)'
    BY <1>0, <2>1, ZenonT(60) DEF Shape, Progress, Disposing, Dispositions
  <2> QED
    BY <1>1, <2>1, <2>2, <2>3, Frame, ZenonT(60) DEF rowVars, logVars
<1>3. CASE dispute # "none"
  <2>1. TypeOK'
    BY <1>3, FinishEffect
    DEF Inv, TypeOK, ReqType, rowVars, logVars, breakerVars, Rail!RailTypeOK
  <2> QED
    BY <1>1, <1>3, <2>1, QuietFinish, ZenonT(60) DEF rowVars, logVars
<1> QED
  BY <1>2, <1>3

LEMMA AssignArbiterInv ==
  ASSUME Inv, NEW r \in Requests, AssignArbiter(r)
  PROVE  Inv'
<1> USE DEF AssignArbiter
<1>0. Shape(r) /\ req[r].op = "dispute"
  BY ZenonT(60) DEF Inv, Shape
<1>1. ConfirmedLanded'
  BY DEF Inv, ConfirmedLanded
<1>2. TypeOK'
  BY FinishEffect, Tables, ZenonT(60)
  DEF Inv, TypeOK, ReqType, rowVars, breakerVars, Rail!RailTypeOK
<1>3. /\ \A q \in Requests \ {r} : req'[q] = req[q]
      /\ req'[r].pc = "idle"
  BY FinishEffect DEF Inv
<1> QED
  BY <1>0, <1>1, <1>2, <1>3, Acknowledge, Tables, ZenonT(60) DEF rowVars

LEMMA ThrowInv ==
  ASSUME Inv, NEW r \in Requests, Throw(r)
  PROVE  Inv'
<1> USE DEF Throw
<1>0. Shape(r) /\ faults' \in 0 .. MaxFaults
  BY FaultsAssumption DEF Inv, TypeOK, Fault
<1>1. ConfirmedLanded'
  BY ZenonT(60) DEF Inv, ConfirmedLanded
<1>2. CASE req[r].op \in Guarded
  <2>1. /\ req' \in [Requests -> ReqType]
        /\ \A q \in Requests \ {r} : req'[q] = req[q]
        /\ req'[r].pc = "revert" /\ req'[r].op = req[r].op /\ req'[r].from = req[r].from
        /\ req'[r].to = req[r].to /\ req'[r].leg = req[r].leg
    BY <1>2, GotoEffect, ZenonT(60) DEF Inv, PCs
  <2>2. TypeOK'
    BY <1>0, <2>1 DEF Inv, TypeOK, ReqType, rowVars, sideVars, logVars, breakerVars,
                      Rail!RailTypeOK
  <2>3. Shape(r)' /\ Progress(r)'
    BY <1>0, <1>2, <2>1, Tables, ZenonT(60) DEF Shape, Progress
  <2>4. Disposing(r)' => Disposing(r)
    BY <2>1 DEF Disposing, Holds
  <2> QED
    BY <1>1, <2>1, <2>2, <2>3, <2>4, Frame, ZenonT(60) DEF rowVars, logVars
<1>3. CASE req[r].op \notin Guarded
  <2>1. TypeOK'
    BY <1>0, <1>3, FinishEffect
    DEF Inv, TypeOK, ReqType, rowVars, sideVars, logVars, breakerVars, Rail!RailTypeOK
  <2> QED
    BY <1>1, <1>3, <2>1, QuietFinish, ZenonT(60) DEF rowVars, logVars
<1> QED
  BY <1>2, <1>3

\* A revert moves the row only for the request whose claim the row still shows.
LEMMA RevertInv ==
  ASSUME Inv, NEW r \in Requests, Revert(r)
  PROVE  Inv'
<1> USE DEF Revert
<1>0. Shape(r) /\ req[r].op \in Guarded /\ Holds(r) /\ req[r] \in ReqType
  BY Tables, ZenonT(60) DEF Inv, TypeOK, ReqType, Shape, Holds
<1>1. /\ req' \in [Requests -> ReqType]
      /\ \A q \in Requests \ {r} : req'[q] = req[q]
      /\ req'[r].pc = "idle"
  BY FinishEffect, ZenonT(60) DEF Inv
<1>2. status' \in Statuses /\ faults' \in 0 .. MaxFaults
  BY <1>0, FaultsAssumption DEF Inv, TypeOK, ReqType, Fault
<1>3. TypeOK' /\ ConfirmedLanded'
  BY <1>1, <1>2 DEF Inv, TypeOK, ReqType, ConfirmedLanded, sideVars, logVars, breakerVars,
                    Rail!RailTypeOK
<1>4. Shape(r)' /\ Progress(r)'
  BY <1>1, ZenonT(60) DEF Shape, Progress
<1>5. \A q \in Requests : Shape(q)' /\ Progress(q)'
  BY <1>1, <1>4, Untouched, ZenonT(60) DEF Inv
<1>6. \A q \in Requests : Disposing(q)' => q # r /\ Disposing(q) /\ req'[q] = req[q]
  BY <1>1, ZenonT(60) DEF Disposing, Holds
<1>7. ASSUME NEW q \in Requests, q # r, Disposing(q)
      PROVE  status' = status
  <2>1. status = req[q].to /\ req[q].to \in TerminalStatuses /\ ~Disposing(r)
    BY <1>7, Tables, ZenonT(60) DEF Inv, SoleDisposition, Disposing, Holds, Shape
  <2>2. req[r].to \notin TerminalStatuses
    BY <1>0, <2>1, Tables, ZenonT(60) DEF Disposing, Shape
  <2> QED
    BY <2>1, <2>2, ZenonT(60)
<1>8. SoleDisposition'
  BY <1>1, <1>6, <1>7, ZenonT(60) DEF Inv, SoleDisposition, Disposing, Holds
<1>9. AckedAlone'
  <2> SUFFICES ASSUME NEW op \in acked \cap Dispositions
               PROVE  /\ status' = Target[op] /\ txReleaseId' = op /\ Landed(op)'
                      /\ \A q \in Requests : ~Disposing(q)'
    BY ZenonT(60) DEF AckedAlone, logVars
  <2>1. /\ status = Target[op] /\ txReleaseId = op /\ Landed(op)
        /\ \A q \in Requests : ~Disposing(q)
    BY ZenonT(60) DEF Inv, AckedAlone
  <2>2. req[r].to \notin TerminalStatuses /\ status \in TerminalStatuses
    BY <1>0, <2>1, Tables, ZenonT(60) DEF Disposing, Shape
  <2> QED
    BY <1>6, <2>1, <2>2, ZenonT(60) DEF Landed
<1> QED
  BY <1>3, <1>5, <1>8, <1>9, ZenonT(60) DEF Inv

LEMMA CrashInv ==
  ASSUME Inv, NEW r \in Requests, Crash(r)
  PROVE  Inv'
<1> USE DEF Crash
<1>0. faults' \in 0 .. MaxFaults /\ ConfirmedLanded'
  BY FaultsAssumption DEF Inv, TypeOK, Fault, ConfirmedLanded
<1>1. TypeOK'
  BY <1>0, FinishEffect
  DEF Inv, TypeOK, ReqType, rowVars, sideVars, logVars, breakerVars, Rail!RailTypeOK
<1> QED
  BY <1>0, <1>1, QuietFinish, ZenonT(60) DEF rowVars, logVars

\* Approvals, the breaker's timers and stuttering.
LEMMA BystanderInv ==
  ASSUME Inv,
         \/ \E party \in Approvers : approveRelease(party)
         \/ WindowEnds \/ CooldownEnds \/ UNCHANGED vars
  PROVE  Inv'
<1>1. /\ UNCHANGED <<rowVars, dispute, logVars, req, faults, attempt, landed>>
      /\ ConfirmedLanded' /\ Rail!RailTypeOK'
  BY DEF Inv, TypeOK, approveRelease, WindowEnds, CooldownEnds, vars, ConfirmedLanded,
     Rail!RailTypeOK, sideVars
<1>2. approvals' \subseteq Approvers
  BY DEF Inv, TypeOK, approveRelease, WindowEnds, CooldownEnds, vars, sideVars
<1>3. conflicts' \in 0 .. failureThreshold
  BY ThresholdAssumption
  DEF Inv, TypeOK, approveRelease, WindowEnds, CooldownEnds, vars, breakerVars
<1>4. circuitOpen' \in BOOLEAN
  BY ZenonT(60) DEF Inv, TypeOK, approveRelease, WindowEnds, CooldownEnds, vars, breakerVars
<1>5. TypeOK'
  BY <1>1, <1>2, <1>3, <1>4 DEF Inv, TypeOK, rowVars, logVars
<1> QED
  BY <1>1, <1>5, StillFrame DEF rowVars, logVars

LEMMA NextInv == Inv /\ [Next]_vars => Inv'
<1> SUFFICES ASSUME Inv, [Next]_vars PROVE Inv'
  OBVIOUS
<1>1. ASSUME NEW r \in Requests, NEW op \in Handlers, Begin(r, op) PROVE Inv'
  BY <1>1, BeginInv
<1>2. ASSUME NEW r \in Requests, SweepExpired(r) PROVE Inv'
  BY <1>2, BeginInv, Tables DEF SweepExpired
<1>3. ASSUME NEW r \in Requests, Reconcile(r) PROVE Inv'
  BY <1>3, ReconcileInv
<1>4. ASSUME NEW r \in Requests, Crash(r) PROVE Inv'
  BY <1>4, CrashInv
<1>5. ASSUME NEW r \in Requests, Step(r) PROVE Inv'
  BY <1>5, ClaimEndsInv, ClaimWinsInv, ProviderInv, RecordResultInv, RecordObligationInv,
     EmitRowInv, EmitSkippedInv, PublishInv, CreateDisputeInv, AssignArbiterInv,
     ThrowInv, RevertInv
  DEF Step
<1>6. ASSUME NEW o \in Operations, Land(o) PROVE Inv'
  BY <1>6, LandInv
<1> QED
  BY <1>1, <1>2, <1>3, <1>4, <1>5, <1>6, BystanderInv DEF Next

\* The inductive invariant holds in every state the handlers, the provider, the
\* chain, the reconciler and crashes can reach: what a request's program counter
\* says of its claim, its legs and the money agrees with the row and the chain.
THEOREM Invariance == Spec => []Inv
<1>1. Init => Inv
  BY InitInv
<1>2. Inv /\ [Next]_vars => Inv'
  BY NextInv
<1> QED
  BY <1>1, <1>2, PTL DEF Spec

\* Every variable keeps its type through every handler, failure and crash.
THEOREM TypeCorrect == Spec => []TypeOK
<1>1. Inv => TypeOK
  BY DEF Inv
<1> QED
  BY <1>1, Invariance, PTL

\* Claim before execute: of all requests, retries and sweeps in flight, at most
\* one can be between its claim of a terminal status and its answer.
THEOREM OneDispositionAtATime == Spec => []SoleDisposition
<1>1. Inv => SoleDisposition
  BY DEF Inv
<1> QED
  BY <1>1, Invariance, PTL

\* A release, refund or split that answered success is never undone: its status,
\* its recorded transaction and its transfers stay what was acknowledged.
THEOREM AcknowledgedStays == Spec => []AckedIsFinal
<1>1. Inv => AckedIsFinal
  BY ZenonT(60) DEF Inv, AckedAlone, AckedIsFinal, Landed
<1> QED
  BY <1>1, Invariance, PTL

-----------------------------------------------------------------------------
(* What is announced, under whose control, and the lifecycle.              *)

\* The effect of a step on its request: it ends, or it goes on after its claim
\* with the fields it has.
Ends(r) ==
  /\ \A q \in Requests \ {r} : req'[q] = req[q]
  /\ req'[r].pc = "idle"

GoesOn(r) ==
  /\ \A q \in Requests \ {r} : req'[q] = req[q]
  /\ req[r].pc \notin {"idle", "claim"} /\ req'[r].pc \notin {"idle", "claim", "publish"}
  /\ req'[r].op = req[r].op /\ req'[r].from = req[r].from /\ req'[r].to = req[r].to

\* A step that moves no status and announces nothing.
Quiet ==
  /\ UNCHANGED <<status, events, bus>>
  /\ landed \subseteq landed' /\ approvals \subseteq approvals'
  /\ dispute = "assigned" => dispute' = "assigned"

\* The calls of the provider go on, or fail into the catch block.
LEMMA ProviderKind ==
  ASSUME Inv, NEW r \in Requests,
         \/ CallProvider(r) \/ ResumeConfirmed(r) \/ ProviderRefuses(r)
         \/ ProviderReturns(r) \/ ProviderPending(r) \/ ProviderThrows(r)
  PROVE  Quiet /\ obligation' = obligation /\ GoesOn(r)
<1>1. Quiet /\ obligation' = obligation
  BY ZenonT(60) DEF Quiet, CallProvider, ResumeConfirmed, ProviderRefuses, ProviderReturns, ProviderPending,
         ProviderThrows, unchangedByProvider, rowVars, sideVars, logVars, Rail!RailSubmit,
         Rail!RailConfirm, Rail!RailPending, Rail!RailReverted
<1>2. req[r].pc \in {"call", "sent"}
  BY ZenonT(60) DEF CallProvider, ResumeConfirmed, ProviderRefuses, ProviderReturns, ProviderPending,
         ProviderThrows
<1>3. ASSUME NEW p \in PCs \ {"idle", "claim", "publish"}, Goto(r, p)
      PROVE  GoesOn(r)
  BY <1>2, <1>3, GotoEffect DEF Inv, GoesOn
<1>4. ASSUME LegDone(r)
      PROVE  GoesOn(r)
  <2>1. CASE Goto(r, "record")
    BY <1>3, <2>1 DEF PCs
  <2>2. CASE req' = [req EXCEPT ![r].leg = req[r].leg + 1, ![r].pc = "call"]
    BY ZenonT(60), <1>2, <2>2 DEF GoesOn, Inv, TypeOK
  <2> QED BY <1>4, <2>1, <2>2 DEF LegDone
<1>5. CASE ResumeConfirmed(r) \/ ProviderReturns(r)
  BY ZenonT(60), <1>1, <1>4, <1>5 DEF ResumeConfirmed, ProviderReturns
<1>6. CASE CallProvider(r) \/ ProviderRefuses(r) \/ ProviderPending(r) \/ ProviderThrows(r)
  BY ZenonT(60), <1>1, <1>3, <1>6 DEF CallProvider, ProviderRefuses, ProviderPending, ProviderThrows, PCs
<1> QED BY ZenonT(60), <1>5, <1>6

\* What else a request does between its claim and its end.
LEMMA OtherKind ==
  ASSUME Inv, NEW r \in Requests,
         \/ ClaimRefused(r) \/ ClaimLost(r) \/ RecordResult(r) \/ EmitSkipped(r)
         \/ CreateDispute(r) \/ AssignArbiter(r) \/ Throw(r) \/ Crash(r)
  PROVE  Quiet /\ obligation' = obligation /\ (Ends(r) \/ GoesOn(r))
<1>1. Quiet /\ obligation' = obligation
  BY ZenonT(60) DEF Quiet, ClaimRefused, ClaimLost, RecordResult, EmitSkipped, CreateDispute, AssignArbiter,
         Throw, Crash, rowVars, sideVars, logVars
<1>2. ASSUME NEW p \in PCs \ {"idle", "claim", "publish"}, Goto(r, p),
             req[r].pc \notin {"idle", "claim"}
      PROVE  GoesOn(r)
  BY ZenonT(60), <1>2, GotoEffect DEF Inv, GoesOn
<1>3. ASSUME Finish(r)
      PROVE  Ends(r)
  BY ZenonT(60), <1>3, FinishEffect DEF Inv, Ends
<1>4. CASE ClaimRefused(r) \/ ClaimLost(r) \/ Crash(r) \/ AssignArbiter(r)
  BY ZenonT(60), <1>1, <1>3, <1>4 DEF ClaimRefused, ClaimLost, Crash, AssignArbiter
<1>5. CASE RecordResult(r)
  BY ZenonT(60), <1>1, <1>2, <1>5 DEF RecordResult, PCs
<1>6. CASE EmitSkipped(r)
  BY ZenonT(60), <1>1, <1>2, <1>3, <1>6 DEF EmitSkipped, Returned, PCs
<1>7. CASE CreateDispute(r)
  BY ZenonT(60), <1>1, <1>2, <1>3, <1>7 DEF CreateDispute, PCs
<1>8. CASE Throw(r)
  BY ZenonT(60), <1>1, <1>2, <1>3, <1>8 DEF Throw, PCs
<1> QED BY ZenonT(60), <1>4, <1>5, <1>6, <1>7, <1>8

\* The steps that matter to what follows, and that no other step does.
LEMMA Kinds ==
  ASSUME Inv, [Next]_vars
  PROVE  \/ \E r \in Requests :
              \/ (\E op \in Handlers : Begin(r, op)) \/ Reconcile(r)
              \/ ClaimWins(r) \/ Revert(r) \/ RecordObligation(r) \/ EmitRow(r) \/ Publish(r)
         \/ /\ Quiet /\ obligation' = obligation
            /\ req' = req \/ \E r \in Requests : Ends(r) \/ GoesOn(r)
<1>1. ASSUME \/ \E party \in Approvers : approveRelease(party)
             \/ \E o \in Operations : Land(o)
             \/ WindowEnds \/ CooldownEnds \/ UNCHANGED vars
      PROVE  Quiet /\ obligation' = obligation /\ req' = req
  BY <1>1 DEF Quiet, approveRelease, Land, WindowEnds, CooldownEnds, vars, rowVars, sideVars,
     logVars, Rail!RailLand
<1>2. ASSUME NEW r \in Requests, SweepExpired(r)
      PROVE  \E op \in Handlers : Begin(r, op)
  BY ZenonT(60), <1>2, Tables DEF SweepExpired
<1> QED BY <1>1, <1>2, ProviderKind, OtherKind, ZenonT(60) DEF Next, Step

\* Who is about to publish is the only one to publish that status: its row was
\* written, and nobody else found it missing.
AnnounceInv ==
  /\ AnnouncedOnce
  /\ \A i \in DOMAIN bus : Emitted(bus[i])
  /\ \A r \in Requests : req[r].pc = "publish" =>
        /\ Emitted(req[r].to)
        /\ \A i \in DOMAIN bus : bus[i] # req[r].to
        /\ \A q \in Requests : req[q].pc = "publish" /\ req[q].to = req[r].to => q = r

\* A step that lets no request become a publisher.
LEMMA AnnounceFrame ==
  ASSUME AnnounceInv, UNCHANGED <<events, bus>>,
         \A q \in Requests : req'[q].pc = "publish" =>
            req[q].pc = "publish" /\ req'[q].to = req[q].to
  PROVE  AnnounceInv'
BY DEF AnnounceInv, AnnouncedOnce, Emitted

LEMMA AnnounceNext ==
  ASSUME Inv, AnnounceInv, [Next]_vars
  PROVE  AnnounceInv'
<1>0. /\ events \in Seq(Statuses \X Statuses) /\ bus \in Seq(Statuses)
      /\ req \in [Requests -> ReqType]
  BY DEF Inv, TypeOK, ReqType
<1>1. CASE Quiet /\ (req' = req \/ \E r \in Requests : Ends(r) \/ GoesOn(r))
  BY <1>1, AnnounceFrame DEF Quiet, Ends, GoesOn
<1>2. ASSUME NEW r \in Requests,
             (\E op \in Handlers : Begin(r, op)) \/ Reconcile(r) \/ ClaimWins(r) \/ Revert(r)
             \/ RecordObligation(r)
      PROVE  AnnounceInv'
  <2>1. UNCHANGED <<events, bus>>
    BY ZenonT(60), <1>2 DEF Begin, Reconcile, ClaimWins, Revert, RecordObligation, logVars
  <2>2. (\A q \in Requests \ {r} : req'[q] = req[q]) /\ req'[r].pc # "publish"
    BY <1>0, <1>2 DEF Begin, Reconcile, ClaimWins, Revert, RecordObligation, Goto, Finish, Idle,
                ReqType
  <2> QED BY <2>1, <2>2, AnnounceFrame
<1>3. ASSUME NEW r \in Requests, EmitRow(r)
      PROVE  AnnounceInv'
  <2>1. /\ \A q \in Requests \ {r} : req'[q] = req[q]
        /\ req'[r].pc = "publish" /\ req'[r].to = req[r].to
    BY <1>3, GotoEffect DEF EmitRow, Inv, PCs
  <2>2. /\ events' = Append(events, <<req[r].from, req[r].to>>) /\ bus' = bus
        /\ ~Emitted(req[r].to)
    BY <1>3 DEF EmitRow
  <2>3. <<req[r].from, req[r].to>> \in Statuses \X Statuses
    BY <1>0 DEF ReqType
  <2>4. /\ \A s : Emitted(s) => Emitted(s)'
        /\ Emitted(req[r].to)'
    <3>1. /\ DOMAIN events \subseteq DOMAIN events' /\ Len(events) + 1 \in DOMAIN events'
          /\ \A i \in DOMAIN events : events'[i] = events[i]
          /\ events'[Len(events) + 1] = <<req[r].from, req[r].to>>
      BY <1>0, <2>2, <2>3
    <3>2. \A s : Emitted(s) => Emitted(s)'
      BY <3>1 DEF Emitted
    <3>3. events'[Len(events) + 1][2] = req'[r].to
      BY <2>1, <3>1
    <3>4. \E i \in DOMAIN events' : events'[i][2] = req'[r].to
      BY <3>1, <3>3
    <3> QED BY <3>2, <3>4 DEF Emitted
  <2> DEFINE Out(s) == \E i \in DOMAIN events' : events'[i][2] = s
  <2>5. \A s : (Emitted(s) => Out(s)) /\ Out(req[r].to)
    BY <2>1, <2>4, ZenonT(60) DEF Emitted
  <2> HIDE DEF Out
  <2>6. AnnouncedOnce' /\ \A i \in DOMAIN bus' : Out(bus'[i])
    BY <2>2, <2>5, ZenonT(60) DEF AnnounceInv, AnnouncedOnce
  <2>7. \A q \in Requests \ {r} : req'[q].pc = "publish" =>
           Emitted(req[q].to) /\ req[q].to # req[r].to
    BY <2>1, <2>2, ZenonT(60) DEF AnnounceInv
  <2>8. ASSUME NEW q \in Requests, req'[q].pc = "publish"
        PROVE  /\ Out(req'[q].to)
               /\ \A i \in DOMAIN bus' : bus'[i] # req'[q].to
               /\ \A o \in Requests : req'[o].pc = "publish" /\ req'[o].to = req'[q].to => o = q
    <3>1. CASE q = r
      <4>1. \A o \in Requests : req'[o].pc = "publish" /\ req'[o].to = req'[r].to => o = r
        <5>1. \A o \in Requests \ {r} : req'[o].pc = "publish" => req'[o].to # req'[r].to
          BY <2>1, <2>7, ZenonT(60)
        <5> QED BY <5>1, ZenonT(60)
      <4>2. \A i \in DOMAIN bus' : bus'[i] # req'[r].to
        BY <2>1, <2>2, ZenonT(60) DEF AnnounceInv
      <4> QED BY <2>1, <2>5, <3>1, <4>1, <4>2, ZenonT(60)
    <3>2. CASE q # r
      <4>1. req'[q] = req[q] /\ req[q].pc = "publish" /\ Out(req[q].to) /\ req[q].to # req[r].to
        BY <2>1, <2>5, <2>7, <2>8, <3>2, ZenonT(60)
      <4>2. \A o \in Requests : req'[o].pc = "publish" /\ req'[o].to = req'[q].to => o # r
        BY <2>1, <4>1, ZenonT(60)
      <4>3. \A o \in Requests : req'[o].pc = "publish" /\ req'[o].to = req'[q].to => o = q
        BY <2>1, <4>1, <4>2, ZenonT(60) DEF AnnounceInv
      <4> QED BY <2>2, <4>1, <4>3, ZenonT(60) DEF AnnounceInv
    <3> QED BY <3>1, <3>2
  <2> QED BY <2>6, <2>8, ZenonT(60) DEF AnnounceInv, Emitted, Out
<1>4. ASSUME NEW r \in Requests, Publish(r)
      PROVE  AnnounceInv'
  <2>1. /\ \A q \in Requests \ {r} : req'[q] = req[q]
        /\ req'[r].pc # "publish"
    BY <1>0, <1>4 DEF Publish, Returned, Goto, Finish, Idle, ReqType
  <2>2. /\ req[r].pc = "publish" /\ bus' = Append(bus, req[r].to) /\ events' = events
        /\ req[r].to \in Statuses
    BY <1>0, <1>4 DEF Publish, ReqType
  <2>3. \A s : Emitted(s)' <=> Emitted(s)
    BY <2>2 DEF Emitted
  <2>4. /\ DOMAIN bus' = 1 .. Len(bus) + 1 /\ DOMAIN bus = 1 .. Len(bus) /\ Len(bus) \in Nat
        /\ \A i \in DOMAIN bus : bus'[i] = bus[i]
        /\ bus'[Len(bus) + 1] = req[r].to
    BY <1>0, <2>2
  <2>5. AnnouncedOnce'
    BY <2>2, <2>4 DEF AnnounceInv, AnnouncedOnce
  <2>6. \A i \in DOMAIN bus' : Emitted(bus'[i])
    BY <2>2, <2>4 DEF AnnounceInv
  <2>7. ASSUME NEW q \in Requests, req'[q].pc = "publish"
        PROVE  /\ Emitted(req'[q].to)
               /\ \A i \in DOMAIN bus' : bus'[i] # req'[q].to
               /\ \A p \in Requests : req'[p].pc = "publish" /\ req'[p].to = req'[q].to => p = q
    BY <2>1, <2>2, <2>4, <2>7 DEF AnnounceInv
  <2> QED BY <2>3, <2>5, <2>6, <2>7 DEF AnnounceInv
<1> QED BY <1>1, <1>2, <1>3, <1>4, Kinds, ZenonT(60)

\* Each status is published at most once per escrow, whatever handlers, retries
\* and runs of the reconciler try to announce it at the same time or again after
\* a crash: the EscrowEvent row written under the funding lock decides who does.
THEOREM AnnouncedOnceHolds == Spec => []AnnouncedOnce
<1>1. Init => AnnounceInv
  BY DEF Init, AnnounceInv, AnnouncedOnce, Idle
<1>2. Inv /\ AnnounceInv /\ [Next]_vars => AnnounceInv'
  BY AnnounceNext
<1>3. AnnounceInv => AnnouncedOnce
  BY DEF AnnounceInv
<1> QED BY <1>1, <1>2, <1>3, Invariance, PTL DEF Spec

\* While nobody runs the reconciler: what was announced, and what the fee was
\* recorded for, happened on the chain.
TruthInv ==
  /\ AnnouncedIsTrue
  /\ ObligationMatchesMoney
  /\ obligation \in {"none"} \cup Dispositions
  /\ \A r \in Requests : req[r].pc # "idle" => req[r].op # "reconcile"

\* Each status is the target of one handler.
LEMMA OneTarget ==
  /\ \A a, b \in Handlers : Target[a] = Target[b] => a = b
  /\ \A a \in Dispositions : DispositionOf[Target[a]] = a
  /\ Guarded \subseteq Handlers /\ Dispositions \subseteq Guarded
BY DEF Handlers, Target, Dispositions, DispositionOf, Guarded, Legs

LEMMA TruthFrame ==
  ASSUME TruthInv, bus' = bus, obligation' = obligation, landed \subseteq landed',
         \A r \in Requests : req'[r].pc # "idle" => req'[r].op # "reconcile"
  PROVE  TruthInv'
BY DEF TruthInv, AnnouncedIsTrue, ObligationMatchesMoney

LEMMA TruthNext ==
  ASSUME ~reconcilerRuns, Inv, TruthInv, [Next]_vars
  PROVE  TruthInv'
<1>0. bus \in Seq(Statuses) /\ req \in [Requests -> ReqType]
  BY DEF Inv, TypeOK, ReqType
<1>1. CASE /\ Quiet /\ obligation' = obligation
           /\ req' = req \/ \E r \in Requests : Ends(r) \/ GoesOn(r)
  BY <1>1, TruthFrame DEF Quiet, TruthInv, Ends, GoesOn
<1>2. ASSUME NEW r \in Requests,
             (\E op \in Handlers : Begin(r, op)) \/ ClaimWins(r) \/ Revert(r) \/ EmitRow(r)
      PROVE  TruthInv'
  <2>1. UNCHANGED <<bus, obligation, landed>>
    BY ZenonT(60), <1>2 DEF Begin, ClaimWins, Revert, EmitRow, logVars, rowVars
  <2>2. /\ \A q \in Requests \ {r} : req'[q] = req[q]
        /\ req'[r].pc = "idle" \/ req'[r].op \in Handlers \/ req'[r].op = req[r].op
    BY <1>0, <1>2 DEF Begin, ClaimWins, Revert, EmitRow, Goto, Finish, Idle, ReqType
  <2>3. req[r].pc # "idle" \/ req'[r].op \in Handlers
    <3>1. ASSUME NEW op \in Handlers, Begin(r, op)
          PROVE  req'[r].op = op
      BY <1>0, <3>1 DEF Begin
    <3>2. CASE ClaimWins(r) \/ Revert(r) \/ EmitRow(r)
      <4>1. req[r].pc = "claim" \/ req[r].pc = "revert" \/ req[r].pc = "emit"
        BY <3>2, ZenonT(60) DEF ClaimWins, Revert, EmitRow
      <4> QED BY <4>1
    <3> QED BY <1>2, <3>1, <3>2, ZenonT(60)
  <2> QED BY <2>1, <2>2, <2>3, Tables, TruthFrame DEF TruthInv
<1>3. ASSUME NEW r \in Requests, RecordObligation(r)
      PROVE  TruthInv'
  <2>1. /\ \A q \in Requests \ {r} : req'[q] = req[q]
        /\ req'[r].op = req[r].op /\ req[r].pc = "oblige"
    BY ZenonT(60), <1>3, GotoEffect DEF RecordObligation, Inv, PCs
  <2>2. req[r].op \in Dispositions /\ req[r].to = Target[req[r].op] /\ Landed(req[r].op)
    BY <2>1, OneTarget DEF TruthInv, Inv, Shape, Progress
  <2>3. bus' = bus /\ landed' = landed
    BY ZenonT(60), <1>3 DEF RecordObligation, logVars
  <2>4. obligation' = obligation \/ obligation' = "none" \/ obligation' = req[r].op
    BY ZenonT(60), <1>3, <2>2, OneTarget DEF RecordObligation
  <2> QED BY ZenonT(60), <2>1, <2>2, <2>3, <2>4 DEF TruthInv, AnnouncedIsTrue, ObligationMatchesMoney, Landed
<1>4. ASSUME NEW r \in Requests, Publish(r)
      PROVE  TruthInv'
  <2>1. /\ \A q \in Requests \ {r} : req'[q] = req[q]
        /\ req'[r].pc = "idle" \/ req'[r].op = req[r].op
        /\ req[r].pc = "publish" /\ req[r].op # "reconcile"
    BY <1>0, <1>4 DEF Publish, Returned, Goto, Finish, Idle, ReqType, TruthInv
  <2>2. /\ bus' = Append(bus, req[r].to) /\ landed' = landed /\ obligation' = obligation
        /\ req[r].to \in Statuses
    BY ZenonT(60), <1>0, <1>4 DEF Publish, ReqType, rowVars
  <2>3. /\ req[r].op \in Handlers /\ req[r].to = Target[req[r].op]
        /\ req[r].op \in Guarded => Landed(req[r].op)
    BY <2>1 DEF Inv, Shape, Progress
  <2>4. ASSUME NEW op \in Guarded, req[r].to = Target[op]
        PROVE  Landed(op)
    BY ZenonT(60), <2>3, <2>4, OneTarget
  <2>5. AnnouncedIsTrue'
    <3>1. \A i \in DOMAIN bus' : (i \in DOMAIN bus /\ bus'[i] = bus[i]) \/ bus'[i] = req[r].to
      BY <1>0, <2>2
    <3> QED BY <2>2, <2>4, <3>1 DEF TruthInv, AnnouncedIsTrue, Landed
  <2> QED BY <2>1, <2>2, <2>5 DEF TruthInv, ObligationMatchesMoney
<1>5. ASSUME NEW r \in Requests, Reconcile(r)
      PROVE  FALSE
  BY <1>5 DEF Reconcile
<1> QED BY <1>1, <1>2, <1>3, <1>4, <1>5, Kinds, ZenonT(60)

LEMMA TruthHolds == ASSUME ~reconcilerRuns PROVE Spec => []TruthInv
<1>1. Init => TruthInv
  BY DEF Init, TruthInv, AnnouncedIsTrue, ObligationMatchesMoney, Idle
<1>2. Inv /\ TruthInv /\ [Next]_vars => TruthInv'
  BY TruthNext
<1> QED BY <1>1, <1>2, Invariance, PTL DEF Spec

\* Where nobody runs the reconciler, a lock or a disposition is announced only
\* after its transfers really happened, through any number of crashes, failed
\* provider calls and retries.
THEOREM AnnouncedTruly == ASSUME ~reconcilerRuns PROVE Spec => []AnnouncedIsTrue
<1>1. TruthInv => AnnouncedIsTrue
  BY DEF TruthInv
<1> QED BY <1>1, TruthHolds, PTL

\* Under the same condition the fee obligation names the disposition that took
\* the money.
THEOREM ObligationTrue == ASSUME ~reconcilerRuns PROVE Spec => []ObligationMatchesMoney
<1>1. TruthInv => ObligationMatchesMoney
  BY DEF TruthInv
<1> QED BY <1>1, TruthHolds, PTL

\* A claim on a new escrow that its catch block may still undo.
FirstClaim(r) == Holds(r) /\ req[r].op \in Guarded /\ req[r].from = "CREATED"

\* It is the only one while it lasts, and the escrow is not new meanwhile.
FirstInv ==
  \A r \in Requests : FirstClaim(r) =>
     /\ status # "CREATED"
     /\ \A q \in Requests \ {r} : ~FirstClaim(q)

\* A claim that can be undone: the request may still run its catch block.
Reverts(r) == Holds(r) /\ req[r].op \in Guarded

\* A step in which at most r ends its claim.
LEMMA SettleOrNothing ==
  ASSUME NEW r \in Requests,
         \A q \in Requests \ {r} :
            /\ Reverts(q)' <=> Reverts(q)
            /\ Reverts(q) => req'[q].from = req[q].from /\ req'[q].to = req[q].to,
         Reverts(r)' => Reverts(r) /\ req'[r].from = req[r].from /\ req'[r].to = req[r].to
  PROVE  \/ Undoable' = Undoable
         \/ Reverts(r) /\ Undoable' = Undoable \ {<<req[r].from, req[r].to>>}
<1> DEFINE pair(q) == <<req[q].from, req[q].to>>
           next(q) == <<req'[q].from, req'[q].to>>
<1>1. /\ \A x : x \in Undoable <=> \E q \in Requests : Reverts(q) /\ x = pair(q)
      /\ \A x : x \in Undoable' <=> \E q \in Requests : Reverts(q)' /\ x = next(q)
  BY DEF Undoable, Reverts
<1>2. /\ \A q \in Requests \ {r} : Reverts(q) => next(q) = pair(q)
      /\ Reverts(r)' => next(r) = pair(r)
  OBVIOUS
<1> HIDE DEF Undoable, Reverts, pair, next
<1>3. \A x : x \in Undoable' => x \in Undoable
  BY <1>1, <1>2
<1>4. CASE Reverts(r) => Reverts(r)'
  <2>1. \A x : x \in Undoable => x \in Undoable'
    BY ZenonT(60), <1>1, <1>2, <1>4
  <2> QED BY ZenonT(60), <1>3, <2>1
<1>5. CASE \E q \in Requests \ {r} : Reverts(q) /\ pair(q) = pair(r)
  <2>1. \A x : x \in Undoable => x \in Undoable'
    BY ZenonT(60), <1>1, <1>2, <1>5
  <2> QED BY <1>3, <2>1
<1>6. CASE /\ Reverts(r) /\ ~Reverts(r)'
           /\ ~\E q \in Requests \ {r} : Reverts(q) /\ pair(q) = pair(r)
  <2>1. \A x : x \in Undoable /\ x # pair(r) => x \in Undoable'
    BY ZenonT(60), <1>1, <1>2
  <2>2. pair(r) \notin Undoable'
    BY <1>1, <1>2, <1>6
  <2>3. Undoable' = Undoable \ {pair(r)}
    BY <1>3, <2>1, <2>2
  <2> QED BY ZenonT(60), <1>6, <2>3 DEF pair
<1> QED BY ZenonT(60), <1>4, <1>5, <1>6

\* Reading, acknowledging and failing leave the first claim alone.
LEMMA FirstFrame ==
  ASSUME FirstInv, status' = status,
         \A r \in Requests : FirstClaim(r)' => FirstClaim(r)
  PROVE  FirstInv'
BY DEF FirstInv

\* A step that neither claims nor undoes keeps FirstInv, and at most settles.
LEMMA SettleKind ==
  ASSUME Inv, FirstInv, status' = status, NEW r \in Requests,
         \A q \in Requests \ {r} : req'[q] = req[q],
         \/ req'[r].pc \in {"idle", "claim"} \/ req'[r].op = "reconcile"
         \/ /\ Holds(r) => Holds(r)'
            /\ Holds(r)' => Holds(r)
            /\ req'[r].op = req[r].op /\ req'[r].from = req[r].from /\ req'[r].to = req[r].to
  PROVE  FirstInv' /\ [Lifecycle!LifecycleNext]_(Lifecycle!lifecycleVars)
<1>1. \A q \in Requests : Reverts(q)' =>
         Reverts(q) /\ req'[q].from = req[q].from /\ req'[q].to = req[q].to
  BY DEF Reverts, Holds
<1>2. \A q \in Requests \ {r} : Reverts(q)' <=> Reverts(q)
  BY DEF Reverts, Holds
<1>3. FirstInv'
  BY <1>1, FirstFrame DEF FirstClaim, Reverts
<1>4. \/ Undoable' = Undoable
      \/ Reverts(r) /\ Undoable' = Undoable \ {<<req[r].from, req[r].to>>}
  BY ZenonT(60), <1>1, <1>2, SettleOrNothing
<1>5. CASE Undoable' = Undoable
  BY <1>3, <1>5 DEF Lifecycle!lifecycleVars
<1>6. CASE Reverts(r) /\ Undoable' = Undoable \ {<<req[r].from, req[r].to>>}
  <2>1. <<req[r].from, req[r].to>> \in Undoable
    BY <1>6 DEF Undoable, Reverts
  <2>2. Lifecycle!Settle
    BY <1>6, <2>1, ZenonT(60) DEF Lifecycle!Settle
  <2> QED BY ZenonT(60), <1>3, <2>2 DEF Lifecycle!LifecycleNext
<1> QED BY ZenonT(60), <1>4, <1>5, <1>6

\* A claim moves the status along the table.
LEMMA ClaimMoves ==
  ASSUME Inv, FirstInv, NEW r \in Requests, ClaimWins(r)
  PROVE  FirstInv' /\ [Lifecycle!LifecycleNext]_(Lifecycle!lifecycleVars)
<1> DEFINE p == IF req[r].op \in Guarded THEN "call" ELSE "emit"
<1>1. /\ \A q \in Requests \ {r} : req'[q] = req[q]
      /\ req'[r].pc = p /\ req'[r].op = req[r].op /\ req'[r].from = req[r].from
      /\ req'[r].to = req[r].to
  BY ZenonT(60), GotoEffect DEF ClaimWins, Inv, PCs
<1>2. /\ req[r].pc = "claim" /\ req[r].op \in Handlers /\ status = req[r].from
      /\ status' = req[r].to /\ req[r].to \in VALID_TRANSITIONS[status]
  BY ZenonT(60) DEF ClaimWins, Inv, Shape
<1>3. status' # "CREATED" /\ status \in Statuses
  BY ZenonT(60), <1>2 DEF Inv, TypeOK, VALID_TRANSITIONS, Statuses
<1>4. FirstInv'
  <2>1. \A q \in Requests \ {r} : FirstClaim(q)' <=> FirstClaim(q)
    BY ZenonT(60), <1>1 DEF FirstClaim, Holds
  <2>2. FirstClaim(r)' => \A q \in Requests : ~FirstClaim(q)
    BY <1>1, <1>2 DEF FirstClaim, FirstInv
  <2> QED BY <1>3, <2>1, <2>2 DEF FirstInv
<1>5. \/ Undoable' = Undoable
      \/ Undoable' = Undoable \cup {<<status, status'>>}
  <2> DEFINE pair(q) == <<req[q].from, req[q].to>>
             next(q) == <<req'[q].from, req'[q].to>>
  <2>1. /\ \A x : x \in Undoable <=> \E q \in Requests : Reverts(q) /\ x = pair(q)
        /\ \A x : x \in Undoable' <=> \E q \in Requests : Reverts(q)' /\ x = next(q)
    BY ZenonT(60) DEF Undoable, Reverts
  <2>2. /\ \A q \in Requests \ {r} : (Reverts(q)' <=> Reverts(q)) /\ next(q) = pair(q)
        /\ ~Reverts(r) /\ next(r) = <<status, status'>>
        /\ Reverts(r)' <=> req[r].op \in Guarded
    BY ZenonT(60), <1>1, <1>2, Tables DEF Reverts, Holds
  <2> HIDE DEF Undoable, Reverts, pair, next
  <2>3. CASE req[r].op \notin Guarded
    <3>1. \A x : x \in Undoable' <=> x \in Undoable
      BY <2>1, <2>2, <2>3
    <3> QED BY <3>1
  <2>4. CASE req[r].op \in Guarded
    <3>1. \A x : x \in Undoable' <=> x \in Undoable \/ x = <<status, status'>>
      BY <2>1, <2>2, <2>4
    <3> QED BY <3>1
  <2> QED BY <2>3, <2>4
<1>6. Lifecycle!Move
  <2>1. Lifecycle!VALID_TRANSITIONS = VALID_TRANSITIONS
    BY ZenonT(60) DEF Lifecycle!VALID_TRANSITIONS, Lifecycle!Statuses, VALID_TRANSITIONS, Statuses
  <2>2. status' \in Lifecycle!VALID_TRANSITIONS[status]
    BY ZenonT(60), <1>2, <2>1
  <2> QED BY <1>5, <2>2 DEF Lifecycle!Move
<1> QED BY <1>4, <1>6 DEF Lifecycle!LifecycleNext

\* A catch block hands back its own claim, or finds the status moved on.
LEMMA RevertUndoes ==
  ASSUME Inv, FirstInv, NEW r \in Requests, Revert(r)
  PROVE  FirstInv' /\ [Lifecycle!LifecycleNext]_(Lifecycle!lifecycleVars)
<1>1. /\ \A q \in Requests \ {r} : req'[q] = req[q]
      /\ req'[r].pc = "idle"
  BY FinishEffect DEF Revert, Inv
<1>2. /\ req[r].pc = "revert" /\ req[r].op \in Guarded /\ Shape(r) /\ Reverts(r)
      /\ req[r].op \in Handlers /\ req[r].to = Target[req[r].op]
      /\ req[r].to \in VALID_TRANSITIONS[req[r].from]
  BY ZenonT(60), Tables DEF Revert, Inv, Shape, Reverts, Holds
<1>3. CASE status' = status
  BY ZenonT(60), <1>1, <1>3, SettleKind
<1>4. CASE status = req[r].to /\ status' = req[r].from
  <2>1. /\ \A q \in Requests \ {r} : Reverts(q)' <=> Reverts(q)
        /\ ~Reverts(r)'
    BY <1>1 DEF Reverts, Holds
  <2>2. FirstInv'
    <3>1. \A q \in Requests : FirstClaim(q)' => q # r /\ FirstClaim(q)
      BY <1>1 DEF FirstClaim, Holds
    <3>2. status' = "CREATED" => FirstClaim(r)
      BY ZenonT(60), <1>2, <1>4 DEF FirstClaim, Reverts
    <3> QED BY <3>1, <3>2 DEF FirstInv
  <2>3. \A q \in Requests \ {r} :
           Reverts(q) => <<req[q].from, req[q].to>> # <<req[r].from, req[r].to>>
    <3> SUFFICES ASSUME NEW q \in Requests \ {r}, Reverts(q),
                        req[q].from = req[r].from, req[q].to = req[r].to
                 PROVE  FALSE
      OBVIOUS
    <3>1. req[q].op \in Handlers /\ req[q].to = Target[req[q].op]
      BY ZenonT(60), OneTarget DEF Inv, Shape, Reverts, Holds
    <3>2. req[q].op = req[r].op
      BY ZenonT(60), <1>2, <3>1, OneTarget
    <3>3. CASE req[r].op \in Dispositions
      BY <1>2, <3>2, <3>3 DEF Inv, SoleDisposition, Reverts
    <3>4. CASE req[r].op = "lock"
      <4>1. req[r].from \in Statuses /\ "FUNDS_LOCKED" \in VALID_TRANSITIONS[req[r].from]
        <5>1. req \in [Requests -> ReqType] /\ Target["lock"] = "FUNDS_LOCKED"
          BY ZenonT(60) DEF Inv, TypeOK, ReqType, Target
        <5>2. req[r].from \in Statuses
          BY <5>1 DEF ReqType
        <5> QED BY <1>2, <3>4, <5>1, <5>2, ZenonT(60)
      <4>2. req[r].from = "CREATED"
        BY <4>1 DEF VALID_TRANSITIONS, Statuses
      <4> QED BY ZenonT(60), <1>2, <4>2 DEF FirstInv, FirstClaim, Reverts
    <3> QED BY <1>2, <3>3, <3>4, Tables DEF Dispositions
  <2>4. Undoable' = Undoable \ {<<req[r].from, req[r].to>>}
    <3> DEFINE pair(q) == <<req[q].from, req[q].to>>
               next(q) == <<req'[q].from, req'[q].to>>
    <3>1. /\ \A x : x \in Undoable <=> \E q \in Requests : Reverts(q) /\ x = pair(q)
          /\ \A x : x \in Undoable' <=> \E q \in Requests : Reverts(q)' /\ x = next(q)
      BY DEF Undoable, Reverts
    <3>2. /\ \A q \in Requests \ {r} : next(q) = pair(q)
          /\ \A q \in Requests \ {r} : Reverts(q) => pair(q) # pair(r)
      BY <1>1, <2>3
    <3> HIDE DEF Undoable, Reverts, next, pair
    <3>3. \A x : x \in Undoable' <=> x \in Undoable /\ x # pair(r)
      BY <2>1, <3>1, <3>2
    <3>4. Undoable' = Undoable \ {pair(r)}
      BY ZenonT(60), <3>3
    <3> QED BY ZenonT(60), <3>4 DEF pair
  <2>5. <<req[r].from, req[r].to>> \in Undoable
    BY <1>2 DEF Undoable, Reverts
  <2>6. Lifecycle!Undo
    <3> DEFINE h == <<req[r].from, req[r].to>>
    <3>1. h[1] = req[r].from /\ h[2] = req[r].to
      OBVIOUS
    <3>2. h \in Undoable /\ Undoable' = Undoable \ {h}
      BY <2>4, <2>5
    <3> HIDE DEF h
    <3> QED BY <1>4, <3>1, <3>2, ZenonT(60) DEF Lifecycle!Undo
  <2> QED BY <2>2, <2>6 DEF Lifecycle!LifecycleNext
<1> QED BY ZenonT(60), <1>3, <1>4 DEF Revert

LEMMA LifecycleStep ==
  ASSUME Inv, FirstInv, [Next]_vars
  PROVE  FirstInv' /\ [Lifecycle!LifecycleNext]_(Lifecycle!lifecycleVars)
<1>0. req \in [Requests -> ReqType]
  BY DEF Inv, TypeOK, ReqType
<1>1. CASE req' = req /\ status' = status
  BY ZenonT(60), <1>1 DEF FirstInv, FirstClaim, Holds, Lifecycle!lifecycleVars, Undoable
<1>2. ASSUME NEW r \in Requests, Quiet, Ends(r) \/ GoesOn(r)
      PROVE  FirstInv' /\ [Lifecycle!LifecycleNext]_(Lifecycle!lifecycleVars)
  BY <1>2, SettleKind DEF Quiet, Ends, GoesOn, Holds
<1>3. ASSUME NEW r \in Requests, (\E op \in Handlers : Begin(r, op)) \/ Reconcile(r)
      PROVE  FirstInv' /\ [Lifecycle!LifecycleNext]_(Lifecycle!lifecycleVars)
  <2>1. /\ status' = status
        /\ \A q \in Requests \ {r} : req'[q] = req[q]
        /\ req'[r].pc = "claim" \/ req'[r].op = "reconcile"
    <3>1. ASSUME NEW op \in Handlers, Begin(r, op)
          PROVE  /\ status' = status
                 /\ \A q \in Requests \ {r} : req'[q] = req[q]
                 /\ req'[r].pc = "claim"
      BY <1>0, <3>1 DEF Begin, rowVars
    <3>2. CASE Reconcile(r)
      BY ZenonT(60), <1>0, <3>2 DEF Reconcile, rowVars
    <3> QED BY <1>3, <3>1, <3>2, ZenonT(60)
  <2> QED BY ZenonT(60), <2>1, SettleKind
<1>4. ASSUME NEW r \in Requests, RecordObligation(r) \/ EmitRow(r) \/ Publish(r)
      PROVE  FirstInv' /\ [Lifecycle!LifecycleNext]_(Lifecycle!lifecycleVars)
  <2>1. /\ status' = status
        /\ \A q \in Requests \ {r} : req'[q] = req[q]
        /\ req[r].pc \in {"oblige", "emit", "publish"}
        /\ \/ req'[r].pc = "idle"
           \/ /\ req'[r].pc \in {"emit", "publish", "row"}
              /\ req'[r].op = req[r].op /\ req'[r].from = req[r].from /\ req'[r].to = req[r].to
    BY <1>0, <1>4 DEF RecordObligation, EmitRow, Publish, Returned, rowVars, Goto, Finish, Idle,
                ReqType
  <2> QED BY <2>1, SettleKind DEF Holds
<1> QED BY <1>1, <1>2, <1>3, <1>4, ClaimMoves, RevertUndoes, Kinds, ZenonT(60) DEF Quiet

\* The escrow service implements the lifecycle it promises: for any number of
\* requests, failures and crashes the status moves only along VALID_TRANSITIONS,
\* or back by the catch block of the very request that claimed it.
THEOREM LifecycleImplemented == Spec => ImplementsLifecycle
<1>1. Init => FirstInv /\ Lifecycle!LifecycleInit
  BY DEF Init, FirstInv, FirstClaim, Holds, Idle, Lifecycle!LifecycleInit, Undoable
<1>2. Inv /\ FirstInv /\ [Next]_vars =>
         FirstInv' /\ [Lifecycle!LifecycleNext]_(Lifecycle!lifecycleVars)
  BY LifecycleStep
<1> QED BY <1>1, <1>2, Invariance, PTL DEF Spec, ImplementsLifecycle, Lifecycle!LifecycleSpec

-----------------------------------------------------------------------------
(* A release needs both approvals, or an arbiter.                           *)
INSTANCE FiniteSetTheorems

\* A release in flight was approved by both parties or is an arbiter's.
Controlled == hasDualApproval \/ dispute = "assigned"

ControlInv ==
  requireDualApprovalForRelease =>
    /\ status = "COMPLETED" => Controlled
    /\ \A r \in Requests : (req[r].pc # "idle" /\ req[r].op = "release") => Controlled

LEMMA ControlStays ==
  ASSUME TypeOK, TypeOK', approvals \subseteq approvals', dispute = "assigned" => dispute' = "assigned",
         Controlled
  PROVE  Controlled'
<1>1. IsFiniteSet({"buyer", "seller"})
  <2>1. IsFiniteSet({}) /\ IsFiniteSet({} \cup {"buyer"})
    BY FS_EmptySet, FS_AddElement, ZenonT(60)
  <2>2. IsFiniteSet(({} \cup {"buyer"}) \cup {"seller"})
    BY <2>1, FS_AddElement, ZenonT(60)
  <2>3. ({} \cup {"buyer"}) \cup {"seller"} = {"buyer", "seller"}
    OBVIOUS
  <2> QED BY <2>2, <2>3
<1>2. IsFiniteSet(approvals')
  BY ZenonT(60), <1>1, FS_Subset, ApproversAssumption DEF TypeOK
<1>3. /\ Cardinality(approvals) \in Nat /\ Cardinality(approvals') \in Nat
      /\ Cardinality(approvals) <= Cardinality(approvals')
  BY ZenonT(60), <1>2, FS_Subset, FS_CardinalityType
<1> QED BY <1>3 DEF Controlled, hasDualApproval

\* Of the statuses that handlers ask for, only release()'s is COMPLETED.
LEMMA OnlyRelease == \A op \in Handlers : Target[op] = "COMPLETED" => op = "release"
BY DEF Handlers, Target

LEMMA ControlNext ==
  ASSUME Inv, Inv', ControlInv, [Next]_vars
  PROVE  ControlInv'
<1> SUFFICES ASSUME requireDualApprovalForRelease
             PROVE  /\ status' = "COMPLETED" => Controlled'
                    /\ \A r \in Requests :
                          (req'[r].pc # "idle" /\ req'[r].op = "release") => Controlled'
  BY ZenonT(60) DEF ControlInv
<1>0. TypeOK /\ TypeOK' /\ req \in [Requests -> ReqType]
  BY ZenonT(60) DEF Inv, TypeOK, ReqType
<1>1. CASE /\ Quiet /\ obligation' = obligation
           /\ req' = req \/ \E r \in Requests : Ends(r) \/ GoesOn(r)
  <2>1. Controlled => Controlled'
    BY <1>0, <1>1, ControlStays DEF Quiet
  <2> QED BY <1>1, <2>1 DEF Quiet, Ends, GoesOn, ControlInv
<1>2. ASSUME UNCHANGED <<approvals, dispute>>
      PROVE  Controlled' <=> Controlled
  BY <1>2 DEF Controlled, hasDualApproval
<1>3. ASSUME NEW r \in Requests, NEW op \in Handlers, Begin(r, op)
      PROVE  /\ status' = "COMPLETED" => Controlled'
             /\ \A q \in Requests :
                   (req'[q].pc # "idle" /\ req'[q].op = "release") => Controlled'
  <2>1. /\ \A q \in Requests \ {r} : req'[q] = req[q]
        /\ req'[r].op = op
        /\ UNCHANGED <<approvals, dispute, status>>
    BY ZenonT(60), <1>0, <1>3 DEF Begin, rowVars, sideVars, ReqType
  <2>2. op = "release" => Controlled
    <3> SUFFICES ASSUME op = "release" PROVE Controlled
      OBVIOUS
    <3>1. status \in {"PAYMENT_PENDING", "DISPUTED"}
      BY <1>0, <1>3 DEF Begin, Target, VALID_TRANSITIONS, TypeOK, Statuses
    <3> QED BY <1>3, <3>1 DEF Begin, Authorized, Controlled, Dispositions
  <2> QED BY <1>2, <2>1, <2>2 DEF ControlInv
<1>4. ASSUME NEW r \in Requests, Reconcile(r)
      PROVE  /\ status' = "COMPLETED" => Controlled'
             /\ \A q \in Requests :
                   (req'[q].pc # "idle" /\ req'[q].op = "release") => Controlled'
  <2>1. /\ \A q \in Requests \ {r} : req'[q] = req[q]
        /\ req'[r].op = "reconcile"
        /\ UNCHANGED <<approvals, dispute, status>>
    BY ZenonT(60), <1>0, <1>4 DEF Reconcile, rowVars, sideVars, ReqType
  <2> QED BY ZenonT(60), <1>2, <2>1 DEF ControlInv
<1>5. ASSUME NEW r \in Requests,
             ClaimWins(r) \/ Revert(r) \/ RecordObligation(r) \/ EmitRow(r) \/ Publish(r)
      PROVE  /\ status' = "COMPLETED" => Controlled'
             /\ \A q \in Requests :
                   (req'[q].pc # "idle" /\ req'[q].op = "release") => Controlled'
  <2>1. /\ UNCHANGED <<approvals, dispute>>
        /\ req[r].pc # "idle"
        /\ \A q \in Requests \ {r} : req'[q] = req[q]
        /\ req'[r].pc = "idle" \/ req'[r].op = req[r].op
    <3>1. UNCHANGED <<approvals, dispute>> /\ req[r].pc # "idle"
      <4>1. /\ UNCHANGED <<approvals, dispute>>
            /\ \/ req[r].pc = "claim" \/ req[r].pc = "revert" \/ req[r].pc = "oblige"
               \/ req[r].pc = "emit" \/ req[r].pc = "publish"
        BY <1>5, ZenonT(60) DEF ClaimWins, Revert, RecordObligation, EmitRow, Publish, sideVars
      <4> QED BY <4>1
    <3>2. (\E pc : Goto(r, pc)) \/ Finish(r)
      BY <1>5, ZenonT(60) DEF ClaimWins, Revert, RecordObligation, EmitRow, Publish, Returned
    <3>3. \A q \in Requests \ {r} : req'[q] = req[q]
      BY <1>0, <3>2 DEF Goto, Finish
    <3>4. req'[r].pc = "idle" \/ req'[r].op = req[r].op
      BY <1>0, <3>2 DEF Goto, Finish, Idle, ReqType
    <3> QED BY <3>1, <3>3, <3>4, ZenonT(60)
  <2>2. status' = "COMPLETED" => status = "COMPLETED" \/ req[r].op = "release"
    <3>1. CASE ClaimWins(r)
      <4>1. req[r].op \in Handlers /\ req[r].to = Target[req[r].op]
        BY ZenonT(60), <2>1, <3>1 DEF ClaimWins, Inv, Shape
      <4>2. status' = req[r].to
        BY <3>1, ZenonT(60) DEF ClaimWins
      <4> QED BY <4>1, <4>2, OnlyRelease, ZenonT(60)
    <3>2. CASE Revert(r)
      <4>1. req[r].op \in Handlers /\ req[r].to \in VALID_TRANSITIONS[req[r].from]
        BY ZenonT(60), <2>1, <3>2, Tables DEF Revert, Inv, Shape
      <4>2. req[r].from # "COMPLETED"
        BY ZenonT(60), <4>1, Tables DEF TerminalStatuses
      <4> QED BY ZenonT(60), <3>2, <4>2 DEF Revert
    <3>3. CASE RecordObligation(r) \/ EmitRow(r) \/ Publish(r)
      BY ZenonT(60), <3>3 DEF RecordObligation, EmitRow, Publish, rowVars
    <3> QED BY <1>5, <3>1, <3>2, <3>3
  <2> QED BY <1>2, <2>1, <2>2 DEF ControlInv
<1> QED BY <1>1, <1>3, <1>4, <1>5, Kinds, ZenonT(60)

\* With two-person control on, nothing reaches COMPLETED without both approvals
\* or the arbiter of a dispute: no interleaving of approvals, disputes, claims
\* and reverts lets a release through that was begun under neither.
THEOREM CompletedControlled == Spec => []CompletedUnderControl
<1>1. Init => ControlInv
  BY DEF Init, ControlInv, Idle
<1>2. Inv /\ Inv' /\ ControlInv /\ [Next]_vars => ControlInv'
  BY ControlNext
<1>3. ControlInv => CompletedUnderControl
  BY DEF ControlInv, CompletedUnderControl, Controlled
<1> QED BY <1>1, <1>2, <1>3, Invariance, PTL DEF Spec
=============================================================================
