---------------------------- MODULE IntentEngine ----------------------------
(***************************************************************************)
(* core/intent-engine.ts and core/intent-repository.ts: the status of one  *)
(* intent, the event chain that records how it moved, and the calls of     *)
(* transition() that run against it concurrently.  Each await of a call is *)
(* a step.  No code ever writes Intent.expiresAt, so isExpired() answers   *)
(* FALSE for every row and the expiry branches are unreachable.            *)
(***************************************************************************)
EXTENDS Naturals, Sequences, FiniteSets

CONSTANT Movers  \* the callers that may run transition()

VARIABLES
  intent,  \* Intent.status, "none" before the row exists
  chain,   \* the IntentEvent rows in the order they were written
  move     \* per caller inside create() or transition(), its call

engineVars == <<intent, chain, move>>

IntentStatuses ==
  {"CREATED", "VALIDATED", "COORDINATED", "DISCOVERING", "MATCHED", "NEGOTIATING",
   "COMMITTED", "SETTLING", "FULFILLED", "EXPIRED", "CANCELLED", "FAILED"}

INTENT_TRANSITIONS ==
  [s \in IntentStatuses \cup {"none"} |->
     CASE s = "CREATED"     -> {"VALIDATED", "CANCELLED", "EXPIRED"}
       [] s = "VALIDATED"   -> {"COORDINATED", "CANCELLED", "EXPIRED"}
       [] s = "COORDINATED" -> {"DISCOVERING", "CANCELLED", "EXPIRED"}
       [] s = "DISCOVERING" -> {"MATCHED", "EXPIRED", "CANCELLED"}
       [] s = "MATCHED"     -> {"NEGOTIATING", "CANCELLED"}
       [] s = "NEGOTIATING" -> {"COMMITTED", "CANCELLED"}
       [] s = "COMMITTED"   -> {"SETTLING", "FAILED"}
       [] s = "SETTLING"    -> {"FULFILLED", "FAILED"}
       [] OTHER             -> {}]

\* What a call holds between its awaits.  prev is the position in the chain of
\* the event the new one is hashed with, 0 for the genesis hash.
MoveRec == [pc : {"claim", "last", "write"}, to : IntentStatuses,
            seen : IntentStatuses \cup {"none"}, prev : Nat]
EventRec == [from : IntentStatuses \cup {"none"}, to : IntentStatuses, prev : Nat]

EngineInit ==
  /\ intent = "none"
  /\ chain = <<>>
  /\ move = <<>>

Idle(m) == m \notin DOMAIN move
At(m, pc) == m \in DOMAIN move /\ move[m].pc = pc
Goto(m, pc) == move' = [move EXCEPT ![m].pc = pc]
Called(m, pc, to) ==
  move' = [c \in DOMAIN move \cup {m} |->
             IF c = m THEN [pc |-> pc, to |-> to, seen |-> intent, prev |-> 0] ELSE move[c]]
Ended(ms) == move' = [c \in DOMAIN move \ ms |-> move[c]]

\* Mutant: the row is inserted and its first event forgotten.
InsertUntold(m) ==
  /\ Idle(m)
  /\ intent = "none"
  /\ intent' = "CREATED"
  /\ Called(m, "claim", "CREATED")
  /\ UNCHANGED chain

\* create() inserts the row and goes on to its first event.
InsertIntent(m) ==
  /\ Idle(m)
  /\ intent = "none"
  /\ intent' = "CREATED"
  /\ Called(m, "last", "CREATED")
  /\ UNCHANGED chain

\* Mutant: the table is not consulted.
ReadUnasserted(m, to) ==
  /\ Idle(m)
  /\ Called(m, "claim", to)
  /\ UNCHANGED <<intent, chain>>

\* transition() reads the row and asserts the transition on what it read.
ReadIntent(m, to) ==
  /\ Idle(m)
  /\ to \in INTENT_TRANSITIONS[intent]
  /\ Called(m, "claim", to)
  /\ UNCHANGED <<intent, chain>>

RefuseTransition(m, to) ==
  /\ Idle(m)
  /\ to \notin INTENT_TRANSITIONS[intent]
  /\ UNCHANGED engineVars

\* claimTransition(): a compare-and-set on the status that was read.
ClaimTransition(m) ==
  /\ At(m, "claim")
  /\ intent = move[m].seen
  /\ intent' = move[m].to
  /\ Goto(m, "last")
  /\ UNCHANGED chain

LoseClaim(m) ==
  /\ At(m, "claim")
  /\ intent # move[m].seen
  /\ Ended({m})
  /\ UNCHANGED <<intent, chain>>

\* writeIntentEvent() looks for the newest event and then inserts its own.
FindLastEvent(m) ==
  /\ At(m, "last")
  /\ move' = [move EXCEPT ![m].prev = Len(chain), ![m].pc = "write"]
  /\ UNCHANGED <<intent, chain>>

CreateEvent(m) ==
  /\ At(m, "write")
  /\ chain' = Append(chain, [from |-> move[m].seen, to |-> move[m].to, prev |-> move[m].prev])
  /\ Ended({m})
  /\ UNCHANGED intent

\* A query is rejected, or a process stops: the rest of its calls is not run.
Abandon(ms) ==
  /\ Ended(ms)
  /\ UNCHANGED <<intent, chain>>

EngineNext ==
  \/ \E m \in Movers :
        \/ InsertIntent(m)
        \/ \E to \in IntentStatuses : ReadIntent(m, to) \/ RefuseTransition(m, to)
        \/ ClaimTransition(m)
        \/ LoseClaim(m)
        \/ FindLastEvent(m)
        \/ CreateEvent(m)
  \/ \E ms \in SUBSET Movers : Abandon(ms)

EngineSpec == EngineInit /\ [][EngineNext]_engineVars

-----------------------------------------------------------------------------

\* The row, its events and the calls in flight hold what their types allow.
EngineTypeOK ==
  /\ intent \in IntentStatuses \cup {"none"}
  /\ chain \in Seq(EventRec)
  /\ DOMAIN move \subseteq Movers
  /\ \A m \in DOMAIN move : move[m] \in MoveRec

\* The audit trail never tells a status twice, and never tells a move the
\* table forbids, however many callers of transition() overlap.
AuditOnce ==
  /\ \A i, j \in DOMAIN chain : chain[i].to = chain[j].to => i = j
  /\ \A i \in DOMAIN chain :
        \/ chain[i].to \in INTENT_TRANSITIONS[chain[i].from]
        \/ chain[i].from = "none" /\ chain[i].to = "CREATED"

=============================================================================
