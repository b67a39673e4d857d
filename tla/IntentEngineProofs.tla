------------------------- MODULE IntentEngineProofs -------------------------
(***************************************************************************)
(* AuditOnce, proved for any number of callers of transition(): the table  *)
(* of transitions is ranked, a claim raises the rank, and so no status is  *)
(* claimed twice.  Then what the trail leaves out: only what a call that   *)
(* is still in flight has to tell.                                         *)
(***************************************************************************)
EXTENDS IntentEngine, TLAPS

\* Every leaf that names no prover is tried with SMT, with Zenon and with SMT again.
USE SMTT(60), ZenonT(30), SMTT(61), SMTT(62)

Rank(s) ==
  CASE s = "none"        -> 0
    [] s = "CREATED"     -> 1
    [] s = "VALIDATED"   -> 2
    [] s = "COORDINATED" -> 3
    [] s = "DISCOVERING" -> 4
    [] s = "MATCHED"     -> 5
    [] s = "NEGOTIATING" -> 6
    [] s = "COMMITTED"   -> 7
    [] s = "SETTLING"    -> 8
    [] OTHER             -> 9

\* What transition() asserts, or the insertion of the row.
Legal(from, to) ==
  \/ to \in INTENT_TRANSITIONS[from]
  \/ from = "none" /\ to = "CREATED"

\* Callers that have moved the status and not yet told so.
Owing(m) == m \in DOMAIN move /\ move[m].pc \in {"last", "write"}

ChainOK ==
  /\ \A i, j \in DOMAIN chain : chain[i].to = chain[j].to => i = j
  /\ \A i \in DOMAIN chain : /\ Legal(chain[i].from, chain[i].to)
                             /\ Rank(chain[i].to) <= Rank(intent)

OwedOK ==
  /\ \A m \in DOMAIN move : Legal(move[m].seen, move[m].to)
  /\ \A m : Owing(m) => /\ Rank(move[m].to) <= Rank(intent)
                        /\ \A i \in DOMAIN chain : chain[i].to # move[m].to
  /\ \A m, n : Owing(m) /\ Owing(n) /\ move[m].to = move[n].to => m = n

IInv == EngineTypeOK /\ ChainOK /\ OwedOK

-----------------------------------------------------------------------------

\* A rank is a number, and only the missing row has rank 0.
LEMMA RankNat ==
  ASSUME NEW s
  PROVE  Rank(s) \in Nat /\ (s \in IntentStatuses => Rank(s) > 0)
BY DEF Rank, IntentStatuses

\* INTENT_TRANSITIONS leads from a status only to statuses of a higher rank.
LEMMA TransitionRaises ==
  ASSUME NEW s \in IntentStatuses \cup {"none"}, NEW to \in INTENT_TRANSITIONS[s]
  PROVE  Rank(s) < Rank(to)
<1>1. CASE s \in {"CREATED", "VALIDATED", "COORDINATED", "DISCOVERING"}
  BY <1>1 DEF Rank, INTENT_TRANSITIONS, IntentStatuses
<1>2. CASE s \in {"MATCHED", "NEGOTIATING", "COMMITTED", "SETTLING"}
  BY <1>2 DEF Rank, INTENT_TRANSITIONS, IntentStatuses
<1>3. CASE s \in {"none", "FULFILLED", "EXPIRED", "CANCELLED", "FAILED"}
  BY <1>3 DEF INTENT_TRANSITIONS, IntentStatuses
<1> QED BY <1>1, <1>2, <1>3 DEF IntentStatuses

\* A legal move raises the rank, the insertion of the row included.
LEMMA LegalRaises ==
  ASSUME NEW s \in IntentStatuses \cup {"none"}, NEW to \in IntentStatuses, Legal(s, to)
  PROVE  Rank(s) < Rank(to)
<1>1. CASE to \in INTENT_TRANSITIONS[s]
  BY <1>1, TransitionRaises
<1>2. CASE s = "none" /\ to = "CREATED"
  BY <1>2 DEF Rank
<1> QED BY <1>1, <1>2 DEF Legal

\* Calls that end, or move on without claiming, leave everything else alone.
LEMMA EndPreserves ==
  ASSUME IInv, NEW ms, Ended(ms), UNCHANGED <<intent, chain>>
  PROVE  IInv'
<1>1. /\ DOMAIN move' = DOMAIN move \ ms
      /\ \A m \in DOMAIN move' : move'[m] = move[m]
  BY DEF Ended
<1>2. EngineTypeOK'
  BY <1>1 DEF IInv, EngineTypeOK
<1>3. ChainOK'
  BY DEF IInv, ChainOK
<1>4. OwedOK'
  BY <1>1 DEF IInv, OwedOK, Owing
<1> QED BY <1>2, <1>3, <1>4 DEF IInv

\* create() claims CREATED on a chain that is still empty.
LEMMA InsertPreserves ==
  ASSUME IInv, NEW m \in Movers, InsertIntent(m)
  PROVE  IInv'
<1>1. /\ DOMAIN move' = DOMAIN move \cup {m}
      /\ move'[m] = [pc |-> "last", to |-> "CREATED", seen |-> "none", prev |-> 0]
      /\ \A n \in DOMAIN move : n # m /\ move'[n] = move[n]
  BY DEF InsertIntent, Called, Idle
<1>2. Rank(intent) = 0 /\ Rank(intent') = 1 /\ Rank("CREATED") = 1
  BY DEF InsertIntent, Rank
<1>3. DOMAIN chain = {}
  <2>1. chain \in Seq(EventRec)
    BY DEF IInv, EngineTypeOK
  <2>2. \A i \in DOMAIN chain : chain[i] \in EventRec
    BY <2>1
  <2>3. \A i \in DOMAIN chain : Rank(chain[i].to) > 0
    BY <2>2, RankNat DEF EventRec
  <2>4. \A i \in DOMAIN chain : Rank(chain[i].to) <= 0
    BY <1>2 DEF IInv, ChainOK
  <2>5. \A i \in DOMAIN chain : FALSE
    <3> SUFFICES ASSUME NEW i \in DOMAIN chain PROVE FALSE
      OBVIOUS
    <3>1. Rank(chain[i].to) > 0 /\ Rank(chain[i].to) <= 0 /\ Rank(chain[i].to) \in Nat
      BY <2>3, <2>4, RankNat
    <3> QED BY <3>1
  <2> QED BY <2>5
<1>4. \A n : ~Owing(n)
  <2>1. \A n \in DOMAIN move : move[n].to \in IntentStatuses
    BY DEF IInv, EngineTypeOK, MoveRec
  <2> QED BY <2>1, <1>2, RankNat DEF IInv, OwedOK, Owing
<1>5. EngineTypeOK'
  BY <1>1 DEF IInv, EngineTypeOK, InsertIntent, MoveRec, IntentStatuses
<1>6. ChainOK'
  BY <1>3 DEF ChainOK, InsertIntent
<1>7. OwedOK'
  <2>1. \A n \in DOMAIN move' : Legal(move'[n].seen, move'[n].to)
    BY <1>1 DEF IInv, OwedOK, Legal
  <2>2. \A n : Owing(n)' => n = m
    BY <1>1, <1>4 DEF Owing
  <2> QED BY <2>1, <2>2, <1>1, <1>2, <1>3 DEF OwedOK, InsertIntent
<1> QED BY <1>5, <1>6, <1>7 DEF IInv

\* transition() holds a legal move of the status it read.
LEMMA ReadPreserves ==
  ASSUME IInv, NEW m \in Movers, NEW to \in IntentStatuses, ReadIntent(m, to)
  PROVE  IInv'
<1>1. /\ DOMAIN move' = DOMAIN move \cup {m}
      /\ move'[m] = [pc |-> "claim", to |-> to, seen |-> intent, prev |-> 0]
      /\ \A n \in DOMAIN move : n # m /\ move'[n] = move[n]
      /\ chain' = chain /\ intent' = intent
  BY DEF ReadIntent, Called, Idle
<1>2. EngineTypeOK'
  BY <1>1 DEF IInv, EngineTypeOK, MoveRec
<1>3. ChainOK'
  BY <1>1 DEF IInv, ChainOK
<1>4. OwedOK'
  <2>1. \A n \in DOMAIN move' : Legal(move'[n].seen, move'[n].to)
    BY <1>1 DEF IInv, OwedOK, Legal, ReadIntent
  <2>2. \A n : Owing(n)' => Owing(n) /\ move'[n] = move[n]
    BY <1>1 DEF Owing
  <2> QED BY <2>1, <2>2, <1>1 DEF IInv, OwedOK
<1> QED BY <1>2, <1>3, <1>4 DEF IInv

\* The compare-and-set raises the rank above every status told or owed.
LEMMA ClaimPreserves ==
  ASSUME IInv, NEW m \in Movers, ClaimTransition(m)
  PROVE  IInv'
<1> DEFINE to == move[m].to
<1>1. /\ m \in DOMAIN move /\ DOMAIN move' = DOMAIN move
      /\ move'[m] = [move[m] EXCEPT !.pc = "last"]
      /\ \A n \in DOMAIN move : n # m => move'[n] = move[n]
      /\ chain' = chain /\ intent' = to /\ intent = move[m].seen /\ ~Owing(m)
  BY DEF ClaimTransition, At, Goto, Owing
<1>2. move[m] \in MoveRec
  BY <1>1 DEF IInv, EngineTypeOK
<1>3. Rank(intent) < Rank(to)
  BY <1>1, <1>2, LegalRaises DEF IInv, OwedOK, MoveRec
<1>4. EngineTypeOK'
  BY <1>1, <1>2 DEF IInv, EngineTypeOK, MoveRec
<1>5. ChainOK'
  BY <1>1, <1>3, RankNat DEF IInv, ChainOK
<1>6. /\ \A i \in DOMAIN chain : chain[i].to # to
      /\ \A n : Owing(n) => move[n].to # to
  BY <1>3, RankNat DEF IInv, ChainOK, OwedOK
<1>7. OwedOK'
  <2>1. move'[m].to = to /\ move'[m].seen = move[m].seen
    BY <1>1, <1>2 DEF MoveRec
  <2>2. \A n \in DOMAIN move' : Legal(move'[n].seen, move'[n].to)
    BY ZenonT(60), <2>1, <1>1 DEF IInv, OwedOK
  <2>3. \A n : Owing(n)' => n = m \/ (Owing(n) /\ move'[n] = move[n])
    BY <1>1 DEF Owing
  <2>4. \A n : Owing(n)' => /\ Rank(move'[n].to) <= Rank(intent')
                            /\ \A i \in DOMAIN chain' : chain'[i].to # move'[n].to
    <3> SUFFICES ASSUME NEW n, Owing(n)'
                 PROVE  /\ Rank(move'[n].to) <= Rank(intent')
                        /\ \A i \in DOMAIN chain' : chain'[i].to # move'[n].to
      OBVIOUS
    <3>1. Rank(intent) \in Nat /\ Rank(to) \in Nat /\ Rank(move[n].to) \in Nat
      BY RankNat
    <3>2. CASE n = m
      BY <3>1, <3>2, <2>1, <1>1, <1>6
    <3>3. CASE Owing(n) /\ move'[n] = move[n]
      <4>1. /\ Rank(move[n].to) <= Rank(intent)
            /\ \A i \in DOMAIN chain : chain[i].to # move[n].to
        BY <3>3 DEF IInv, OwedOK
      <4> QED BY <4>1, <3>1, <3>3, <1>1, <1>3
    <3> QED BY <2>3, <3>2, <3>3
  <2>5. \A n, k : Owing(n)' /\ Owing(k)' /\ move'[n].to = move'[k].to => n = k
    BY <2>1, <2>3, <1>6 DEF IInv, OwedOK
  <2> QED BY <2>2, <2>4, <2>5 DEF OwedOK
<1> QED BY <1>4, <1>5, <1>7 DEF IInv

\* Looking up the newest event only fills in prev.
LEMMA FindPreserves ==
  ASSUME IInv, NEW m \in Movers, FindLastEvent(m)
  PROVE  IInv'
<1>1. /\ m \in DOMAIN move /\ DOMAIN move' = DOMAIN move
      /\ move'[m] = [move[m] EXCEPT !.prev = Len(chain), !.pc = "write"]
      /\ \A n \in DOMAIN move : n # m => move'[n] = move[n]
      /\ chain' = chain /\ intent' = intent /\ Owing(m)
  BY DEF FindLastEvent, At, Owing
<1>2. move[m] \in MoveRec /\ Len(chain) \in Nat
  BY <1>1 DEF IInv, EngineTypeOK
<1>3. move'[m].to = move[m].to /\ move'[m].seen = move[m].seen /\ move'[m] \in MoveRec
  BY ZenonT(60), <1>1, <1>2 DEF MoveRec
<1>4. EngineTypeOK'
  BY <1>1, <1>3 DEF IInv, EngineTypeOK
<1>5. ChainOK'
  BY <1>1 DEF IInv, ChainOK
<1>6. \A n \in DOMAIN move' : move'[n].to = move[n].to /\ move'[n].seen = move[n].seen
  BY ZenonT(60), <1>1, <1>3
<1>7. \A n : Owing(n)' => Owing(n)
  BY <1>1 DEF Owing
<1>8. \A n : Owing(n)' => n \in DOMAIN move'
  BY DEF Owing
<1>9. OwedOK'
  BY <1>1, <1>6, <1>7, <1>8 DEF IInv, OwedOK
<1> QED BY <1>4, <1>5, <1>9 DEF IInv

\* The event told is one that was owed, by this caller alone.
LEMMA CreatePreserves ==
  ASSUME IInv, NEW m \in Movers, CreateEvent(m)
  PROVE  IInv'
<1> DEFINE e == [from |-> move[m].seen, to |-> move[m].to, prev |-> move[m].prev]
<1>1. /\ Owing(m) /\ m \in DOMAIN move
      /\ DOMAIN move' = DOMAIN move \ {m}
      /\ \A n \in DOMAIN move' : move'[n] = move[n]
      /\ chain' = Append(chain, e) /\ intent' = intent
  BY DEF CreateEvent, At, Ended, Owing
<1>2. move[m] \in MoveRec /\ e \in EventRec /\ chain \in Seq(EventRec)
  BY <1>1 DEF IInv, EngineTypeOK, MoveRec, EventRec
<1>3. /\ chain' \in Seq(EventRec)
      /\ DOMAIN chain' = DOMAIN chain \cup {Len(chain) + 1}
      /\ Len(chain) + 1 \notin DOMAIN chain
      /\ chain'[Len(chain) + 1] = e
      /\ \A i \in DOMAIN chain : chain'[i] = chain[i]
  BY <1>1, <1>2
<1>4. /\ Legal(e.from, e.to) /\ Rank(e.to) <= Rank(intent)
      /\ \A i \in DOMAIN chain : chain[i].to # e.to
      /\ \A n : Owing(n) /\ n # m => move[n].to # e.to
  BY <1>1 DEF IInv, OwedOK
<1>5. EngineTypeOK'
  BY <1>1, <1>3 DEF IInv, EngineTypeOK
<1>6. ChainOK'
  <2>1. \A i \in DOMAIN chain' : /\ Legal(chain'[i].from, chain'[i].to)
                                 /\ Rank(chain'[i].to) <= Rank(intent')
    BY <1>1, <1>3, <1>4 DEF IInv, ChainOK
  <2>2. \A i, j \in DOMAIN chain' : chain'[i].to = chain'[j].to => i = j
    BY <1>3, <1>4 DEF IInv, ChainOK
  <2> QED BY <2>1, <2>2 DEF ChainOK
<1>7. OwedOK'
  <2>1. \A n : Owing(n)' => n # m /\ Owing(n) /\ move'[n] = move[n]
    BY <1>1 DEF Owing
  <2>2. \A n : Owing(n)' => \A i \in DOMAIN chain' : chain'[i].to # move'[n].to
    BY <2>1, <1>3, <1>4 DEF IInv, OwedOK
  <2> QED BY <2>1, <2>2, <1>1 DEF IInv, OwedOK
<1> QED BY <1>5, <1>6, <1>7 DEF IInv

-----------------------------------------------------------------------------

\* The two ends of the induction, and its step, action by action.
LEMMA InitHolds == EngineInit => IInv
BY DEF EngineInit, IInv, EngineTypeOK, ChainOK, OwedOK, Owing, IntentStatuses

\* The invariant gives the types and the property.
LEMMA InvImplies == IInv => EngineTypeOK /\ AuditOnce
BY DEF IInv, ChainOK, AuditOnce, Legal

\* Every step of the engine keeps the invariant.
LEMMA StepPreserves ==
  ASSUME IInv, [EngineNext]_engineVars
  PROVE  IInv'
<1>1. CASE UNCHANGED engineVars
  BY <1>1 DEF engineVars, IInv, EngineTypeOK, ChainOK, OwedOK, Owing
<1>2. CASE EngineNext
  <2>1. ASSUME NEW m \in Movers, NEW to \in IntentStatuses, RefuseTransition(m, to)
        PROVE  IInv'
    BY <2>1, <1>1 DEF RefuseTransition
  <2>2. ASSUME NEW m \in Movers, LoseClaim(m)
        PROVE  IInv'
    BY <2>2, EndPreserves DEF LoseClaim
  <2>3. ASSUME NEW ms \in SUBSET Movers, Abandon(ms)
        PROVE  IInv'
    BY <2>3, EndPreserves DEF Abandon
  <2> QED BY <1>2, <2>1, <2>2, <2>3, InsertPreserves, ReadPreserves, ClaimPreserves,
             FindPreserves, CreatePreserves, ZenonT(60) DEF EngineNext
<1> QED BY <1>1, <1>2

\* However many callers of create() and transition() overlap and die, the
\* events written tell no status twice and only moves the table allows.
THEOREM AuditIsTold == EngineSpec => []AuditOnce
<1>1. IInv /\ [EngineNext]_engineVars => IInv'
  BY StepPreserves
<1> QED BY <1>1, InitHolds, InvImplies, PTL DEF EngineSpec

-----------------------------------------------------------------------------
(* What the trail leaves out, as long as no call is cut short.             *)

\* The status is that of no row yet, or an event tells it, or a call owes the event.
Told(s) ==
  \/ s = "none"
  \/ \E i \in DOMAIN chain : chain[i].to = s
  \/ \E m : Owing(m) /\ move[m].to = s

TellOK ==
  /\ Told(intent)
  /\ \A i \in DOMAIN chain : Told(chain[i].from)
  /\ \A m : Owing(m) => Told(move[m].seen)

\* A step of a call that goes on.
CallStep(m) ==
  \/ InsertIntent(m)
  \/ \E to \in IntentStatuses : ReadIntent(m, to) \/ RefuseTransition(m, to)
  \/ ClaimTransition(m)
  \/ LoseClaim(m)
  \/ FindLastEvent(m)
  \/ CreateEvent(m)

\* Every status that the intent leaves is told, or owed by the call that made it:
\* each step of a call keeps it so.
LEMMA TellKept ==
  ASSUME IInv, TellOK, NEW m \in Movers, CallStep(m)
  PROVE  TellOK'
<1> DEFINE Then(s) == \/ s = "none"
                      \/ \E i \in DOMAIN chain' : chain'[i].to = s
                      \/ \E n : Owing(n)' /\ move'[n].to = s
<1>1. ASSUME \A s : Told(s) => Then(s), Then(intent'),
             \A i \in DOMAIN chain' : Then(chain'[i].from),
             \A n : Owing(n)' => Then(move'[n].seen)
      PROVE  TellOK'
  BY <1>1, ZenonT(60) DEF TellOK, Told
<1>2. ASSUME chain' = chain, \A n : Owing(n) => Owing(n)' /\ move'[n].to = move[n].to
      PROVE  /\ \A s : Told(s) => Then(s)
             /\ \A i \in DOMAIN chain' : Then(chain'[i].from)
  BY <1>2, ZenonT(60) DEF TellOK, Told
<1>3. CASE InsertIntent(m)
  <2>1. /\ DOMAIN move' = DOMAIN move \cup {m}
        /\ move'[m].pc = "last" /\ move'[m].to = "CREATED" /\ move'[m].seen = "none"
        /\ \A n \in DOMAIN move : n # m /\ move'[n] = move[n]
        /\ chain' = chain /\ intent' = "CREATED"
    BY <1>3 DEF InsertIntent, Called, Idle
  <2>2. Owing(m)' /\ \A n : Owing(n)' => n = m \/ (Owing(n) /\ move'[n] = move[n])
    BY <2>1 DEF Owing
  <2>3. \A n : Owing(n) => Owing(n)' /\ move'[n].to = move[n].to
    BY <2>1 DEF Owing
  <2> QED BY <1>1, <1>2, <2>1, <2>2, <2>3, ZenonT(60) DEF TellOK
<1>4. CASE \E to \in IntentStatuses : ReadIntent(m, to) \/ RefuseTransition(m, to)
  <2>1. \A n : Owing(n) <=> Owing(n)'
    BY <1>4 DEF ReadIntent, RefuseTransition, Called, Idle, engineVars, Owing
  <2>2. \A n : Owing(n) => move'[n] = move[n]
    BY <1>4 DEF ReadIntent, RefuseTransition, Called, Idle, engineVars, Owing
  <2>3. chain' = chain /\ intent' = intent
    BY <1>4 DEF ReadIntent, RefuseTransition, engineVars
  <2> QED BY <1>1, <1>2, <2>1, <2>2, <2>3, ZenonT(60) DEF TellOK
<1>5. CASE ClaimTransition(m)
  <2>1. /\ m \in DOMAIN move /\ DOMAIN move' = DOMAIN move
        /\ move'[m] = [move[m] EXCEPT !.pc = "last"]
        /\ \A n \in DOMAIN move : n # m => move'[n] = move[n]
        /\ chain' = chain /\ intent' = move[m].to /\ move[m].seen = intent
    BY <1>5 DEF ClaimTransition, At, Goto
  <2>2. move[m] \in MoveRec
    BY <2>1 DEF IInv, EngineTypeOK
  <2>3. move'[m].pc = "last" /\ move'[m].to = move[m].to /\ move'[m].seen = intent
    BY <2>1, <2>2 DEF MoveRec
  <2>4. /\ Owing(m)' /\ \A n : Owing(n)' => n = m \/ (Owing(n) /\ move'[n] = move[n])
        /\ ~Owing(m)
    BY <1>5, <2>1, <2>3 DEF Owing, ClaimTransition, At
  <2>5. \A n : Owing(n) => Owing(n)' /\ move'[n].to = move[n].to
    BY <2>1, <2>4 DEF Owing
  <2> QED BY <1>1, <1>2, <2>1, <2>3, <2>4, <2>5, ZenonT(60) DEF TellOK
<1>6. CASE LoseClaim(m)
  <2>1. \A n : Owing(n) <=> Owing(n)'
    BY <1>6 DEF LoseClaim, At, Ended, Owing
  <2>2. \A n : Owing(n) => move'[n] = move[n]
    BY <1>6 DEF LoseClaim, At, Ended, Owing
  <2>3. chain' = chain /\ intent' = intent
    BY <1>6 DEF LoseClaim
  <2> QED BY <1>1, <1>2, <2>1, <2>2, <2>3, ZenonT(60) DEF TellOK
<1>7. CASE FindLastEvent(m)
  <2>1. /\ m \in DOMAIN move /\ DOMAIN move' = DOMAIN move /\ Owing(m)
        /\ move'[m] = [move[m] EXCEPT !.prev = Len(chain), !.pc = "write"]
        /\ \A n \in DOMAIN move : n # m => move'[n] = move[n]
        /\ chain' = chain /\ intent' = intent
    BY <1>7 DEF FindLastEvent, At, Owing
  <2>2. move[m] \in MoveRec
    BY <2>1 DEF IInv, EngineTypeOK
  <2>3. move'[m].pc = "write" /\ move'[m].to = move[m].to /\ move'[m].seen = move[m].seen
    BY <2>1, <2>2 DEF MoveRec
  <2>4. \A n : Owing(n) <=> Owing(n)'
    BY ZenonT(60), <2>1, <2>3 DEF Owing
  <2>5. \A n : Owing(n) => move'[n].to = move[n].to /\ move'[n].seen = move[n].seen
    BY ZenonT(60), <2>1, <2>3 DEF Owing
  <2> QED BY <1>1, <1>2, <2>1, <2>4, <2>5, ZenonT(60) DEF TellOK
<1>8. CASE CreateEvent(m)
  <2> DEFINE e == [from |-> move[m].seen, to |-> move[m].to, prev |-> move[m].prev]
  <2>1. /\ Owing(m) /\ m \in DOMAIN move /\ chain' = Append(chain, e) /\ intent' = intent
        /\ DOMAIN move' = DOMAIN move \ {m}
        /\ \A n \in DOMAIN move' : move'[n] = move[n]
    BY <1>8 DEF CreateEvent, At, Ended, Owing
  <2>2. e \in EventRec /\ chain \in Seq(EventRec)
    BY <2>1 DEF IInv, EngineTypeOK, MoveRec, EventRec
  <2>3. /\ DOMAIN chain' = DOMAIN chain \cup {Len(chain) + 1}
        /\ chain'[Len(chain) + 1] = e
        /\ \A i \in DOMAIN chain : chain'[i] = chain[i]
    BY <2>1, <2>2
  <2>4. e.from = move[m].seen /\ e.to = move[m].to
    OBVIOUS
  <2> HIDE DEF e
  <2>5. \A n : Owing(n)' => Owing(n) /\ move'[n] = move[n]
    BY <2>1 DEF Owing
  <2>6. \A n : Owing(n) /\ n # m => Owing(n)' /\ move'[n] = move[n]
    BY <2>1 DEF Owing
  <2>7. Then(move[m].to) /\ \A s : Told(s) => Then(s)
    BY <2>3, <2>4, <2>6, ZenonT(60) DEF Told
  <2>8. \A i \in DOMAIN chain' : Then(chain'[i].from)
    BY <2>1, <2>3, <2>4, <2>7, ZenonT(60) DEF TellOK
  <2> QED BY <1>1, <2>1, <2>5, <2>7, <2>8, ZenonT(60) DEF TellOK
<1> QED BY <1>3, <1>4, <1>5, <1>6, <1>7, <1>8, ZenonT(60) DEF CallStep

\* At the start there is nothing to tell.
LEMMA TellInit == EngineInit => TellOK
BY DEF EngineInit, TellOK, Told, Owing
=============================================================================
