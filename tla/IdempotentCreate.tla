-------------------------- MODULE IdempotentCreate --------------------------
(***************************************************************************)
(* withIdempotency and runAndSettle of common/idempotency.ts, over the     *)
(* persist callbacks of createTrade (one durable write) and createOffer    *)
(* (an Intent, then an Offer), run by concurrent calls and retries.  Any   *)
(* database write may be refused, or commit while its answer is lost; a    *)
(* call may die at any await.                                              *)
(***************************************************************************)
EXTENDS Naturals, Sequences

CONSTANTS Scopes,    \* the operations: "trade" for createTrade, "offer" for createOffer
          Calls,     \* requests in flight
          Names,     \* idempotency keys clients choose, per scope
          NoName,    \* no key was supplied
          Payloads,  \* request payloads, told apart by their hash
          LostTradeAcks, \* whether persistTrade's write may commit and still throw
          MaxRows    \* bound on the intents, offers and trades ever made

ASSUME CreateAssumption ==
  /\ Scopes # {} /\ Scopes \subseteq {"trade", "offer"}
  /\ NoName \notin Names
  /\ Names # {} /\ Payloads # {}
  /\ LostTradeAcks \in BOOLEAN
  /\ MaxRows \in Nat

VARIABLES
  claim,     \* IdempotencyKey rows
  intents,   \* Intent rows: the key in idempotencyClaimId
  objects,   \* Trade and Offer rows
  call,      \* the calls
  answers,   \* what callers were told: key, payload and object
  announced  \* objects whose created event was emitted, once per emission

vars == <<claim, intents, objects, call, answers, announced>>

Keys == Scopes \X Names
AllKeys == Scopes \X (Names \cup {NoName})
Keyed(k) == k[2] # NoName

PCs == {"idle", "find", "reclaim", "refind", "trade", "findIntent", "intent", "findOffer",
        "offer", "failed", "settle", "unknown", "post"}

Unclaimed == [status |-> "none", hash |-> CHOOSE p \in Payloads : TRUE, ref |-> 0]

Idle == [pc |-> "idle", key |-> CHOOSE k \in Keys : TRUE, hash |-> CHOOSE p \in Payloads : TRUE,
         intent |-> 0, obj |-> 0]

TypeOK ==
  /\ claim \in [Keys -> [status : {"none", "IN_PROGRESS", "COMPLETED", "UNKNOWN", "FAILED"},
                         hash : Payloads, ref : Nat]]
  /\ intents \in Seq(AllKeys)
  /\ objects \in Seq([key : AllKeys, intent : Nat])
  /\ call \in [Calls -> [pc : PCs, key : AllKeys, hash : Payloads, intent : Nat, obj : Nat]]
  /\ answers \subseteq [key : AllKeys, hash : Payloads, obj : Nat]
  /\ announced \in Seq(Nat)

Init ==
  /\ claim = [k \in Keys |-> Unclaimed]
  /\ intents = <<>>
  /\ objects = <<>>
  /\ call = [c \in Calls |-> Idle]
  /\ answers = {}
  /\ announced = <<>>

-----------------------------------------------------------------------------

Goto(c, pc) == call' = [call EXCEPT ![c].pc = pc]
Leave(c) == call' = [call EXCEPT ![c] = Idle]

Row(c) == claim[call[c].key]
SetStatus(c, s) == claim' = [claim EXCEPT ![call[c].key].status = s]

Answer(c, o) ==
  answers' = answers \cup {[key |-> call[c].key, hash |-> call[c].hash, obj |-> o]}

\* Where persist() starts: persistTrade, or persistOffer with or without a claim.
PersistAt(k) ==
  IF k[1] = "trade" THEN "trade" ELSE IF Keyed(k) THEN "findIntent" ELSE "intent"

\* withIdempotency without a key.
RunUnprotected(c, s, p) ==
  /\ call[c].pc = "idle"
  /\ call' = [call EXCEPT ![c] = [pc |-> PersistAt(<<s, NoName>>), key |-> <<s, NoName>>,
                                  hash |-> p, intent |-> 0, obj |-> 0]]
  /\ UNCHANGED <<claim, intents, objects, answers, announced>>

\* store.claim: an insert, which may commit though its answer is lost.
Claim(c, k, p) ==
  /\ call[c].pc = "idle"
  /\ IF claim[k].status = "none"
     THEN /\ claim' = [claim EXCEPT ![k] = [status |-> "IN_PROGRESS", hash |-> p, ref |-> 0]]
          /\ \/ call' = [call EXCEPT ![c] = [pc |-> PersistAt(k), key |-> k, hash |-> p,
                                             intent |-> 0, obj |-> 0]]
             \/ UNCHANGED call
     ELSE /\ call' = [call EXCEPT ![c] = [pc |-> "find", key |-> k, hash |-> p,
                                          intent |-> 0, obj |-> 0]]
          /\ UNCHANGED claim
  /\ UNCHANGED <<intents, objects, answers, announced>>

Settled(row) == row.status \in {"COMPLETED", "UNKNOWN"}

FindAnyPayload(c) ==
  /\ call[c].pc = "find"
  /\ IF Row(c).status = "FAILED" THEN Goto(c, "reclaim") ELSE Leave(c)
  /\ IF Settled(Row(c)) THEN Answer(c, Row(c).ref) ELSE UNCHANGED answers
  /\ UNCHANGED <<claim, intents, objects, announced>>

FindThenPost(c) ==
  /\ call[c].pc = "find"
  /\ CASE Row(c).hash = call[c].hash /\ Row(c).status = "FAILED" -> Goto(c, "reclaim")
       [] Row(c).hash = call[c].hash /\ Settled(Row(c)) ->
            call' = [call EXCEPT ![c].pc = "post", ![c].obj = Row(c).ref]
       [] OTHER -> Leave(c)
  /\ UNCHANGED <<claim, intents, objects, answers, announced>>

\* store.find after a lost claim: recover a settled result, go on to reclaim a
\* failed one, refuse a different payload and a key that is in progress.
Find(c) ==
  /\ call[c].pc = "find"
  /\ IF Row(c).hash = call[c].hash /\ Row(c).status = "FAILED"
     THEN Goto(c, "reclaim")
     ELSE Leave(c)
  /\ IF Row(c).hash = call[c].hash /\ Settled(Row(c))
     THEN Answer(c, Row(c).ref)
     ELSE UNCHANGED answers
  /\ UNCHANGED <<claim, intents, objects, announced>>

\* store.reclaimFailed: FAILED to IN_PROGRESS, compare-and-set.
Reclaim(c) ==
  /\ call[c].pc = "reclaim"
  /\ IF Row(c).status = "FAILED"
     THEN SetStatus(c, "IN_PROGRESS") /\ (Goto(c, PersistAt(call[c].key)) \/ Leave(c))
     ELSE UNCHANGED claim /\ Goto(c, "refind")
  /\ UNCHANGED <<intents, objects, answers, announced>>

\* The reclaim was lost: whatever is true now, but no execution.
Refind(c) ==
  /\ call[c].pc = "refind"
  /\ IF Settled(Row(c)) THEN Answer(c, Row(c).ref) ELSE UNCHANGED answers
  /\ Leave(c)
  /\ UNCHANGED <<claim, intents, objects, announced>>

\* persist() returned object o, or threw.
Persisted(c, o) == call' = [call EXCEPT ![c].pc = IF Keyed(call[c].key) THEN "settle" ELSE "post",
                                        ![c].obj = o]
PersistThrew(c) == IF Keyed(call[c].key) THEN Goto(c, "failed") ELSE Leave(c)

\* An await of persist() rejects and nothing was written: a validation, a read, or
\* the write itself.
PersistRefused(c) ==
  /\ call[c].pc \in {"trade", "findIntent", "intent", "findOffer", "offer"}
  /\ PersistThrew(c)
  /\ UNCHANGED <<claim, intents, objects, answers, announced>>

\* Mutant of CreateTrade: a step of persistTrade after its insert may throw.
CreateTradeThenThrow(c) ==
  /\ call[c].pc = "trade"
  /\ Len(objects) < MaxRows
  /\ objects' = Append(objects, [key |-> call[c].key, intent |-> 0])
  /\ Persisted(c, Len(objects) + 1) \/ PersistThrew(c)
  /\ UNCHANGED <<claim, intents, answers, announced>>

\* persistTrade's only write.
CreateTrade(c) ==
  /\ call[c].pc = "trade"
  /\ Len(objects) < MaxRows
  /\ objects' = Append(objects, [key |-> call[c].key, intent |-> 0])
  /\ \/ Persisted(c, Len(objects) + 1)
     \/ LostTradeAcks /\ PersistThrew(c)
  /\ UNCHANGED <<claim, intents, answers, announced>>

IntentsOf(k) == {i \in DOMAIN intents : intents[i] = k}
OffersOf(i) == {o \in DOMAIN objects : objects[o].intent = i}

\* findByIdempotencyClaimId.
FindIntent(c) ==
  /\ call[c].pc = "findIntent"
  /\ \/ /\ IntentsOf(call[c].key) = {}
        /\ Goto(c, "intent")
     \/ \E i \in IntentsOf(call[c].key) :
           call' = [call EXCEPT ![c].pc = "findOffer", ![c].intent = i]
  /\ UNCHANGED <<claim, intents, objects, answers, announced>>

CreateIntentUnmarked(c) ==
  LET k == call[c].key
  IN  /\ call[c].pc = "intent"
      /\ Len(intents) < MaxRows
      /\ intents' = Append(intents, <<k[1], NoName>>)
      /\ \/ call' = [call EXCEPT ![c].pc = IF Keyed(k) THEN "findOffer" ELSE "offer",
                                 ![c].intent = Len(intents) + 1]
         \/ PersistThrew(c)
      /\ UNCHANGED <<claim, objects, answers, announced>>

\* intentEngine.create with the claim's id: the insert is refused when the marker
\* exists, and the winner is looked up.  It may throw after its insert.
CreateIntent(c) ==
  LET k == call[c].key
  IN  /\ call[c].pc = "intent"
      /\ \/ /\ ~Keyed(k) \/ IntentsOf(k) = {}
            /\ Len(intents) < MaxRows
            /\ intents' = Append(intents, k)
            /\ \/ call' = [call EXCEPT ![c].pc = IF Keyed(k) THEN "findOffer" ELSE "offer",
                                       ![c].intent = Len(intents) + 1]
               \/ PersistThrew(c)
         \/ /\ Keyed(k)
            /\ \E i \in IntentsOf(k) : call' = [call EXCEPT ![c].pc = "findOffer",
                                                            ![c].intent = i]
            /\ UNCHANGED intents
      /\ UNCHANGED <<claim, objects, answers, announced>>

\* The offer an earlier attempt may have made for the same intent.
FindOffer(c) ==
  /\ call[c].pc = "findOffer"
  /\ \/ /\ OffersOf(call[c].intent) = {}
        /\ Goto(c, "offer")
     \/ \E o \in OffersOf(call[c].intent) : Persisted(c, o)
  /\ UNCHANGED <<claim, intents, objects, answers, announced>>

\* prisma.offer.create: intentId is unique, and the winner is looked up.
CreateOffer(c) ==
  /\ call[c].pc = "offer"
  /\ \/ /\ OffersOf(call[c].intent) = {}
        /\ Len(objects) < MaxRows
        /\ objects' = Append(objects, [key |-> call[c].key, intent |-> call[c].intent])
        /\ \/ Persisted(c, Len(objects) + 1)
           \/ PersistThrew(c)
     \/ /\ Keyed(call[c].key)
        /\ \E o \in OffersOf(call[c].intent) : Persisted(c, o)
        /\ UNCHANGED objects
  /\ UNCHANGED <<claim, intents, answers, announced>>

\* runAndSettle, persist() threw.
MarkFailed(c) ==
  /\ call[c].pc = "failed"
  /\ SetStatus(c, "FAILED")
  /\ Leave(c)
  /\ UNCHANGED <<intents, objects, answers, announced>>

Settle(c, s) ==
  claim' = [claim EXCEPT ![call[c].key].status = s, ![call[c].key].ref = call[c].obj]

MarkCompletedOrFailed(c) ==
  /\ call[c].pc = "settle"
  /\ \/ Settle(c, "COMPLETED") /\ Goto(c, "post")
     \/ (Settle(c, "COMPLETED") \/ UNCHANGED claim) /\ Goto(c, "failed")
  /\ UNCHANGED <<intents, objects, answers, announced>>

\* runAndSettle, persist() succeeded: markCompleted commits, commits without an
\* answer, or is refused.
MarkCompleted(c) ==
  /\ call[c].pc = "settle"
  /\ \/ Settle(c, "COMPLETED") /\ Goto(c, "post")
     \/ (Settle(c, "COMPLETED") \/ UNCHANGED claim) /\ Goto(c, "unknown")
  /\ UNCHANGED <<intents, objects, answers, announced>>

\* The best-effort markUnknown; its failure is only logged.
MarkUnknown(c) ==
  /\ call[c].pc = "unknown"
  /\ Settle(c, "UNKNOWN") \/ UNCHANGED claim
  /\ Goto(c, "post")
  /\ UNCHANGED <<intents, objects, answers, announced>>

\* postPersist emits the created event, and may throw before or after.
PostPersist(c) ==
  /\ call[c].pc = "post"
  /\ announced' = Append(announced, call[c].obj)
  /\ Answer(c, call[c].obj) \/ UNCHANGED answers
  /\ Leave(c)
  /\ UNCHANGED <<claim, intents, objects>>

\* The process dies, or an await outside persist() rejects.
Crash(c) ==
  /\ call[c].pc # "idle"
  /\ Leave(c)
  /\ UNCHANGED <<claim, intents, objects, answers, announced>>

Step(c) ==
  \/ Find(c) \/ Reclaim(c) \/ Refind(c)
  \/ CreateTrade(c) \/ FindIntent(c) \/ CreateIntent(c) \/ FindOffer(c) \/ CreateOffer(c)
  \/ MarkFailed(c) \/ MarkCompleted(c) \/ MarkUnknown(c) \/ PostPersist(c)

Next ==
  \E c \in Calls :
     \/ \E s \in Scopes, p \in Payloads : RunUnprotected(c, s, p)
     \/ \E k \in Keys, p \in Payloads : Claim(c, k, p)
     \/ Step(c)
     \/ PersistRefused(c)
     \/ Crash(c)

Spec == Init /\ [][Next]_vars

-----------------------------------------------------------------------------

ObjectsOf(k) == {o \in DOMAIN objects : objects[o].key = k}

\* createOffer: however often a request is retried, and whatever fails, one
\* (scope, participantId, key) makes at most one Intent and one Offer.
OneOfferPerKey ==
  \A k \in Keys : k[1] = "offer" =>
     /\ \A i, j \in IntentsOf(k) : i = j
     /\ \A o, p \in ObjectsOf(k) : o = p

\* "Runs persist() at most once per (scope, participantId, key)": one key makes at
\* most one Trade.
OneTradePerKey ==
  \A k \in Keys : k[1] = "trade" => \A o, p \in ObjectsOf(k) : o = p

\* Everyone who was answered for one key sent the same payload and was told the
\* same object, which that key made.
AnswersAgree ==
  \A a, b \in answers :
     a.key = b.key /\ Keyed(a.key) =>
        /\ a.hash = b.hash
        /\ a.obj = b.obj
        /\ a.obj \in ObjectsOf(a.key)

\* postPersist, which is not idempotent, runs at most once per object.
AnnouncedOnce ==
  \A i, j \in DOMAIN announced : announced[i] = announced[j] => i = j

\* A settled claim stays settled with its result: no later failure of
\* bookkeeping, postPersist or a retry makes it retryable.
SettledStays ==
  [][\A k \in Keys : Settled(claim[k]) => /\ Settled(claim'[k])
                                          /\ claim'[k].ref = claim[k].ref]_vars

=============================================================================
