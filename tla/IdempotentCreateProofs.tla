----------------------- MODULE IdempotentCreateProofs -----------------------
(***************************************************************************)
(* Theorems about IdempotentCreate, for any number of calls, keys and      *)
(* payloads.  A call holds its key from the claim it won until it leaves;  *)
(* no key ever has two holders, and what callers are told is the object    *)
(* of the one holder that settled.                                         *)
(***************************************************************************)
EXTENDS IdempotentCreate, TLAPS

\* Every leaf that names no prover is tried with SMT, with Zenon and with SMT again.
USE SMTT(60), ZenonT(30), SMTT(61), SMTT(62)

PersistPCs == {"trade", "findIntent", "intent", "findOffer", "offer"}
ExecPCs == PersistPCs \cup {"failed", "settle"}
HoldPCs == ExecPCs \cup {"unknown", "post"}
LookPCs == {"find", "reclaim", "refind"}
DonePCs == {"settle", "unknown", "post"}

Holds(c, k) == call[c].pc \in HoldPCs /\ call[c].key = k

\* A holder's key is IN_PROGRESS, or settled by the holder itself.
HolderOK ==
  \A c \in Calls :
     LET k == call[c].key
     IN  Keyed(k) /\ call[c].pc \in HoldPCs =>
           /\ claim[k].hash = call[c].hash
           /\ call[c].pc \in ExecPCs => claim[k].status = "IN_PROGRESS"
           /\ \/ claim[k].status = "IN_PROGRESS"
              \/ Settled(claim[k]) /\ claim[k].ref = call[c].obj

SoleHolder ==
  \A k \in Keys : \A c, d \in Calls : Holds(c, k) /\ Holds(d, k) => c = d

\* A call that lost the claim looks at a claimed key.
LookerOK ==
  \A c \in Calls :
     call[c].pc \in LookPCs =>
        /\ Keyed(call[c].key)
        /\ claim[call[c].key].status # "none"
        /\ call[c].pc # "find" => claim[call[c].key].hash = call[c].hash

\* What is being settled, is settled and was answered is an object of the key.
ResultOK ==
  /\ \A c \in Calls : call[c].pc \in DonePCs => call[c].obj \in ObjectsOf(call[c].key)
  /\ \A k \in Keys : Settled(claim[k]) => claim[k].ref \in ObjectsOf(k)

\* An answered key is settled with the answer, or in progress for ever.
AnswerOK ==
  \A a \in answers :
     Keyed(a.key) =>
        /\ a.obj \in ObjectsOf(a.key)
        /\ a.hash = claim[a.key].hash
        /\ \A b \in answers : b.key = a.key => b.obj = a.obj
        /\ \/ Settled(claim[a.key]) /\ claim[a.key].ref = a.obj
           \/ claim[a.key].status = "IN_PROGRESS" /\ \A c \in Calls : ~Holds(c, a.key)

ScopeOK ==
  \A c \in Calls :
     /\ call[c].pc = "trade" => call[c].key[1] = "trade"
     /\ call[c].pc \in PersistPCs \ {"trade"} => call[c].key[1] = "offer"
     /\ call[c].pc \in {"findIntent", "findOffer", "failed", "settle", "unknown"} =>
          Keyed(call[c].key)

\* A key's trade exists once persistTrade is behind its holder.
TradeOK ==
  \A k \in Keys : k[1] = "trade" =>
     \A o \in ObjectsOf(k) :
        /\ claim[k].status \in {"IN_PROGRESS", "COMPLETED", "UNKNOWN"}
        /\ \A c \in Calls : call[c].key = k => call[c].pc \notin {"trade", "failed"}
        /\ \A p \in ObjectsOf(k) : o = p

\* An offer hangs on the intent its key marked, and both are unique.
OfferOK ==
  /\ \A k \in Keys : \A i, j \in IntentsOf(k) : i = j
  /\ \A c \in Calls : call[c].pc \in {"findOffer", "offer"} =>
        call[c].intent \in IntentsOf(call[c].key)
  /\ \A o \in DOMAIN objects :
        /\ objects[o].key[1] = "offer" => objects[o].intent \in IntentsOf(objects[o].key)
        /\ objects[o].key[1] = "trade" => objects[o].intent = 0
  /\ \A o, p \in DOMAIN objects :
        objects[o].intent = objects[p].intent /\ objects[o].intent # 0 => o = p

-----------------------------------------------------------------------------

\* What a step does to the calls and to one claim, without EXCEPT.
Moved(c) == \A d \in Calls \ {c} : call'[d] = call[d]
Left(c) == Moved(c) /\ call'[c].pc = "idle"
Started(c, k, p, pcs) ==
  Moved(c) /\ call'[c].pc \in pcs /\ call'[c].key = k /\ call'[c].hash = p
Stays(c, pcs) == Started(c, call[c].key, call[c].hash, pcs)

RowIs(k, st, h) ==
  /\ \A l \in Keys \ {k} : claim'[l] = claim[l]
  /\ claim'[k].status = st
  /\ claim'[k].hash = h

Grown == \A o \in DOMAIN objects : o \in DOMAIN objects' /\ objects'[o].key = objects[o].key

Typed ==
  /\ \A c \in Calls : call[c].key \in AllKeys
  /\ \A a \in answers : a.key \in AllKeys

Held == HolderOK /\ SoleHolder /\ LookerOK /\ ResultOK /\ AnswerOK /\ ScopeOK

LEMMA IdleType ==
  /\ Idle \in [pc : PCs, key : AllKeys, hash : Payloads, intent : Nat, obj : Nat]
  /\ Idle.pc = "idle"
<1>1. PICK sc \in Scopes, n \in Names : <<sc, n>> \in Keys
  BY CreateAssumption, ZenonT(60) DEF Keys
<1>2. (CHOOSE x \in Keys : TRUE) \in Keys
  BY <1>1
<1>3. (CHOOSE p \in Payloads : TRUE) \in Payloads
  BY CreateAssumption
<1>4. Keys \subseteq AllKeys
  BY DEF Keys, AllKeys
<1> QED
  BY <1>2, <1>3, <1>4 DEF Idle, PCs

LEMMA KeysOf ==
  /\ Keys \subseteq AllKeys
  /\ \A k \in AllKeys : (Keyed(k) <=> k \in Keys) /\ k[1] \in {"trade", "offer"}
BY CreateAssumption, ZenonT(60) DEF Keys, AllKeys, Keyed

LEMMA InitInv == Init => TypeOK /\ Held /\ TradeOK /\ OfferOK
<1> SUFFICES ASSUME Init PROVE TypeOK /\ Held /\ TradeOK /\ OfferOK
  OBVIOUS
<1>1. TypeOK
  <2>1. Unclaimed \in [status : {"none", "IN_PROGRESS", "COMPLETED", "UNKNOWN", "FAILED"},
                       hash : Payloads, ref : Nat]
    BY CreateAssumption DEF Unclaimed
  <2> QED
    BY <2>1, IdleType DEF Init, TypeOK
<1>2. \A c \in Calls : call[c].pc = "idle"
  BY IdleType DEF Init
<1>3. \A k \in Keys : claim[k].status = "none"
  BY DEF Init, Unclaimed
<1>4. \A k : ObjectsOf(k) = {} /\ IntentsOf(k) = {}
  BY DEF Init, ObjectsOf, IntentsOf
<1> QED
  BY <1>1, <1>2, <1>3, <1>4 DEF Init, Held, HolderOK, SoleHolder, LookerOK, ResultOK, AnswerOK,
     ScopeOK, TradeOK, OfferOK, Holds, HoldPCs, ExecPCs, PersistPCs, LookPCs, DonePCs, Settled

LEMMA RunEffect ==
  ASSUME Typed, Held, Grown, NEW c \in Calls, NEW s \in Scopes, NEW p,
         Started(c, <<s, NoName>>, p, {PersistAt(<<s, NoName>>)}),
         UNCHANGED <<claim, answers>>
  PROVE  Held'
<1> USE KeysOf DEF Typed, Held, Grown, Moved, Left, Started, Stays, RowIs
<1> USE DEF HoldPCs, ExecPCs, PersistPCs, LookPCs, DonePCs, Settled, Row, PersistAt, Answer
<1>0. <<s, NoName>> \in AllKeys /\ ~Keyed(<<s, NoName>>) /\ <<s, NoName>> \notin Keys
  BY DEF AllKeys, Keyed
<1>1. HolderOK'
  BY <1>0 DEF HolderOK, SoleHolder, Holds
<1>2. SoleHolder'
  BY <1>0 DEF SoleHolder, HolderOK, Holds
<1>3. LookerOK'
  BY <1>0 DEF LookerOK
<1>4. ResultOK'
  BY <1>0 DEF ResultOK, ObjectsOf
<1>5. AnswerOK'
  BY <1>0 DEF AnswerOK, Holds, ObjectsOf
<1>6. ScopeOK'
  BY <1>0 DEF ScopeOK
<1> QED
  BY <1>1, <1>2, <1>3, <1>4, <1>5, <1>6

LEMMA WinEffect ==
  ASSUME Typed, Held, Grown, NEW c \in Calls, NEW k \in Keys, NEW p, call[c].pc = "idle", claim[k].status = "none",
         RowIs(k, "IN_PROGRESS", p), Started(c, k, p, {PersistAt(k)}) \/ UNCHANGED call,
         UNCHANGED answers
  PROVE  Held'
<1> USE KeysOf DEF Typed, Held, Grown, Moved, Left, Started, Stays, RowIs
<1> USE DEF HoldPCs, ExecPCs, PersistPCs, LookPCs, DonePCs, Settled, Row, PersistAt, Answer
<1>1. HolderOK'
  BY DEF HolderOK, SoleHolder, Holds
<1>2. SoleHolder'
  BY DEF SoleHolder, HolderOK, Holds
<1>3. LookerOK'
  BY DEF LookerOK
<1>4. ResultOK'
  BY DEF ResultOK, ObjectsOf
<1>5. AnswerOK'
  BY DEF AnswerOK, Holds, ObjectsOf
<1>6. ScopeOK'
  BY DEF ScopeOK
<1> QED
  BY <1>1, <1>2, <1>3, <1>4, <1>5, <1>6

LEMMA LoseEffect ==
  ASSUME Typed, Held, Grown, NEW c \in Calls, NEW k \in Keys, NEW p, claim[k].status # "none",
         Started(c, k, p, {"find"}), UNCHANGED <<claim, answers>>
  PROVE  Held'
<1> USE KeysOf DEF Typed, Held, Grown, Moved, Left, Started, Stays, RowIs
<1> USE DEF HoldPCs, ExecPCs, PersistPCs, LookPCs, DonePCs, Settled, Row, PersistAt, Answer
<1>1. HolderOK'
  BY DEF HolderOK, SoleHolder, Holds
<1>2. SoleHolder'
  BY DEF SoleHolder, HolderOK, Holds
<1>3. LookerOK'
  BY DEF LookerOK
<1>4. ResultOK'
  BY DEF ResultOK, ObjectsOf
<1>5. AnswerOK'
  BY DEF AnswerOK, HolderOK, SoleHolder, LookerOK, ResultOK, Holds, ObjectsOf
<1>6. ScopeOK'
  BY DEF ScopeOK
<1> QED
  BY <1>1, <1>2, <1>3, <1>4, <1>5, <1>6

LEMMA LeaveEffect ==
  ASSUME Typed, Held, Grown, NEW c \in Calls, Left(c), UNCHANGED <<claim, answers>>
  PROVE  Held'
<1> USE KeysOf DEF Typed, Held, Grown, Moved, Left, Started, Stays, RowIs
<1> USE DEF HoldPCs, ExecPCs, PersistPCs, LookPCs, DonePCs, Settled, Row, PersistAt, Answer
<1>1. HolderOK'
  BY DEF HolderOK, SoleHolder, Holds
<1>2. SoleHolder'
  BY DEF SoleHolder, HolderOK, Holds
<1>3. LookerOK'
  BY DEF LookerOK
<1>4. ResultOK'
  BY DEF ResultOK, ObjectsOf
<1>5. AnswerOK'
  BY DEF AnswerOK, HolderOK, SoleHolder, LookerOK, ResultOK, Holds, ObjectsOf
<1>6. ScopeOK'
  BY DEF ScopeOK
<1> QED
  BY <1>1, <1>2, <1>3, <1>4, <1>5, <1>6

LEMMA RecoverEffect ==
  ASSUME Typed, Held, Grown, NEW c \in Calls, call[c].pc \in LookPCs, Left(c), Settled(Row(c)), Row(c).hash = call[c].hash,
         Answer(c, Row(c).ref), UNCHANGED claim
  PROVE  Held'
<1> USE KeysOf DEF Typed, Held, Grown, Moved, Left, Started, Stays, RowIs
<1> USE DEF HoldPCs, ExecPCs, PersistPCs, LookPCs, DonePCs, Settled, Row, PersistAt, Answer
<1>1. HolderOK'
  BY DEF HolderOK, SoleHolder, Holds
<1>2. SoleHolder'
  BY DEF SoleHolder, HolderOK, Holds
<1>3. LookerOK'
  BY DEF LookerOK
<1>4. ResultOK'
  BY DEF ResultOK, ObjectsOf
<1>5. AnswerOK'
  BY DEF AnswerOK, ResultOK, Holds, ObjectsOf
<1>6. ScopeOK'
  BY DEF ScopeOK
<1> QED
  BY <1>1, <1>2, <1>3, <1>4, <1>5, <1>6

LEMMA LookEffect ==
  ASSUME Typed, Held, Grown, NEW c \in Calls, call[c].pc \in LookPCs, Row(c).hash = call[c].hash,
         Stays(c, {"reclaim", "refind"}), UNCHANGED <<claim, answers>>
  PROVE  Held'
<1> USE KeysOf DEF Typed, Held, Grown, Moved, Left, Started, Stays, RowIs
<1> USE DEF HoldPCs, ExecPCs, PersistPCs, LookPCs, DonePCs, Settled, Row, PersistAt, Answer
<1>1. HolderOK'
  BY ZenonT(60) DEF HolderOK, SoleHolder, Holds
<1>2. SoleHolder'
  BY DEF SoleHolder, HolderOK, Holds
<1>3. LookerOK'
  BY DEF LookerOK
<1>4. ResultOK'
  BY DEF ResultOK, ObjectsOf
<1>5. AnswerOK'
  BY DEF AnswerOK, Holds, ObjectsOf
<1>6. ScopeOK'
  BY DEF ScopeOK
<1> QED
  BY <1>1, <1>2, <1>3, <1>4, <1>5, <1>6

LEMMA ReclaimEffect ==
  ASSUME Typed, Held, Grown, NEW c \in Calls, call[c].pc \in LookPCs, Row(c).hash = call[c].hash, Row(c).status = "FAILED",
         RowIs(call[c].key, "IN_PROGRESS", Row(c).hash),
         Stays(c, {PersistAt(call[c].key)}) \/ Left(c), UNCHANGED answers
  PROVE  Held'
<1> USE KeysOf DEF Typed, Held, Grown, Moved, Left, Started, Stays, RowIs
<1> USE DEF HoldPCs, ExecPCs, PersistPCs, LookPCs, DonePCs, Settled, Row, PersistAt, Answer
<1>1. HolderOK'
  BY DEF HolderOK
<1>2. SoleHolder'
  BY DEF SoleHolder, HolderOK, Holds
<1>3. LookerOK'
  BY DEF LookerOK
<1>4. ResultOK'
  BY DEF ResultOK, ObjectsOf
<1>5. AnswerOK'
  BY DEF AnswerOK, Holds, ObjectsOf
<1>6. ScopeOK'
  BY DEF ScopeOK
<1> QED
  BY <1>1, <1>2, <1>3, <1>4, <1>5, <1>6

LEMMA PersistEffect ==
  ASSUME Typed, Held, Grown, NEW c \in Calls, call[c].pc \in PersistPCs,
         \/ call'[c].pc = "failed" /\ Keyed(call[c].key)
         \/ call[c].key[1] = "offer" /\ (Keyed(call[c].key) \/ call'[c].pc = "offer"),
         Stays(c, (PersistPCs \ {"trade"}) \cup {"failed"}),
         UNCHANGED <<claim, answers>>
  PROVE  Held'
<1> USE KeysOf DEF Typed, Held, Grown, Moved, Left, Started, Stays, RowIs
<1> USE DEF HoldPCs, ExecPCs, PersistPCs, LookPCs, DonePCs, Settled, Row, PersistAt, Answer
<1>1. HolderOK'
  BY DEF HolderOK
<1>2. SoleHolder'
  BY DEF SoleHolder, HolderOK, Holds
<1>3. LookerOK'
  BY DEF LookerOK
<1>4. ResultOK'
  BY DEF ResultOK, ObjectsOf
<1>5. AnswerOK'
  BY DEF AnswerOK, Holds, ObjectsOf
<1>6. ScopeOK'
  BY DEF ScopeOK
<1> QED
  BY <1>1, <1>2, <1>3, <1>4, <1>5, <1>6, ZenonT(60)

LEMMA DoneEffect ==
  ASSUME Typed, Held, Grown, NEW c \in Calls, call[c].pc \in PersistPCs, call'[c].obj \in ObjectsOf(call[c].key)',
         Stays(c, {IF Keyed(call[c].key) THEN "settle" ELSE "post"}),
         UNCHANGED <<claim, answers>>
  PROVE  Held'
<1> USE KeysOf DEF Typed, Held, Grown, Moved, Left, Started, Stays, RowIs
<1> USE DEF HoldPCs, ExecPCs, PersistPCs, LookPCs, DonePCs, Settled, Row, PersistAt, Answer
<1>1. HolderOK'
  BY DEF HolderOK
<1>2. SoleHolder'
  BY DEF SoleHolder, HolderOK, Holds
<1>3. LookerOK'
  BY DEF LookerOK
<1>4. ResultOK'
  BY DEF ResultOK, ObjectsOf
<1>5. AnswerOK'
  BY DEF AnswerOK, Holds, ObjectsOf
<1>6. ScopeOK'
  BY DEF ScopeOK
<1> QED
  BY <1>1, <1>2, <1>3, <1>4, <1>5, <1>6, ZenonT(60)

LEMMA FailEffect ==
  ASSUME Typed, Held, Grown, NEW c \in Calls, call[c].pc = "failed", Left(c), RowIs(call[c].key, "FAILED", Row(c).hash),
         UNCHANGED answers
  PROVE  Held'
<1> USE KeysOf DEF Typed, Held, Grown, Moved, Left, Started, Stays, RowIs
<1> USE DEF HoldPCs, ExecPCs, PersistPCs, LookPCs, DonePCs, Settled, Row, PersistAt, Answer
<1>1. HolderOK'
  BY DEF HolderOK, SoleHolder, Holds
<1>2. SoleHolder'
  BY DEF SoleHolder, Holds
<1>3. LookerOK'
  BY DEF LookerOK
<1>4. ResultOK'
  BY DEF ResultOK, ObjectsOf
<1>5. AnswerOK'
  BY DEF AnswerOK, HolderOK, Holds, ObjectsOf
<1>6. ScopeOK'
  BY ZenonT(60) DEF ScopeOK
<1> QED
  BY <1>1, <1>2, <1>3, <1>4, <1>5, <1>6

LEMMA SettleEffect ==
  ASSUME Typed, Held, Grown, NEW c \in Calls, call[c].pc \in {"settle", "unknown"}, Stays(c, {"unknown", "post"}),
         call'[c].obj = call[c].obj,
         NEW st \in {"COMPLETED", "UNKNOWN"},
         \/ UNCHANGED claim
         \/ RowIs(call[c].key, st, Row(c).hash) /\ claim'[call[c].key].ref = call[c].obj,
         UNCHANGED answers
  PROVE  Held'
<1> USE KeysOf DEF Typed, Held, Grown, Moved, Left, Started, Stays, RowIs
<1> USE DEF HoldPCs, ExecPCs, PersistPCs, LookPCs, DonePCs, Settled, Row, PersistAt, Answer
<1>1. HolderOK'
  BY DEF HolderOK, SoleHolder, Holds
<1>2. SoleHolder'
  BY DEF SoleHolder, Holds
<1>3. LookerOK'
  BY DEF LookerOK
<1>4. ResultOK'
  BY DEF ResultOK, ObjectsOf
<1>5. AnswerOK'
  BY DEF AnswerOK, HolderOK, Holds, ObjectsOf
<1>6. ScopeOK'
  BY DEF ScopeOK
<1> QED
  BY <1>1, <1>2, <1>3, <1>4, <1>5, <1>6, ZenonT(60)

LEMMA PostEffect ==
  ASSUME Typed, Held, Grown, NEW c \in Calls, call[c].pc = "post", Left(c), Answer(c, call[c].obj), UNCHANGED claim
  PROVE  Held'
<1> USE KeysOf DEF Typed, Held, Grown, Moved, Left, Started, Stays, RowIs
<1> USE DEF HoldPCs, ExecPCs, PersistPCs, LookPCs, DonePCs, Settled, Row, PersistAt, Answer
<1>1. HolderOK'
  BY ZenonT(60) DEF HolderOK, SoleHolder, Holds
<1>2. SoleHolder'
  BY DEF SoleHolder, HolderOK, Holds
<1>3. LookerOK'
  BY DEF LookerOK
<1>4. ResultOK'
  BY DEF ResultOK, ObjectsOf
<1>5. AnswerOK'
  BY DEF AnswerOK, HolderOK, SoleHolder, ResultOK, Holds, ObjectsOf
<1>6. ScopeOK'
  BY ZenonT(60) DEF ScopeOK
<1> QED
  BY <1>1, <1>2, <1>3, <1>4, <1>5, <1>6, ZenonT(60)

-----------------------------------------------------------------------------

LEMMA SeqElement ==
  ASSUME NEW S, NEW q \in Seq(S), NEW i \in DOMAIN q
  PROVE  q[i] \in S
OBVIOUS

LEMMA SeqAppend ==
  ASSUME NEW S, NEW q \in Seq(S), NEW e \in S
  PROVE  Append(q, e) \in Seq(S)
OBVIOUS

LEMMA Typing == TypeOK => Typed
BY DEF TypeOK, Typed

LEMMA SameGrown == UNCHANGED objects => Grown
BY DEF Grown

LEMMA AppendGrown ==
  ASSUME TypeOK, NEW r, objects' = Append(objects, r)
  PROVE  /\ Grown
         /\ DOMAIN objects' = DOMAIN objects \cup {Len(objects) + 1}
         /\ Len(objects) + 1 \notin DOMAIN objects
         /\ objects'[Len(objects) + 1] = r
         /\ \A o \in DOMAIN objects : objects'[o] = objects[o]
BY DEF TypeOK, Grown

LEMMA Goes ==
  ASSUME TypeOK, NEW c \in Calls, NEW q, Goto(c, q)
  PROVE  /\ Stays(c, {q})
         /\ call'[c].obj = call[c].obj /\ call'[c].intent = call[c].intent
BY DEF TypeOK, Goto, Stays, Started, Moved

LEMMA Leaves ==
  ASSUME TypeOK, NEW c \in Calls, Leave(c)
  PROVE  Left(c)
BY IdleType DEF TypeOK, Leave, Left, Moved

LEMMA Persists ==
  ASSUME TypeOK, NEW c \in Calls, NEW o, Persisted(c, o)
  PROVE  /\ Stays(c, {IF Keyed(call[c].key) THEN "settle" ELSE "post"})
         /\ call'[c].obj = o
BY DEF TypeOK, Persisted, Stays, Started, Moved

LEMMA Throws ==
  ASSUME TypeOK, NEW c \in Calls, PersistThrew(c)
  PROVE  Left(c) \/ (Keyed(call[c].key) /\ Stays(c, {"failed"}))
BY Goes, Leaves DEF PersistThrew

LEMMA SetsRow ==
  ASSUME TypeOK, NEW c \in Calls, call[c].key \in Keys, NEW st, SetStatus(c, st)
  PROVE  /\ RowIs(call[c].key, st, Row(c).hash)
         /\ claim'[call[c].key].ref = claim[call[c].key].ref
BY DEF TypeOK, SetStatus, RowIs, Row

LEMMA SettlesRow ==
  ASSUME TypeOK, NEW c \in Calls, call[c].key \in Keys, NEW st, Settle(c, st)
  PROVE  /\ RowIs(call[c].key, st, Row(c).hash)
         /\ claim'[call[c].key].ref = call[c].obj
BY DEF TypeOK, Settle, RowIs, Row

LEMMA Picks ==
  ASSUME TypeOK, NEW c \in Calls, NEW q, NEW i,
         call' = [call EXCEPT ![c].pc = q, ![c].intent = i]
  PROVE  Stays(c, {q}) /\ Moved(c) /\ call'[c].intent = i /\ call'[c].key = call[c].key
BY DEF TypeOK, Stays, Started, Moved

-----------------------------------------------------------------------------

LEMMA HeldStep ==
  ASSUME TypeOK, Held, OfferOK, [Next]_vars
  PROVE  Held'
<1> USE Typing
<1>1. ASSUME NEW c \in Calls, NEW s \in Scopes, NEW p \in Payloads, RunUnprotected(c, s, p)
      PROVE  Held'
  <2>1. Started(c, <<s, NoName>>, p, {PersistAt(<<s, NoName>>)})
    BY <1>1 DEF RunUnprotected, Started, Moved, TypeOK
  <2> QED
    BY <1>1, <2>1, RunEffect, SameGrown DEF RunUnprotected
<1>2. ASSUME NEW c \in Calls, NEW k \in Keys, NEW p \in Payloads, Claim(c, k, p)
      PROVE  Held'
  <2>1. CASE claim[k].status = "none"
    <3>1. RowIs(k, "IN_PROGRESS", p)
      BY <1>2, <2>1 DEF Claim, RowIs, TypeOK
    <3>2. Started(c, k, p, {PersistAt(k)}) \/ UNCHANGED call
      BY <1>2, <2>1 DEF Claim, Started, Moved, TypeOK
    <3> QED
      BY <1>2, <2>1, <3>1, <3>2, WinEffect, SameGrown, ZenonT(60) DEF Claim
  <2>2. CASE claim[k].status # "none"
    <3>1. Started(c, k, p, {"find"})
      BY <1>2, <2>2 DEF Claim, Started, Moved, TypeOK
    <3> QED
      BY <1>2, <2>2, <3>1, LoseEffect, SameGrown, ZenonT(60) DEF Claim
  <2> QED
    BY <2>1, <2>2
<1>3. ASSUME NEW c \in Calls, Find(c)
      PROVE  Held'
  <2>1. CASE Row(c).hash = call[c].hash /\ Row(c).status = "FAILED"
    <3>1. Goto(c, "reclaim") /\ UNCHANGED <<claim, answers, objects>>
      BY <1>3, <2>1, ZenonT(60) DEF Find, Settled
    <3>2. Stays(c, {"reclaim", "refind"})
      BY <3>1, Goes, ZenonT(60) DEF Stays, Started
    <3> QED
      BY <1>3, <2>1, <3>1, <3>2, LookEffect, SameGrown, ZenonT(60) DEF Find, LookPCs
  <2>2. CASE Row(c).hash = call[c].hash /\ Settled(Row(c))
    <3>1. Left(c)
      BY <1>3, <2>2, Leaves, ZenonT(60) DEF Find, Settled
    <3> QED
      BY <1>3, <2>2, <3>1, RecoverEffect, SameGrown, ZenonT(60) DEF Find, LookPCs
  <2>3. CASE /\ ~(Row(c).hash = call[c].hash /\ Row(c).status = "FAILED")
             /\ ~(Row(c).hash = call[c].hash /\ Settled(Row(c)))
    BY <1>3, <2>3, Leaves, LeaveEffect, SameGrown, ZenonT(60) DEF Find
  <2> QED
    BY <2>1, <2>2, <2>3
<1>4. ASSUME NEW c \in Calls, Reclaim(c)
      PROVE  Held'
  <2>0. call[c].key \in Keys /\ Row(c).hash = call[c].hash /\ call[c].pc \in LookPCs
    BY <1>4, KeysOf, ZenonT(60) DEF Reclaim, Held, LookerOK, LookPCs, Typed, Row
  <2>1. CASE Row(c).status = "FAILED"
    <3>1. SetStatus(c, "IN_PROGRESS") /\ (Goto(c, PersistAt(call[c].key)) \/ Leave(c))
      BY <1>4, <2>1, ZenonT(60) DEF Reclaim
    <3>2. RowIs(call[c].key, "IN_PROGRESS", Row(c).hash)
      BY <2>0, <3>1, SetsRow, ZenonT(60)
    <3>3. Stays(c, {PersistAt(call[c].key)}) \/ Left(c)
      BY <3>1, Goes, Leaves
    <3> QED
      BY <1>4, <2>0, <2>1, <3>2, <3>3, ReclaimEffect, SameGrown, ZenonT(60) DEF Reclaim
  <2>2. CASE Row(c).status # "FAILED"
    <3>1. Stays(c, {"reclaim", "refind"})
      BY <1>4, <2>2, Goes, ZenonT(60) DEF Reclaim, Stays, Started
    <3> QED
      BY <1>4, <2>0, <2>2, <3>1, LookEffect, SameGrown, ZenonT(60) DEF Reclaim
  <2> QED
    BY <2>1, <2>2
<1>5. ASSUME NEW c \in Calls, Refind(c)
      PROVE  Held'
  <2>0. Row(c).hash = call[c].hash /\ call[c].pc \in LookPCs /\ Left(c)
    BY <1>5, Leaves, ZenonT(60) DEF Refind, Held, LookerOK, LookPCs, Row
  <2>1. CASE Settled(Row(c))
    BY <1>5, <2>0, <2>1, RecoverEffect, SameGrown, ZenonT(60) DEF Refind
  <2>2. CASE ~Settled(Row(c))
    BY <1>5, <2>0, <2>2, LeaveEffect, SameGrown DEF Refind
  <2> QED
    BY <2>1, <2>2
<1>6. ASSUME NEW c \in Calls, PersistThrew(c), call[c].pc \in PersistPCs, Grown,
             UNCHANGED <<claim, answers>>
      PROVE  Held'
  <2>1. CASE Left(c)
    BY <1>6, <2>1, LeaveEffect
  <2>2. CASE Keyed(call[c].key) /\ Stays(c, {"failed"})
    <3>1. Stays(c, (PersistPCs \ {"trade"}) \cup {"failed"}) /\ call'[c].pc = "failed"
      BY <2>2 DEF Stays, Started
    <3> QED
      BY <1>6, <2>2, <3>1, PersistEffect, ZenonT(60)
  <2> QED
    BY <1>6, <2>1, <2>2, Throws
<1>7. ASSUME NEW c \in Calls, NEW o, Persisted(c, o), call[c].pc \in PersistPCs, Grown,
             o \in DOMAIN objects', objects'[o].key = call[c].key, UNCHANGED <<claim, answers>>
      PROVE  Held'
  <2>1. Stays(c, {IF Keyed(call[c].key) THEN "settle" ELSE "post"}) /\ call'[c].obj = o
    BY <1>7, Persists
  <2>2. call'[c].obj \in ObjectsOf(call[c].key)'
    BY <1>7, <2>1 DEF ObjectsOf, Stays, Started
  <2> QED
    BY <1>7, <2>1, <2>2, DoneEffect

<1>8. ASSUME NEW c \in Calls, CreateTrade(c)
      PROVE  Held'
  <2>1. /\ Grown
        /\ Len(objects) + 1 \in DOMAIN objects'
        /\ objects'[Len(objects) + 1].key = call[c].key
    BY <1>8, AppendGrown DEF CreateTrade
  <2>2. Persisted(c, Len(objects) + 1) \/ PersistThrew(c)
    BY <1>8 DEF CreateTrade
  <2> QED
    BY <1>6, <1>7, <1>8, <2>1, <2>2, ZenonT(60) DEF CreateTrade, PersistPCs
<1>9. ASSUME NEW c \in Calls, NEW q \in {"intent", "findOffer", "offer"}, Stays(c, {q}),
             call[c].pc \in PersistPCs, call[c].key[1] = "offer",
             Keyed(call[c].key) \/ q = "offer", UNCHANGED <<claim, answers, objects>>
      PROVE  Held'
  <2>1. Stays(c, (PersistPCs \ {"trade"}) \cup {"failed"}) /\ call'[c].pc = q
    BY <1>9 DEF Stays, Started, PersistPCs
  <2> QED
    BY <1>9, <2>1, PersistEffect, SameGrown, ZenonT(60)
<1>10. ASSUME NEW c \in Calls, FindIntent(c)
       PROVE  Held'
  <2>1. Keyed(call[c].key) /\ call[c].key[1] = "offer"
    BY <1>10 DEF FindIntent, Held, ScopeOK, PersistPCs
  <2>2. Stays(c, {"intent"}) \/ Stays(c, {"findOffer"})
    BY <1>10, Goes, Picks DEF FindIntent
  <2> QED
    BY <1>9, <1>10, <2>1, <2>2 DEF FindIntent, PersistPCs
<1>11. ASSUME NEW c \in Calls, CreateIntent(c)
       PROVE  Held'
  <2>1. call[c].key[1] = "offer" /\ call[c].pc \in PersistPCs
    BY <1>11 DEF CreateIntent, Held, ScopeOK, PersistPCs
  <2>2. \/ PersistThrew(c)
        \/ Stays(c, {"findOffer"}) /\ Keyed(call[c].key)
        \/ Stays(c, {"offer"})
    BY <1>11, Picks, ZenonT(60) DEF CreateIntent
  <2> QED
    BY <1>6, <1>9, <1>11, <2>1, <2>2, SameGrown DEF CreateIntent
<1>12. ASSUME NEW c \in Calls, call[c].pc \in {"findOffer", "offer"},
              NEW o \in OffersOf(call[c].intent)
       PROVE  o \in DOMAIN objects /\ objects[o].key = call[c].key
  <2>1. call[c].intent \in DOMAIN intents /\ intents[call[c].intent] = call[c].key
    BY <1>12 DEF OfferOK, IntentsOf
  <2>2. o \in DOMAIN objects /\ objects[o].intent = call[c].intent
    BY <1>12 DEF OffersOf
  <2>3. objects[o].key \in AllKeys /\ call[c].intent # 0
    <3>1. objects[o] \in [key : AllKeys, intent : Nat]
      BY <2>2, SeqElement, ZenonT(60) DEF TypeOK
    <3>2. DOMAIN intents = 1 .. Len(intents)
      BY DEF TypeOK
    <3> QED
      BY <2>1, <3>1, <3>2
  <2>4. objects[o].intent \in IntentsOf(objects[o].key)
    BY <2>2, <2>3, KeysOf DEF OfferOK
  <2> QED
    BY <2>1, <2>2, <2>4 DEF IntentsOf
<1>13. ASSUME NEW c \in Calls, FindOffer(c)
       PROVE  Held'
  <2>1. Keyed(call[c].key) /\ call[c].key[1] = "offer" /\ call[c].pc \in PersistPCs
    BY <1>13, ZenonT(60) DEF FindOffer, Held, ScopeOK, PersistPCs
  <2>2. CASE Goto(c, "offer")
    BY <1>9, <1>13, <2>1, <2>2, Goes, ZenonT(60) DEF FindOffer
  <2>3. CASE \E o \in OffersOf(call[c].intent) : Persisted(c, o)
    <3>1. PICK o \in OffersOf(call[c].intent) : Persisted(c, o)
      BY <2>3
    <3>2. o \in DOMAIN objects' /\ objects'[o].key = call[c].key
      BY <1>12, <1>13, <3>1 DEF FindOffer
    <3> QED
      BY <1>7, <1>13, <2>1, <3>1, <3>2, SameGrown, ZenonT(60) DEF FindOffer
  <2> QED
    BY <1>13, <2>2, <2>3 DEF FindOffer
<1>14. ASSUME NEW c \in Calls, CreateOffer(c)
       PROVE  Held'
  <2>0. call[c].pc = "offer" /\ call[c].pc \in PersistPCs /\ UNCHANGED <<claim, answers>>
    BY <1>14, ZenonT(60) DEF CreateOffer, PersistPCs
  <2>1. CASE objects' = Append(objects, [key |-> call[c].key, intent |-> call[c].intent])
    <3>1. /\ Grown
          /\ Len(objects) + 1 \in DOMAIN objects'
          /\ objects'[Len(objects) + 1].key = call[c].key
      BY <2>1, AppendGrown
    <3>2. \/ Persisted(c, Len(objects) + 1)
          \/ PersistThrew(c)
      <4>1. objects' # objects
        BY <2>1, AppendGrown
      <4> QED
        BY <1>14, <4>1, ZenonT(60) DEF CreateOffer
    <3> QED
      BY <1>6, <1>7, <2>0, <3>1, <3>2, ZenonT(60)
  <2>2. CASE UNCHANGED objects /\ \E o \in OffersOf(call[c].intent) : Persisted(c, o)
    <3>1. PICK o \in OffersOf(call[c].intent) : Persisted(c, o)
      BY <2>2
    <3>2. o \in DOMAIN objects' /\ objects'[o].key = call[c].key
      BY <1>12, <2>0, <2>2, <3>1
    <3> QED
      BY <1>7, <2>0, <2>2, <3>1, <3>2, SameGrown
  <2> QED
    BY <1>14, <2>1, <2>2 DEF CreateOffer
<1>15. ASSUME NEW c \in Calls, MarkFailed(c)
       PROVE  Held'
  <2>1. call[c].key \in Keys
    BY <1>15, KeysOf DEF MarkFailed, Held, ScopeOK, Typed
  <2>2. RowIs(call[c].key, "FAILED", Row(c).hash) /\ Left(c)
    BY <1>15, <2>1, SetsRow, Leaves, ZenonT(60) DEF MarkFailed
  <2> QED
    BY <1>15, <2>1, <2>2, FailEffect, SameGrown DEF MarkFailed
<1>16. ASSUME NEW c \in Calls, NEW st \in {"COMPLETED", "UNKNOWN"}, NEW q \in {"unknown", "post"},
              call[c].pc \in {"settle", "unknown"}, Goto(c, q), Settle(c, st) \/ UNCHANGED claim,
              UNCHANGED <<answers, objects>>
       PROVE  Held'
  <2>1. call[c].key \in Keys
    BY <1>16, KeysOf, ZenonT(60) DEF Held, ScopeOK, Typed
  <2>2. Stays(c, {"unknown", "post"}) /\ call'[c].obj = call[c].obj
    BY <1>16, Goes, ZenonT(60) DEF Stays, Started
  <2>3. \/ UNCHANGED claim
        \/ RowIs(call[c].key, st, Row(c).hash) /\ claim'[call[c].key].ref = call[c].obj
    BY <1>16, <2>1, SettlesRow, ZenonT(60)
  <2> QED
    BY <1>16, <2>2, <2>3, SettleEffect, SameGrown, ZenonT(60)
<1>17. ASSUME NEW c \in Calls, MarkCompleted(c) \/ MarkUnknown(c)
       PROVE  Held'
  BY <1>16, <1>17, ZenonT(60) DEF MarkCompleted, MarkUnknown
<1>18. ASSUME NEW c \in Calls, PostPersist(c)
       PROVE  Held'
  <2>1. CASE Answer(c, call[c].obj)
    BY <1>18, <2>1, Leaves, PostEffect, SameGrown, ZenonT(60) DEF PostPersist
  <2>2. CASE UNCHANGED answers
    BY <1>18, <2>2, Leaves, LeaveEffect, SameGrown DEF PostPersist
  <2> QED
    BY <1>18, <2>1, <2>2 DEF PostPersist
<1>19. ASSUME NEW c \in Calls, PersistRefused(c)
       PROVE  Held'
  BY <1>6, <1>19, SameGrown DEF PersistRefused, PersistPCs
<1>20. ASSUME NEW c \in Calls, Crash(c)
       PROVE  Held'
  BY <1>20, Leaves, LeaveEffect, SameGrown DEF Crash
<1>21. CASE UNCHANGED vars
  <2>1. UNCHANGED <<claim, call, objects, answers>>
    BY <1>21 DEF vars
  <2>2. HolderOK' /\ SoleHolder'
    BY <2>1, ZenonT(60) DEF Held, HolderOK, SoleHolder, Holds
  <2>3. LookerOK' /\ ScopeOK'
    BY <2>1, ZenonT(60) DEF Held, LookerOK, ScopeOK
  <2>4. ResultOK'
    BY <2>1, ZenonT(60) DEF Held, ResultOK, ObjectsOf
  <2>5. AnswerOK'
    <3>1. /\ \A k : ObjectsOf(k)' = ObjectsOf(k)
          /\ \A c, k : Holds(c, k)' <=> Holds(c, k)
      BY <2>1 DEF ObjectsOf, Holds
    <3> QED
      BY <2>1, <3>1 DEF Held, AnswerOK
  <2> QED
    BY <2>2, <2>3, <2>4, <2>5 DEF Held
<1> QED
  BY <1>1, <1>2, <1>3, <1>4, <1>5, <1>8, <1>10, <1>11, <1>13, <1>14, <1>15, <1>17, <1>18,
     <1>19, <1>20, <1>21 DEF Next, Step

-----------------------------------------------------------------------------

CallRec == [pc : PCs, key : AllKeys, hash : Payloads, intent : Nat, obj : Nat]

LEMMA PersistAtType == \A k \in AllKeys : PersistAt(k) \in PCs
BY DEF PersistAt, PCs

LEMMA PersistedType ==
  ASSUME TypeOK, NEW c \in Calls, NEW o \in Nat, Persisted(c, o)
  PROVE  call' \in [Calls -> CallRec]
<1>1. ASSUME NEW q \in PCs, call' = [call EXCEPT ![c].pc = q, ![c].obj = o]
      PROVE  call' \in [Calls -> CallRec]
  BY <1>1, ZenonT(60) DEF TypeOK, CallRec
<1> QED
  BY <1>1, ZenonT(60) DEF Persisted, PCs

LEMMA GotoType ==
  ASSUME TypeOK, NEW c \in Calls, NEW q \in PCs, Goto(c, q)
  PROVE  call' \in [Calls -> CallRec]
BY ZenonT(60) DEF TypeOK, CallRec, Goto

LEMMA LeaveType ==
  ASSUME TypeOK, NEW c \in Calls, Leave(c)
  PROVE  call' \in [Calls -> CallRec]
BY IdleType DEF TypeOK, CallRec, Leave

LEMMA ThrewType ==
  ASSUME TypeOK, NEW c \in Calls, PersistThrew(c)
  PROVE  call' \in [Calls -> CallRec]
BY GotoType, LeaveType DEF PersistThrew, PCs

LEMMA PicksType ==
  ASSUME TypeOK, NEW c \in Calls, NEW q \in PCs, NEW i \in Nat,
         call' = [call EXCEPT ![c].pc = q, ![c].intent = i]
  PROVE  call' \in [Calls -> CallRec]
BY ZenonT(60) DEF TypeOK, CallRec

ClaimRec == [status : {"none", "IN_PROGRESS", "COMPLETED", "UNKNOWN", "FAILED"},
             hash : Payloads, ref : Nat]

LEMMA RowTypes ==
  ASSUME TypeOK, NEW c \in Calls, call[c].key \in Keys,
         NEW st \in {"IN_PROGRESS", "COMPLETED", "UNKNOWN", "FAILED"},
         SetStatus(c, st) \/ Settle(c, st)
  PROVE  claim' \in [Keys -> ClaimRec]
<1>1. claim \in [Keys -> ClaimRec] /\ call[c].obj \in Nat
  BY DEF TypeOK, ClaimRec
<1>2. CASE SetStatus(c, st)
  BY <1>1, <1>2 DEF SetStatus, ClaimRec
<1>3. CASE Settle(c, st)
  BY <1>1, <1>3 DEF Settle, ClaimRec
<1> QED
  BY <1>2, <1>3

LEMMA AnswerType ==
  ASSUME TypeOK, NEW c \in Calls, NEW o \in Nat, Answer(c, o)
  PROVE  answers' \subseteq [key : AllKeys, hash : Payloads, obj : Nat]
BY DEF TypeOK, Answer

LEMMA TypeStep ==
  ASSUME TypeOK, Held, [Next]_vars
  PROVE  TypeOK'
<1> USE Typing
<1>0. ASSUME call' \in [Calls -> CallRec], claim' \in [Keys -> ClaimRec], intents' \in Seq(AllKeys),
             objects' \in Seq([key : AllKeys, intent : Nat]),
             answers' \subseteq [key : AllKeys, hash : Payloads, obj : Nat],
             announced' \in Seq(Nat)
      PROVE  TypeOK'
  BY <1>0 DEF TypeOK, CallRec, ClaimRec
<1>a. /\ claim \in [Keys -> ClaimRec] /\ intents \in Seq(AllKeys)
      /\ objects \in Seq([key : AllKeys, intent : Nat])
      /\ answers \subseteq [key : AllKeys, hash : Payloads, obj : Nat]
      /\ announced \in Seq(Nat) /\ call \in [Calls -> CallRec]
  BY DEF TypeOK, CallRec, ClaimRec
<1>b. ASSUME NEW c \in Calls
      PROVE  call[c] \in CallRec /\ call[c].key \in AllKeys /\ call[c].intent \in Nat /\ call[c].obj \in Nat
  BY <1>a DEF CallRec
<1>1. ASSUME NEW c \in Calls, NEW s \in Scopes, NEW p \in Payloads, RunUnprotected(c, s, p)
      PROVE  TypeOK'
  <2>1. <<s, NoName>> \in AllKeys
    BY DEF AllKeys
  <2>2. call' \in [Calls -> CallRec]
    BY <1>1, <1>a, <2>1, PersistAtType DEF RunUnprotected, CallRec
  <2> QED
    BY <1>0, <1>1, <1>a, <2>2 DEF RunUnprotected
<1>2. ASSUME NEW c \in Calls, NEW k \in Keys, NEW p \in Payloads, Claim(c, k, p)
      PROVE  TypeOK'
  <2>1. k \in AllKeys
    BY KeysOf
  <2>2. call' \in [Calls -> CallRec]
    <3>1. ASSUME NEW q \in PCs
          PROVE  [pc |-> q, key |-> k, hash |-> p, intent |-> 0, obj |-> 0] \in CallRec
      BY <2>1 DEF CallRec
    <3>2. PersistAt(k) \in PCs /\ "find" \in PCs
      BY <2>1, PersistAtType DEF PCs
    <3> QED
      BY <1>2, <1>a, <3>1, <3>2, ZenonT(60) DEF Claim
  <2>3. claim' \in [Keys -> ClaimRec]
    <3>1. [status |-> "IN_PROGRESS", hash |-> p, ref |-> 0] \in ClaimRec
      BY DEF ClaimRec
    <3> QED
      BY <1>2, <1>a, <3>1, ZenonT(60) DEF Claim
  <2> QED
    BY <1>0, <1>2, <1>a, <2>2, <2>3, ZenonT(60) DEF Claim
<1>3. ASSUME NEW c \in Calls, Find(c) \/ Refind(c)
      PROVE  TypeOK'
  <2>1. call[c].key \in Keys
    BY <1>3, KeysOf, ZenonT(60) DEF Find, Refind, Held, LookerOK, LookPCs, Typed
  <2>2. Row(c).ref \in Nat
    BY <1>a, <2>1 DEF Row, ClaimRec
  <2>3. call' \in [Calls -> CallRec]
    BY <1>3, GotoType, LeaveType, ZenonT(60) DEF Find, Refind, PCs
  <2>4. answers' \subseteq [key : AllKeys, hash : Payloads, obj : Nat]
    BY <1>3, <1>a, <2>2, AnswerType, ZenonT(60) DEF Find, Refind
  <2> QED
    BY <1>0, <1>3, <1>a, <2>3, <2>4, ZenonT(60) DEF Find, Refind
<1>4. ASSUME NEW c \in Calls, Reclaim(c)
      PROVE  TypeOK'
  <2>1. call[c].key \in Keys
    BY <1>4, KeysOf, ZenonT(60) DEF Reclaim, Held, LookerOK, LookPCs, Typed
  <2>2. call' \in [Calls -> CallRec]
    BY <1>4, <1>b, GotoType, LeaveType, PersistAtType, ZenonT(60) DEF Reclaim, PCs
  <2>3. claim' \in [Keys -> ClaimRec]
    BY <1>4, <1>a, <2>1, RowTypes DEF Reclaim
  <2> QED
    BY <1>0, <1>4, <1>a, <2>2, <2>3 DEF Reclaim
<1>5. ASSUME NEW c \in Calls, CreateTrade(c) \/ CreateOffer(c)
      PROVE  TypeOK'
  <2>1. Len(objects) + 1 \in Nat /\ \A o \in OffersOf(call[c].intent) : o \in Nat
    BY DEF OffersOf
  <2>2. call' \in [Calls -> CallRec]
    BY <1>5, <2>1, PersistedType, ThrewType, ZenonT(60) DEF CreateTrade, CreateOffer
  <2>3. objects' \in Seq([key : AllKeys, intent : Nat])
    <3>1. ASSUME NEW i \in Nat, objects' = Append(objects, [key |-> call[c].key, intent |-> i])
          PROVE  objects' \in Seq([key : AllKeys, intent : Nat])
      <4>1. [key |-> call[c].key, intent |-> i] \in [key : AllKeys, intent : Nat]
        BY <1>b
      <4> QED
        BY <1>a, <3>1, <4>1, SeqAppend, ZenonT(60)
    <3> QED
      BY <1>5, <1>a, <1>b, <3>1, ZenonT(60) DEF CreateTrade, CreateOffer
  <2> QED
    BY <1>0, <1>5, <1>a, <2>2, <2>3 DEF CreateTrade, CreateOffer
<1>6. ASSUME NEW c \in Calls, FindIntent(c) \/ CreateIntent(c) \/ FindOffer(c)
      PROVE  TypeOK'
  <2>1. /\ Len(intents) + 1 \in Nat
        /\ \A i \in IntentsOf(call[c].key) : i \in Nat
        /\ \A o \in OffersOf(call[c].intent) : o \in Nat
    BY <1>a DEF OffersOf, IntentsOf
  <2>2. call' \in [Calls -> CallRec]
    <3>1. CASE FindIntent(c)
      BY <2>1, <3>1, GotoType, PicksType, ZenonT(60) DEF FindIntent, PCs
    <3>2. CASE CreateIntent(c)
      BY <2>1, <3>2, ThrewType, PicksType, ZenonT(60) DEF CreateIntent, PCs
    <3>3. CASE FindOffer(c)
      BY <2>1, <3>3, GotoType, PersistedType, ZenonT(60) DEF FindOffer, PCs
    <3> QED
      BY <1>6, <3>1, <3>2, <3>3
  <2>3. intents' \in Seq(AllKeys)
    <3>1. ASSUME intents' = Append(intents, call[c].key)
          PROVE  intents' \in Seq(AllKeys)
      BY <1>a, <1>b, <3>1, SeqAppend
    <3> QED
      BY <1>6, <1>a, <3>1 DEF FindIntent, CreateIntent, FindOffer
  <2> QED
    BY <1>0, <1>6, <1>a, <2>2, <2>3 DEF FindIntent, CreateIntent, FindOffer
<1>7. ASSUME NEW c \in Calls, MarkFailed(c) \/ MarkCompleted(c) \/ MarkUnknown(c)
      PROVE  TypeOK'
  <2>1. call[c].key \in Keys
    BY <1>7, KeysOf, ZenonT(60) DEF MarkFailed, MarkCompleted, MarkUnknown, Held, ScopeOK, Typed
  <2>2. call' \in [Calls -> CallRec]
    BY <1>7, GotoType, LeaveType, ZenonT(60) DEF MarkFailed, MarkCompleted, MarkUnknown, PCs
  <2>3. claim' \in [Keys -> ClaimRec]
    BY <1>7, <1>a, <2>1, RowTypes DEF MarkFailed, MarkCompleted, MarkUnknown
  <2> QED
    BY <1>0, <1>7, <1>a, <2>2, <2>3 DEF MarkFailed, MarkCompleted, MarkUnknown
<1>8. ASSUME NEW c \in Calls, PostPersist(c)
      PROVE  TypeOK'
  <2>1. call' \in [Calls -> CallRec] /\ announced' \in Seq(Nat)
    BY <1>8, <1>a, <1>b, LeaveType DEF PostPersist
  <2>2. answers' \subseteq [key : AllKeys, hash : Payloads, obj : Nat]
    BY <1>8, <1>a, <1>b, AnswerType DEF PostPersist
  <2> QED
    BY <1>0, <1>8, <1>a, <2>1, <2>2 DEF PostPersist
<1>9. ASSUME NEW c \in Calls, PersistRefused(c) \/ Crash(c)
      PROVE  TypeOK'
  BY <1>0, <1>9, <1>a, ThrewType, LeaveType DEF PersistRefused, Crash
<1>10. CASE UNCHANGED vars
  BY <1>10 DEF vars, TypeOK
<1> QED
  BY <1>1, <1>2, <1>3, <1>4, <1>5, <1>6, <1>7, <1>8, <1>9, <1>10 DEF Next, Step

-----------------------------------------------------------------------------

OfferPCs == {"findOffer", "offer"}

\* A step that makes no row, and sends a call to the offer only with its intent.
LEMMA OfferFrame ==
  ASSUME Typed, OfferOK, NEW c \in Calls, UNCHANGED <<intents, objects>>, Moved(c),
         call'[c].pc \in OfferPCs => call'[c].intent \in IntentsOf(call'[c].key)
  PROVE  OfferOK'
BY ZenonT(60) DEF OfferOK, Moved, IntentsOf, OfferPCs

\* Claim either starts the call or leaves all calls as they were.
LEMMA ClaimCall ==
  ASSUME TypeOK, NEW c \in Calls, NEW k \in Keys, NEW p \in Payloads, Claim(c, k, p)
  PROVE  /\ \/ UNCHANGED call /\ claim[k].status = "none"
            \/ Moved(c) /\ call'[c].key = k /\ call'[c].pc \in {PersistAt(k), "find"}
         /\ claim[k].status # "none" => Moved(c) /\ call'[c].pc = "find"
<1>1. ASSUME NEW pc, call' = [call EXCEPT ![c] = [pc |-> pc, key |-> k, hash |-> p,
                                                 intent |-> 0, obj |-> 0]]
      PROVE  Moved(c) /\ call'[c].key = k /\ call'[c].pc = pc
  BY <1>1 DEF TypeOK, Moved
<1> QED
  BY <1>1, ZenonT(60) DEF Claim

LEMMA OfferIdle ==
  ASSUME Typed, OfferOK, NEW c \in Calls, UNCHANGED <<intents, objects>>, Moved(c),
         call'[c].pc \notin OfferPCs
  PROVE  OfferOK'
BY OfferFrame

LEMMA IntentAdded ==
  ASSUME TypeOK, OfferOK, NEW c \in Calls, intents' = Append(intents, call[c].key),
         UNCHANGED objects, Keyed(call[c].key) => IntentsOf(call[c].key) = {}, Moved(c),
         \/ call'[c].pc \notin OfferPCs
         \/ call'[c].key = call[c].key /\ call'[c].intent = Len(intents) + 1
  PROVE  OfferOK'
<1>1. /\ DOMAIN intents' = DOMAIN intents \cup {Len(intents) + 1}
      /\ Len(intents) + 1 \notin DOMAIN intents
      /\ intents'[Len(intents) + 1] = call[c].key
      /\ \A i \in DOMAIN intents : intents'[i] = intents[i]
  OBVIOUS
<1>2. call[c].key \in AllKeys
  BY Typing, ZenonT(60) DEF Typed
<1>3. \A k \in Keys : \A i, j \in IntentsOf(k)' : i = j
  BY KeysOf DEF OfferOK, IntentsOf
<1>4. \A d \in Calls : call'[d].pc \in {"findOffer", "offer"} =>
                          call'[d].intent \in DOMAIN intents' /\ intents'[call'[d].intent] = call'[d].key
  BY DEF OfferOK, IntentsOf, Moved, OfferPCs
<1>5. \A o \in DOMAIN objects' :
         objects'[o].key[1] = "offer" =>
            objects'[o].intent \in DOMAIN intents' /\ intents'[objects'[o].intent] = objects'[o].key
  BY <1>1, ZenonT(60) DEF OfferOK, IntentsOf
<1> QED
  BY <1>3, <1>4, <1>5, ZenonT(60) DEF OfferOK, IntentsOf

LEMMA ObjectAdded ==
  ASSUME TypeOK, OfferOK, NEW c \in Calls, UNCHANGED intents, Moved(c), call'[c].pc \notin OfferPCs,
         NEW i, objects' = Append(objects, [key |-> call[c].key, intent |-> i]),
         \/ call[c].key[1] = "trade" /\ i = 0
         \/ /\ call[c].key[1] = "offer" /\ i \in IntentsOf(call[c].key)
            /\ \A o \in DOMAIN objects : objects[o].intent # i
  PROVE  OfferOK'
<1>1. /\ DOMAIN objects' = DOMAIN objects \cup {Len(objects) + 1}
      /\ objects'[Len(objects) + 1] = [key |-> call[c].key, intent |-> i]
      /\ \A o \in DOMAIN objects : objects'[o] = objects[o]
  BY AppendGrown, ZenonT(60)
<1>2. \A k \in Keys : \A j, l \in IntentsOf(k)' : j = l
  BY ZenonT(60) DEF OfferOK, IntentsOf
<1>3. \A d \in Calls : call'[d].pc \in {"findOffer", "offer"} =>
                          call'[d].intent \in DOMAIN intents' /\ intents'[call'[d].intent] = call'[d].key
  BY ZenonT(60) DEF OfferOK, IntentsOf, Moved, OfferPCs
<1>4. \A o \in DOMAIN objects' :
         /\ objects'[o].key[1] = "offer" =>
              objects'[o].intent \in DOMAIN intents' /\ intents'[objects'[o].intent] = objects'[o].key
         /\ objects'[o].key[1] = "trade" => objects'[o].intent = 0
  BY DEF OfferOK, IntentsOf
<1>5. \A o, p \in DOMAIN objects' :
        objects'[o].intent = objects'[p].intent /\ objects'[o].intent # 0 => o = p
  BY DEF OfferOK
<1> QED
  BY <1>2, <1>3, <1>4, <1>5, ZenonT(60) DEF OfferOK, IntentsOf

LEMMA OfferStep ==
  ASSUME TypeOK, Held, OfferOK, [Next]_vars
  PROVE  OfferOK'
<1> USE Typing DEF OfferPCs
<1>a. ASSUME NEW c \in Calls, NEW q, Goto(c, q), q \notin OfferPCs
      PROVE  Moved(c) /\ call'[c].pc \notin OfferPCs
  BY <1>a, Goes DEF Stays, Started
<1>b. ASSUME NEW c \in Calls, Leave(c)
      PROVE  Moved(c) /\ call'[c].pc \notin OfferPCs
  BY <1>b, Leaves DEF Left
<1>c. ASSUME NEW c \in Calls, PersistThrew(c)
      PROVE  Moved(c) /\ call'[c].pc \notin OfferPCs
  BY <1>c, Throws DEF Stays, Started, Left
<1>d. ASSUME NEW c \in Calls, NEW o, Persisted(c, o)
      PROVE  Moved(c) /\ call'[c].pc \notin OfferPCs
  BY <1>d, Persists DEF Stays, Started
<1>e. \A k \in AllKeys : PersistAt(k) \notin OfferPCs
  BY DEF PersistAt
<1>1. ASSUME NEW c \in Calls, NEW s \in Scopes, NEW p \in Payloads, RunUnprotected(c, s, p)
      PROVE  OfferOK'
  <2>1. Moved(c) /\ call'[c].pc \notin OfferPCs
    BY <1>1, ZenonT(60) DEF RunUnprotected, Moved, TypeOK, PersistAt
  <2> QED
    BY <1>1, <2>1, OfferIdle, ZenonT(60) DEF RunUnprotected
<1>2. ASSUME NEW c \in Calls, NEW k \in Keys, NEW p \in Payloads, Claim(c, k, p)
      PROVE  OfferOK'
  <2>1. UNCHANGED call \/ (Moved(c) /\ call'[c].pc \notin OfferPCs)
    BY <1>2, <1>e, ClaimCall, KeysOf, ZenonT(60)
  <2>2. CASE UNCHANGED call
    BY <1>2, <2>2, ZenonT(60) DEF Claim, OfferOK, IntentsOf
  <2> QED
    BY <1>2, <2>1, <2>2, OfferIdle, ZenonT(60) DEF Claim
<1>3. ASSUME NEW c \in Calls,
             \/ Find(c) \/ Reclaim(c) \/ Refind(c) \/ MarkFailed(c) \/ MarkCompleted(c)
             \/ MarkUnknown(c) \/ PostPersist(c) \/ PersistRefused(c) \/ Crash(c)
      PROVE  OfferOK'
  <2>0. call[c].key \in AllKeys
    BY DEF Typed
  <2>1. Moved(c) /\ call'[c].pc \notin OfferPCs
    BY <1>3, <1>a, <1>b, <1>c, <1>e, <2>0, ZenonT(60)
       DEF Find, Reclaim, Refind, MarkFailed, MarkCompleted, MarkUnknown, PostPersist,
           PersistRefused, Crash
  <2>2. UNCHANGED <<intents, objects>>
    BY <1>3, ZenonT(60) DEF Find, Reclaim, Refind, MarkFailed, MarkCompleted, MarkUnknown, PostPersist,
           PersistRefused, Crash
  <2> QED
    BY <2>1, <2>2, OfferIdle
<1>4. ASSUME NEW c \in Calls, CreateTrade(c)
      PROVE  OfferOK'
  <2>1. Moved(c) /\ call'[c].pc \notin OfferPCs
    BY <1>4, <1>c, <1>d, ZenonT(60) DEF CreateTrade
  <2>2. call[c].key[1] = "trade"
    BY <1>4, ZenonT(60) DEF CreateTrade, Held, ScopeOK
  <2> QED
    BY <1>4, <2>1, <2>2, ObjectAdded, ZenonT(60) DEF CreateTrade
<1>5. ASSUME NEW c \in Calls, FindIntent(c)
      PROVE  OfferOK'
  <2>1. CASE Goto(c, "intent")
    BY <1>5, <1>a, <2>1, OfferIdle DEF FindIntent
  <2>2. CASE \E i \in IntentsOf(call[c].key) :
                call' = [call EXCEPT ![c].pc = "findOffer", ![c].intent = i]
    <3>1. PICK i \in IntentsOf(call[c].key) :
                call' = [call EXCEPT ![c].pc = "findOffer", ![c].intent = i]
      BY <2>2, ZenonT(60)
    <3>2. Moved(c) /\ call'[c].intent = i /\ call'[c].key = call[c].key
      BY <3>1, Picks, ZenonT(60)
    <3> QED
      BY <1>5, <3>1, <3>2, OfferFrame, ZenonT(60) DEF FindIntent
  <2> QED
    BY <1>5, <2>1, <2>2 DEF FindIntent
<1>6. ASSUME NEW c \in Calls, CreateIntent(c)
      PROVE  OfferOK'
  <2>1. CASE /\ ~Keyed(call[c].key) \/ IntentsOf(call[c].key) = {}
             /\ intents' = Append(intents, call[c].key)
             /\ \/ call' = [call EXCEPT ![c].pc = IF Keyed(call[c].key) THEN "findOffer" ELSE "offer",
                                        ![c].intent = Len(intents) + 1]
                \/ PersistThrew(c)
    <3>1. /\ Moved(c)
          /\ \/ call'[c].pc \notin OfferPCs
             \/ call'[c].key = call[c].key /\ call'[c].intent = Len(intents) + 1
      <4>1. ASSUME NEW q, call' = [call EXCEPT ![c].pc = q, ![c].intent = Len(intents) + 1]
            PROVE  Moved(c) /\ call'[c].key = call[c].key /\ call'[c].intent = Len(intents) + 1
        BY <4>1, Picks, ZenonT(60)
      <4> QED
        BY <2>1, <1>c, <4>1, ZenonT(60)
    <3> QED
      BY <1>6, <2>1, <3>1, IntentAdded DEF CreateIntent
  <2>2. CASE /\ UNCHANGED intents
             /\ \E i \in IntentsOf(call[c].key) :
                   call' = [call EXCEPT ![c].pc = "findOffer", ![c].intent = i]
    <3>1. PICK i \in IntentsOf(call[c].key) :
                call' = [call EXCEPT ![c].pc = "findOffer", ![c].intent = i]
      BY <2>2, ZenonT(60)
    <3>2. Moved(c) /\ call'[c].intent = i /\ call'[c].key = call[c].key
      BY <3>1, Picks, ZenonT(60)
    <3> QED
      BY <1>6, <2>2, <3>1, <3>2, OfferFrame, ZenonT(60) DEF CreateIntent
  <2> QED
    BY <1>6, <2>1, <2>2 DEF CreateIntent
<1>7. ASSUME NEW c \in Calls, FindOffer(c)
      PROVE  OfferOK'
  <2>0. call[c].intent \in IntentsOf(call[c].key)
    BY <1>7, ZenonT(60) DEF FindOffer, OfferOK
  <2>1. CASE Goto(c, "offer")
    <3>1. Moved(c) /\ call'[c].intent = call[c].intent /\ call'[c].key = call[c].key
      BY <2>1, Goes, ZenonT(60) DEF Stays, Started
    <3> QED
      BY <1>7, <2>0, <3>1, OfferFrame, ZenonT(60) DEF FindOffer
  <2>2. CASE \E o \in OffersOf(call[c].intent) : Persisted(c, o)
    BY <1>7, <1>d, <2>2, OfferIdle, ZenonT(60) DEF FindOffer
  <2> QED
    BY <1>7, <2>1, <2>2, ZenonT(60) DEF FindOffer
<1>8. ASSUME NEW c \in Calls, CreateOffer(c)
      PROVE  OfferOK'
  <2>0. /\ call[c].intent \in IntentsOf(call[c].key) /\ call[c].key[1] = "offer"
        /\ Moved(c) /\ call'[c].pc \notin OfferPCs
    BY <1>8, <1>c, <1>d, ZenonT(60) DEF CreateOffer, OfferOK, Held, ScopeOK, PersistPCs
  <2>1. CASE UNCHANGED objects
    BY <1>8, <2>0, <2>1, OfferIdle, ZenonT(60) DEF CreateOffer
  <2>2. CASE /\ OffersOf(call[c].intent) = {}
             /\ objects' = Append(objects, [key |-> call[c].key, intent |-> call[c].intent])
    <3>1. \A o \in DOMAIN objects : objects[o].intent # call[c].intent
      BY <2>2 DEF OffersOf
    <3> QED
      BY <1>8, <2>0, <2>2, <3>1, ObjectAdded, ZenonT(60) DEF CreateOffer
  <2> QED
    BY <1>8, <2>1, <2>2, ZenonT(60) DEF CreateOffer
<1>9. CASE UNCHANGED vars
  BY <1>9, ZenonT(60) DEF vars, OfferOK, IntentsOf
<1> QED
  BY <1>1, <1>2, <1>3, <1>4, <1>5, <1>6, <1>7, <1>8, <1>9 DEF Next, Step

-----------------------------------------------------------------------------

Made(k) == k \in Keys /\ k[1] = "trade" /\ ObjectsOf(k) # {}
LiveStatus == {"IN_PROGRESS", "COMPLETED", "UNKNOWN"}
AtTrade == {"trade", "failed"}

\* A step that makes no trade, and that sends a call to "trade" or "failed", or
\* a claim to FAILED, only for a key without one.
LEMMA TradeFrame ==
  ASSUME TradeOK, NEW c \in Calls, Moved(c),
         \A k \in Keys : k[1] = "trade" => ObjectsOf(k)' = ObjectsOf(k),
         Made(call'[c].key) => call'[c].pc \notin AtTrade,
         \A k \in Keys : Made(k) => claim'[k].status \in LiveStatus
  PROVE  TradeOK'
<1> SUFFICES ASSUME NEW k \in Keys, k[1] = "trade", NEW o \in ObjectsOf(k)'
             PROVE  /\ claim'[k].status \in {"IN_PROGRESS", "COMPLETED", "UNKNOWN"}
                    /\ \A d \in Calls : call'[d].key = k => call'[d].pc \notin {"trade", "failed"}
                    /\ \A p \in ObjectsOf(k)' : o = p
  BY ZenonT(60) DEF TradeOK
<1>1. o \in ObjectsOf(k) /\ ObjectsOf(k)' = ObjectsOf(k) /\ Made(k)
  BY ZenonT(60) DEF Made
<1>2. claim'[k].status \in {"IN_PROGRESS", "COMPLETED", "UNKNOWN"}
  BY <1>1, ZenonT(60) DEF LiveStatus
<1>3. \A d \in Calls : call'[d].key = k => call'[d].pc \notin {"trade", "failed"}
  BY <1>1, ZenonT(60) DEF TradeOK, Moved, AtTrade
<1>4. \A p \in ObjectsOf(k)' : o = p
  BY <1>1, ZenonT(60) DEF TradeOK
<1> QED
  BY <1>2, <1>3, <1>4, ZenonT(60)

LEMMA TradeAdded ==
  ASSUME ~LostTradeAcks, TypeOK, Held, TradeOK, NEW c \in Calls, CreateTrade(c)
  PROVE  TradeOK'
<1>1. /\ DOMAIN objects' = DOMAIN objects \cup {Len(objects) + 1}
      /\ objects'[Len(objects) + 1].key = call[c].key
      /\ \A o \in DOMAIN objects : objects'[o] = objects[o]
  BY DEF CreateTrade
<1>2. Moved(c) /\ call'[c].pc \notin AtTrade /\ call'[c].key = call[c].key
  BY Persists, ZenonT(60) DEF CreateTrade, Stays, Started, AtTrade
<1> SUFFICES ASSUME NEW k \in Keys, k[1] = "trade", NEW o \in ObjectsOf(k)'
             PROVE  /\ claim'[k].status \in {"IN_PROGRESS", "COMPLETED", "UNKNOWN"}
                    /\ \A d \in Calls : call'[d].key = k => call'[d].pc \notin {"trade", "failed"}
                    /\ \A p \in ObjectsOf(k)' : o = p
  BY ZenonT(60) DEF TradeOK
<1>3. CASE call[c].key = k
  <2>1. ObjectsOf(k) = {} /\ claim[k].status = "IN_PROGRESS"
    BY <1>3, KeysOf, ZenonT(60) DEF CreateTrade, TradeOK, Held, HolderOK, HoldPCs, ExecPCs, PersistPCs
  <2>2. \A p \in ObjectsOf(k)' : p = Len(objects) + 1
    BY <1>1, <2>1, ZenonT(60) DEF ObjectsOf
  <2>3. \A d \in Calls : call'[d].key = k => call'[d].pc \notin {"trade", "failed"}
    BY <1>2, <1>3, ZenonT(60) DEF CreateTrade, Held, SoleHolder, Holds, HoldPCs, ExecPCs, PersistPCs, AtTrade, Moved
  <2> QED
    BY <2>1, <2>2, <2>3, ZenonT(60) DEF CreateTrade
<1>4. CASE call[c].key # k
  <2>1. ObjectsOf(k)' = ObjectsOf(k)
    BY <1>1, <1>4, ZenonT(60) DEF ObjectsOf
  <2> QED
    BY <1>2, <2>1 DEF TradeOK, CreateTrade, Moved
<1> QED
  BY <1>3, <1>4, ZenonT(60)

LEMMA TradeStep ==
  ASSUME ~LostTradeAcks, TypeOK, Held, TradeOK, [Next]_vars
  PROVE  TradeOK'
<1> USE Typing
<1>a. UNCHANGED objects => \A k \in Keys : ObjectsOf(k)' = ObjectsOf(k)
  BY DEF ObjectsOf
<1>b. \A k \in Keys : Made(k) => claim[k].status \in LiveStatus
  BY DEF TradeOK, Made, LiveStatus
<1>c. \A c \in Calls : Made(call[c].key) => call[c].pc \notin AtTrade
  BY DEF TradeOK, Made, AtTrade
<1>d. ASSUME NEW c \in Calls, Leave(c)
      PROVE  Moved(c) /\ call'[c].pc \notin AtTrade
  BY <1>d, Leaves DEF Left, AtTrade
<1>e. ASSUME NEW c \in Calls, NEW q, Goto(c, q)
      PROVE  Moved(c) /\ call'[c].pc = q /\ call'[c].key = call[c].key
  BY <1>e, Goes DEF Stays, Started
<1>f. ASSUME NEW c \in Calls, NEW o, Persisted(c, o)
      PROVE  Moved(c) /\ call'[c].pc \notin AtTrade
  BY <1>f, Persists DEF Stays, Started, AtTrade
<1>g. ASSUME NEW c \in Calls, Moved(c), UNCHANGED objects, call'[c].pc \notin AtTrade,
             \A k \in Keys : Made(k) => claim'[k].status \in LiveStatus
      PROVE  TradeOK'
  BY <1>a, <1>g, TradeFrame, ZenonT(60)
<1>h. ASSUME NEW c \in Calls, call[c].pc \in PersistPCs \ {"trade"}, PersistThrew(c)
      PROVE  Moved(c) /\ (Made(call'[c].key) => call'[c].pc \notin AtTrade)
  <2>1. call[c].key[1] = "offer"
    BY <1>h, ZenonT(60) DEF Held, ScopeOK
  <2>2. CASE Leave(c)
    BY <1>d, <2>2
  <2>3. CASE Goto(c, "failed")
    BY <1>e, <2>1, <2>3, ZenonT(60) DEF Made
  <2> QED
    BY <1>h, <2>2, <2>3, ZenonT(60) DEF PersistThrew
<1>1. ASSUME NEW c \in Calls, NEW s \in Scopes, NEW p \in Payloads, RunUnprotected(c, s, p)
      PROVE  TradeOK'
  <2>1. Moved(c) /\ ~Made(call'[c].key)
    BY <1>1, CreateAssumption, ZenonT(60) DEF RunUnprotected, Moved, TypeOK, Keys, Made
  <2> QED
    BY <1>a, <1>b, <1>1, <2>1, TradeFrame, ZenonT(60) DEF RunUnprotected
<1>2. ASSUME NEW c \in Calls, NEW k \in Keys, NEW p \in Payloads, Claim(c, k, p)
      PROVE  TradeOK'
  <2>1. CASE claim[k].status = "none"
    <3>1. Moved(c) /\ (UNCHANGED call \/ call'[c].key = k)
      BY <1>2, ClaimCall, ZenonT(60) DEF Moved
    <3>2. ~Made(k)
      BY <1>b, <2>1 DEF LiveStatus
    <3>3. \A l \in Keys : Made(l) => claim'[l].status \in LiveStatus
      BY <1>2, <1>b, <2>1, <3>2, ZenonT(60) DEF Claim, TypeOK
    <3>4. Made(call'[c].key) => call'[c].pc \notin AtTrade
      BY <1>c, <3>1, <3>2
    <3> QED
      BY <1>a, <1>2, <3>1, <3>3, <3>4, TradeFrame, ZenonT(60) DEF Claim
  <2>2. CASE claim[k].status # "none"
    <3>1. Moved(c) /\ call'[c].pc \notin AtTrade
      BY <1>2, <2>2, ClaimCall, ZenonT(60) DEF AtTrade
    <3> QED
      BY <1>b, <1>g, <1>2, <2>2, <3>1, ZenonT(60) DEF Claim
  <2> QED
    BY <2>1, <2>2
<1>3. ASSUME NEW c \in Calls, Find(c) \/ Refind(c) \/ PostPersist(c) \/ Crash(c)
      PROVE  TradeOK'
  <2>1. Moved(c) /\ call'[c].pc \notin AtTrade
    <3>1. CASE Find(c)
      BY <3>1, <1>d, <1>e DEF Find, AtTrade
    <3>2. CASE Refind(c)
      BY <3>2, <1>d, <1>e, ZenonT(60) DEF Refind, AtTrade
    <3>3. CASE PostPersist(c) \/ Crash(c)
      BY <3>3, <1>d, <1>e, ZenonT(60) DEF PostPersist, Crash, AtTrade
    <3> QED
      BY <1>3, <3>1, <3>2, <3>3
  <2> QED
    BY <1>b, <1>g, <1>3, <2>1, ZenonT(60) DEF Find, Refind, PostPersist, Crash
<1>4. ASSUME NEW c \in Calls, Reclaim(c)
      PROVE  TradeOK'
  <2>0. call[c].key \in Keys
    BY <1>4, KeysOf, ZenonT(60) DEF Reclaim, Held, LookerOK, LookPCs, Typed
  <2>1. CASE Row(c).status = "FAILED"
    <3>1. ~Made(call[c].key)
      BY <1>b, <2>0, <2>1 DEF LiveStatus, Row
    <3>2. \A l \in Keys : Made(l) => claim'[l].status \in LiveStatus
      BY <1>4, <1>b, <2>0, <2>1, <3>1, SetsRow, ZenonT(60) DEF Reclaim, RowIs
    <3>3. Moved(c) /\ (Made(call'[c].key) => call'[c].pc \notin AtTrade)
      BY <1>4, <1>d, <1>e, <2>1, <3>1, ZenonT(60) DEF Reclaim
    <3> QED
      BY <1>a, <1>4, <3>2, <3>3, TradeFrame, ZenonT(60) DEF Reclaim
  <2>2. CASE Row(c).status # "FAILED"
    <3>1. Moved(c) /\ call'[c].pc \notin AtTrade
      BY <1>4, <1>e, <2>2 DEF Reclaim, AtTrade
    <3> QED
      BY <1>b, <1>g, <1>4, <2>2, <3>1, ZenonT(60) DEF Reclaim
  <2> QED
    BY <2>1, <2>2
<1>5. ASSUME NEW c \in Calls, FindIntent(c) \/ CreateIntent(c) \/ FindOffer(c)
      PROVE  TradeOK'
  <2>1. Moved(c) /\ (Made(call'[c].key) => call'[c].pc \notin AtTrade)
    <3>1. CASE FindIntent(c)
      BY <1>e, <3>1, Picks DEF FindIntent, AtTrade, Stays, Started
    <3>2. CASE CreateIntent(c)
      <4>1. ASSUME NEW q \in {"findOffer", "offer"}, NEW i,
                   call' = [call EXCEPT ![c].pc = q, ![c].intent = i]
            PROVE  Moved(c) /\ call'[c].pc \notin AtTrade
        <5>1. Moved(c) /\ Stays(c, {q})
          BY <4>1, Picks, ZenonT(60)
        <5> QED
          BY <5>1 DEF Stays, Started, AtTrade
      <4>2. CASE PersistThrew(c)
        BY <1>h, <3>2, <4>2 DEF CreateIntent, PersistPCs
      <4> QED
        BY <3>2, <4>1, <4>2, ZenonT(60) DEF CreateIntent
    <3>3. CASE FindOffer(c)
      BY <1>e, <1>f, <3>3 DEF FindOffer, AtTrade
    <3> QED
      BY <1>5, <3>1, <3>2, <3>3
  <2>2. UNCHANGED <<claim, objects>>
    BY <1>5 DEF FindIntent, CreateIntent, FindOffer
  <2> QED
    BY <1>a, <1>b, <2>1, <2>2, TradeFrame, ZenonT(60)
<1>6. ASSUME NEW c \in Calls, CreateOffer(c)
      PROVE  TradeOK'
  <2>1. Moved(c) /\ (Made(call'[c].key) => call'[c].pc \notin AtTrade) /\ UNCHANGED claim
    BY <1>6, <1>f, <1>h, ZenonT(60) DEF CreateOffer, PersistPCs
  <2>2. call[c].key[1] = "offer"
    BY <1>6, ZenonT(60) DEF CreateOffer, Held, ScopeOK, PersistPCs
  <2>3. \A k \in Keys : k[1] = "trade" => ObjectsOf(k)' = ObjectsOf(k)
    <3>1. CASE UNCHANGED objects
      BY <1>a, <3>1
    <3>2. CASE objects' = Append(objects, [key |-> call[c].key, intent |-> call[c].intent])
      <4>1. /\ DOMAIN objects' = DOMAIN objects \cup {Len(objects) + 1}
            /\ objects'[Len(objects) + 1].key = call[c].key
            /\ \A o \in DOMAIN objects : objects'[o] = objects[o]
        BY <3>2, AppendGrown
      <4> QED
        BY <2>2, <4>1 DEF ObjectsOf
    <3> QED
      BY <1>6, <3>1, <3>2, ZenonT(60) DEF CreateOffer
  <2> QED
    BY <1>b, <2>1, <2>3, TradeFrame, ZenonT(60)
<1>7. ASSUME NEW c \in Calls, MarkFailed(c)
      PROVE  TradeOK'
  <2>1. call[c].key \in Keys /\ ~Made(call[c].key)
    BY <1>7, <1>c, KeysOf, ZenonT(60) DEF MarkFailed, Held, ScopeOK, Typed, AtTrade
  <2>2. \A l \in Keys : Made(l) => claim'[l].status \in LiveStatus
    BY <1>7, <1>b, <2>1, SetsRow, ZenonT(60) DEF MarkFailed, RowIs
  <2> QED
    BY <1>7, <1>d, <1>g, <2>2, ZenonT(60) DEF MarkFailed
<1>8. ASSUME NEW c \in Calls, MarkCompleted(c) \/ MarkUnknown(c)
      PROVE  TradeOK'
  <2>1. call[c].key \in Keys
    BY <1>8, KeysOf, ZenonT(60) DEF MarkCompleted, MarkUnknown, Held, ScopeOK, Typed
  <2>2. UNCHANGED claim \/ \E st \in {"COMPLETED", "UNKNOWN"} : Settle(c, st)
    BY <1>8, ZenonT(60) DEF MarkCompleted, MarkUnknown
  <2>3. \A l \in Keys : Made(l) => claim'[l].status \in LiveStatus
    BY <1>b, <2>1, <2>2, SettlesRow DEF RowIs, LiveStatus
  <2>4. Moved(c) /\ call'[c].pc \notin AtTrade
    BY <1>8, <1>e DEF MarkCompleted, MarkUnknown, AtTrade
  <2> QED
    BY <1>8, <1>g, <2>3, <2>4, ZenonT(60) DEF MarkCompleted, MarkUnknown
<1>9. ASSUME NEW c \in Calls, PersistRefused(c)
      PROVE  TradeOK'
  <2>1. ~Made(call[c].key)
    BY <1>9, <1>c, ZenonT(60) DEF PersistRefused, Held, ScopeOK, PersistPCs, Made, AtTrade
  <2>2. Moved(c) /\ (Made(call'[c].key) => call'[c].pc \notin AtTrade)
    BY <1>9, <1>d, <1>e, <2>1, ZenonT(60) DEF PersistRefused, PersistThrew
  <2> QED
    BY <1>a, <1>b, <1>9, <2>2, TradeFrame, ZenonT(60) DEF PersistRefused
<1>10. CASE UNCHANGED vars
  BY <1>10 DEF vars, TradeOK, ObjectsOf
<1> QED
  BY <1>1, <1>2, <1>3, <1>4, <1>5, <1>6, <1>7, <1>8, <1>9, <1>10, TradeAdded, ZenonT(60) DEF Next, Step

-----------------------------------------------------------------------------

IdemInv == TypeOK /\ Held /\ OfferOK

\* The inductive invariant: withIdempotency never gives a key two holders, and
\* claims, rows and answers of a key belong together.
THEOREM IdempotencyInvariance == Spec => []IdemInv
<1>1. Init => IdemInv
  BY InitInv DEF IdemInv
<1>2. IdemInv /\ [Next]_vars => IdemInv'
  BY TypeStep, HeldStep, OfferStep DEF IdemInv
<1> QED
  BY <1>1, <1>2, PTL DEF Spec

\* TypeOK holds for any number of calls, keys and payloads.
THEOREM IdempotencyTypes == Spec => []TypeOK
BY IdempotencyInvariance, PTL DEF IdemInv

\* createOffer: one key makes at most one Intent and one Offer, whichever writes
\* commit without an answer.
THEOREM OfferAtMostOnce == Spec => []OneOfferPerKey
<1>1. IdemInv => OneOfferPerKey
  <2> SUFFICES ASSUME IdemInv, NEW k \in Keys, k[1] = "offer"
               PROVE  /\ \A i, j \in IntentsOf(k) : i = j
                      /\ \A o, p \in ObjectsOf(k) : o = p
    BY DEF OneOfferPerKey
  <2>1. \A i, j \in IntentsOf(k) : i = j
    BY ZenonT(60) DEF IdemInv, OfferOK
  <2>2. ASSUME NEW o \in ObjectsOf(k), NEW p \in ObjectsOf(k)
        PROVE  o = p
    <3>1. objects[o].intent \in IntentsOf(k) /\ objects[p].intent \in IntentsOf(k)
      BY <2>2, ZenonT(60) DEF IdemInv, OfferOK, ObjectsOf
    <3>2. objects[o].intent = objects[p].intent /\ objects[o].intent # 0
      <4>1. \A i \in IntentsOf(k) : i # 0
        BY DEF IdemInv, TypeOK, IntentsOf
      <4> QED
        BY <2>1, <3>1, <4>1
    <3> QED
      BY <2>2, <3>2, ZenonT(60) DEF IdemInv, OfferOK, ObjectsOf
  <2> QED
    BY <2>1, <2>2
<1> QED
  BY <1>1, IdempotencyInvariance, PTL

\* createTrade: one key makes at most one Trade, provided a write that commits is
\* always acknowledged to persistTrade.
THEOREM TradeAtMostOnce ==
  ASSUME ~LostTradeAcks
  PROVE  Spec => []OneTradePerKey
<1>1. Init => IdemInv /\ TradeOK
  BY InitInv DEF IdemInv
<1>2. (IdemInv /\ TradeOK) /\ [Next]_vars => (IdemInv /\ TradeOK)'
  BY TypeStep, HeldStep, OfferStep, TradeStep DEF IdemInv
<1>3. IdemInv /\ TradeOK => OneTradePerKey
  BY ZenonT(60) DEF TradeOK, OneTradePerKey
<1> QED
  BY <1>1, <1>2, <1>3, PTL DEF Spec

\* Everyone answered for a key sent one payload and was told one object of that
\* key, even when retries made more than one trade.
THEOREM OneAnswerPerKey == Spec => []AnswersAgree
<1>1. IdemInv => AnswersAgree
  <2> SUFFICES ASSUME IdemInv, NEW a \in answers, NEW b \in answers, a.key = b.key, Keyed(a.key)
               PROVE  a.hash = b.hash /\ a.obj = b.obj /\ a.obj \in ObjectsOf(a.key)
    BY DEF AnswersAgree
  <2> QED
    BY ZenonT(60) DEF IdemInv, Held, AnswerOK
<1> QED
  BY <1>1, IdempotencyInvariance, PTL

\* A COMPLETED or UNKNOWN claim stays settled with its result.
THEOREM SettlementIsFinal == Spec => SettledStays
<1> DEFINE Kept == \A k \in Keys : Settled(claim[k]) => /\ Settled(claim'[k])
                                                       /\ claim'[k].ref = claim[k].ref
<1>1. IdemInv /\ [Next]_vars =>
        [\A k \in Keys : Settled(claim[k]) => /\ Settled(claim'[k])
                                              /\ claim'[k].ref = claim[k].ref]_vars
  <2> SUFFICES ASSUME IdemInv, Next
               PROVE  Kept
    OBVIOUS
  <2> HIDE DEF Kept
  <2>a. TypeOK /\ Held /\ Typed
    BY Typing DEF IdemInv
  <2>0. UNCHANGED claim => Kept
    BY DEF Kept
  <2>1. ASSUME NEW c \in Calls, NEW k \in Keys, NEW p \in Payloads, Claim(c, k, p)
        PROVE  Kept
    BY <2>1, <2>a, ZenonT(60) DEF Claim, Kept, Settled, TypeOK
  <2>2. ASSUME NEW c \in Calls, Reclaim(c)
        PROVE  Kept
    <3>1. call[c].key \in Keys
      BY <2>2, <2>a, KeysOf, ZenonT(60) DEF Reclaim, Held, LookerOK, LookPCs, Typed
    <3>2. CASE Row(c).status = "FAILED"
      <4>1. RowIs(call[c].key, "IN_PROGRESS", Row(c).hash)
        BY <2>2, <2>a, <3>1, <3>2, SetsRow, ZenonT(60) DEF Reclaim
      <4> QED
        BY <3>1, <3>2, <4>1, ZenonT(60) DEF RowIs, Kept, Settled, Row
    <3> QED
      BY <2>0, <2>2, <3>2, ZenonT(60) DEF Reclaim
  <2>3. ASSUME NEW c \in Calls, MarkFailed(c)
        PROVE  Kept
    <3>1. call[c].key \in Keys /\ claim[call[c].key].status = "IN_PROGRESS"
      BY <2>3, <2>a, KeysOf, ZenonT(60) DEF MarkFailed, Held, ScopeOK, HolderOK, HoldPCs, ExecPCs, Typed
    <3>2. RowIs(call[c].key, "FAILED", Row(c).hash)
      BY <2>3, <2>a, <3>1, SetsRow, ZenonT(60) DEF MarkFailed
    <3> QED
      BY <3>1, <3>2, ZenonT(60) DEF RowIs, Kept, Settled
  <2>4. ASSUME NEW c \in Calls, MarkCompleted(c) \/ MarkUnknown(c)
        PROVE  Kept
    <3>1. call[c].key \in Keys
      BY <2>4, <2>a, KeysOf, ZenonT(60) DEF MarkCompleted, MarkUnknown, Held, ScopeOK, Typed
    <3>2. Settled(claim[call[c].key]) => claim[call[c].key].ref = call[c].obj
      BY <2>4, <2>a, <3>1, KeysOf, ZenonT(60)
         DEF MarkCompleted, MarkUnknown, Held, HolderOK, HoldPCs, ExecPCs, Settled, Typed
    <3>3. UNCHANGED claim \/ \E st \in {"COMPLETED", "UNKNOWN"} : Settle(c, st)
      BY <2>4, ZenonT(60) DEF MarkCompleted, MarkUnknown
    <3>4. ASSUME NEW st \in {"COMPLETED", "UNKNOWN"}, Settle(c, st)
          PROVE  Kept
      <4>1. RowIs(call[c].key, st, Row(c).hash) /\ claim'[call[c].key].ref = call[c].obj
        BY <2>a, <3>1, <3>4, SettlesRow, ZenonT(60)
      <4> QED
        BY <3>1, <3>2, <4>1, ZenonT(60) DEF RowIs, Kept, Settled
    <3> QED
      BY <2>0, <3>3, <3>4
  <2>5. ASSUME NEW c \in Calls,
               \/ \E s \in Scopes, p \in Payloads : RunUnprotected(c, s, p)
               \/ Find(c) \/ Refind(c) \/ CreateTrade(c) \/ FindIntent(c) \/ CreateIntent(c)
               \/ FindOffer(c) \/ CreateOffer(c) \/ PostPersist(c) \/ PersistRefused(c) \/ Crash(c)
        PROVE  UNCHANGED claim
    BY <2>5, ZenonT(60) DEF RunUnprotected, Find, Refind, CreateTrade, FindIntent, CreateIntent, FindOffer,
       CreateOffer, PostPersist, PersistRefused, Crash
  <2> QED
    BY <2>0, <2>1, <2>2, <2>3, <2>4, <2>5 DEF Next, Step
<1> QED
  BY <1>1, IdempotencyInvariance, PTL DEF Spec, SettledStays

-----------------------------------------------------------------------------
(* What is announced is announced once.                                    *)

\* Nobody holds key k, and nobody will.
Shut(k) == claim[k].status \in LiveStatus /\ \A c \in Calls : ~Holds(c, k)

Said(o) == \E i \in DOMAIN announced : announced[i] = o

\* A call without a key is about to announce the object it made.
Solo(c) == call[c].pc = "post" /\ ~Keyed(call[c].key)

AnnounceOK ==
  /\ \A i \in DOMAIN announced : announced[i] \in DOMAIN objects
  /\ AnnouncedOnce
  /\ \A o \in DOMAIN objects : Said(o) /\ Keyed(objects[o].key) => Shut(objects[o].key)
  /\ \A c \in Calls : Solo(c) => ~Said(call[c].obj)
  /\ \A c, d \in Calls : Solo(c) /\ Solo(d) /\ call[c].obj = call[d].obj => c = d

LEMMA ShutFrame ==
  ASSUME NEW k, Shut(k), NEW c \in Calls, Moved(c), claim'[k].status = claim[k].status,
         call'[c].pc \in HoldPCs => call'[c].key # k
  PROVE  Shut(k)'
BY ZenonT(60) DEF Shut, Holds, Moved

LEMMA ShutStays ==
  ASSUME TypeOK, Held, [Next]_vars, NEW k \in Keys, Shut(k)
  PROVE  Shut(k)'
<1> USE Typing
\* The call holds another key, and leaves or keeps that key.
<1>1. ASSUME NEW c \in Calls, call[c].pc \in HoldPCs, Left(c) \/ \E q : Stays(c, {q}),
             UNCHANGED claim \/ \E st, h : RowIs(call[c].key, st, h)
      PROVE  Shut(k)'
  <2>1. call[c].key # k
    BY <1>1, ZenonT(60) DEF Shut, Holds
  <2>2. claim'[k].status = claim[k].status
    BY <1>1, <2>1, ZenonT(60) DEF RowIs
  <2>3. Moved(c) /\ (call'[c].pc \in HoldPCs => call'[c].key # k)
    BY <1>1, <2>1, ZenonT(60) DEF Left, Stays, Started, HoldPCs, ExecPCs, PersistPCs
  <2> QED BY <2>2, <2>3, ShutFrame
<1>2. ASSUME NEW c \in Calls, NEW s \in Scopes, NEW p \in Payloads, RunUnprotected(c, s, p)
      PROVE  Shut(k)'
  <2>1. Moved(c) /\ call'[c].key = <<s, NoName>>
    BY <1>2 DEF RunUnprotected, Moved, TypeOK
  <2>2. call'[c].key # k
    BY <2>1, CreateAssumption DEF Keys
  <2> QED BY ZenonT(60), <1>2, <2>1, <2>2, ShutFrame DEF RunUnprotected
<1>3. ASSUME NEW c \in Calls, NEW l \in Keys, NEW p \in Payloads, Claim(c, l, p)
      PROVE  Shut(k)'
  <2>1. CASE claim[l].status = "none"
    <3>1. l # k
      BY <2>1 DEF Shut, LiveStatus
    <3>2. claim'[k] = claim[k]
      BY <1>3, <2>1, <3>1, ZenonT(60) DEF Claim, TypeOK
    <3>3. UNCHANGED call \/ (Moved(c) /\ call'[c].key = l)
      BY <1>3, ClaimCall, ZenonT(60)
    <3>4. CASE UNCHANGED call
      BY <3>2, <3>4, ZenonT(60) DEF Shut, Holds
    <3> QED BY <3>1, <3>2, <3>3, <3>4, ShutFrame
  <2>2. CASE claim[l].status # "none"
    <3>1. Moved(c) /\ call'[c].pc = "find" /\ UNCHANGED claim
      BY <1>3, <2>2, ClaimCall, ZenonT(60) DEF Claim
    <3> QED BY <3>1, ShutFrame DEF HoldPCs, ExecPCs, PersistPCs
  <2> QED BY <2>1, <2>2
<1>4. ASSUME NEW c \in Calls, Moved(c), UNCHANGED claim, call'[c].pc \in LookPCs \cup {"idle"}
      PROVE  Shut(k)'
  BY <1>4, ShutFrame DEF HoldPCs, ExecPCs, PersistPCs, LookPCs
<1>5. ASSUME NEW c \in Calls, Leave(c), UNCHANGED claim PROVE Shut(k)'
  BY <1>4, <1>5, Leaves DEF Left
<1>6. ASSUME NEW c \in Calls, NEW q \in LookPCs, Goto(c, q), UNCHANGED claim PROVE Shut(k)'
  BY <1>4, <1>6, Goes DEF Stays, Started
<1>7. ASSUME NEW c \in Calls, Find(c) \/ Refind(c) \/ PostPersist(c) \/ Crash(c) PROVE Shut(k)'
  BY <1>5, <1>6, <1>7, ZenonT(60) DEF Find, Refind, PostPersist, Crash, LookPCs
<1>8. ASSUME NEW c \in Calls, Reclaim(c) PROVE Shut(k)'
  <2>1. CASE Row(c).status = "FAILED"
    <3>1. call[c].key \in Keys /\ call[c].key # k
      BY <1>8, <2>1, KeysOf, ZenonT(60)
         DEF Reclaim, Held, LookerOK, LookPCs, Typed, Shut, LiveStatus, Row
    <3>2. claim'[k] = claim[k]
      BY <1>8, <2>1, <3>1, SetsRow, ZenonT(60) DEF Reclaim, RowIs
    <3>3. Moved(c) /\ (call'[c].pc \in HoldPCs => call'[c].key # k)
      BY <1>8, <2>1, <3>1, Goes, Leaves, ZenonT(60)
         DEF Reclaim, Left, Stays, Started, HoldPCs, ExecPCs, PersistPCs
    <3> QED BY <3>2, <3>3, ShutFrame
  <2>2. CASE Row(c).status # "FAILED"
    BY <1>6, <1>8, <2>2 DEF Reclaim, LookPCs
  <2> QED BY <2>1, <2>2
<1>9. ASSUME NEW c \in Calls, PersistThrew(c) \/ (\E o : Persisted(c, o)),
             call[c].pc \in PersistPCs, UNCHANGED claim
      PROVE  Shut(k)'
  <2>1. Left(c) \/ \E q : Stays(c, {q})
    BY <1>9, Throws, Persists, ZenonT(60)
  <2> QED BY ZenonT(60), <1>1, <1>9, <2>1 DEF HoldPCs, ExecPCs
<1>10. ASSUME NEW c \in Calls, CreateTrade(c) \/ CreateOffer(c) \/ PersistRefused(c) PROVE Shut(k)'
  BY <1>9, <1>10, ZenonT(60) DEF CreateTrade, CreateOffer, PersistRefused, PersistPCs
<1>11. ASSUME NEW c \in Calls, FindIntent(c) \/ CreateIntent(c) \/ FindOffer(c) PROVE Shut(k)'
  <2>1. \/ PersistThrew(c) \/ (\E o : Persisted(c, o))
        \/ \E q : Stays(c, {q})
    BY <1>11, Goes, Picks, ZenonT(60) DEF FindIntent, CreateIntent, FindOffer
  <2>2. call[c].pc \in PersistPCs /\ UNCHANGED claim
    BY <1>11, ZenonT(60) DEF FindIntent, CreateIntent, FindOffer, PersistPCs
  <2> QED BY ZenonT(60), <1>1, <1>9, <2>1, <2>2 DEF HoldPCs, ExecPCs
<1>12. ASSUME NEW c \in Calls, MarkFailed(c) \/ MarkCompleted(c) \/ MarkUnknown(c) PROVE Shut(k)'
  <2>1. call[c].key \in Keys /\ call[c].pc \in HoldPCs
    BY <1>12, KeysOf, ZenonT(60)
       DEF MarkFailed, MarkCompleted, MarkUnknown, Held, ScopeOK, Typed, HoldPCs, ExecPCs
  <2>2. Left(c) \/ \E q : Stays(c, {q})
    BY <1>12, Goes, Leaves, ZenonT(60) DEF MarkFailed, MarkCompleted, MarkUnknown
  <2>3. UNCHANGED claim \/ \E st, h : RowIs(call[c].key, st, h)
    BY <1>12, <2>1, SetsRow, SettlesRow, ZenonT(60) DEF MarkFailed, MarkCompleted, MarkUnknown
  <2> QED BY ZenonT(60), <1>1, <2>1, <2>2, <2>3
<1>13. CASE UNCHANGED vars
  BY <1>13, ZenonT(60) DEF vars, Shut, Holds
<1> QED
  BY <1>2, <1>3, <1>7, <1>8, <1>10, <1>11, <1>12, <1>13 DEF Next, Step

\* A step that announces nothing, and brings a call without a key to postPersist
\* only with an object that is new.
LEMMA SilentStep ==
  ASSUME TypeOK, Held, AnnounceOK, [Next]_vars, Grown, UNCHANGED announced,
         NEW c \in Calls, Moved(c), Solo(c)' => call'[c].obj \notin DOMAIN objects
  PROVE  AnnounceOK'
<1>1. \A o : Said(o)' <=> Said(o)
  BY ZenonT(60) DEF Said
<1>2. \A o : Said(o) => o \in DOMAIN objects
  BY ZenonT(60) DEF Said, AnnounceOK
<1>3. \A d \in Calls : Solo(d) => call[d].obj \in DOMAIN objects
  BY ZenonT(60) DEF Held, ResultOK, Solo, DonePCs, ObjectsOf
<1>4. \A i \in DOMAIN announced' : announced'[i] \in DOMAIN objects'
  BY ZenonT(60) DEF AnnounceOK, Grown
<1>5. AnnouncedOnce'
  BY ZenonT(60) DEF AnnounceOK, AnnouncedOnce
<1>6. ASSUME NEW o \in DOMAIN objects', Said(o)', Keyed(objects'[o].key)
      PROVE  Shut(objects[o].key)'
  <2>1. o \in DOMAIN objects /\ objects'[o].key = objects[o].key
    BY <1>1, <1>2, <1>6, ZenonT(60) DEF Grown
  <2>2. objects[o] \in [key : AllKeys, intent : Nat]
    BY <2>1, SeqElement, ZenonT(60) DEF TypeOK
  <2>3. objects[o].key \in Keys
    BY <1>6, <2>1, <2>2, KeysOf
  <2>4. Shut(objects[o].key)
    BY <1>1, <1>6, <2>1, ZenonT(60) DEF AnnounceOK
  <2> DEFINE k == objects[o].key
  <2>5. k \in Keys /\ Shut(k) /\ objects'[o].key = k
    BY <2>1, <2>3, <2>4
  <2>6. claim'[k].status \in LiveStatus /\ \A d \in Calls : ~(call'[d].pc \in HoldPCs /\ call'[d].key = k)
    <3> HIDE DEF k
    <3> SUFFICES ASSUME NEW l \in Keys, Shut(l)
                 PROVE  claim'[l].status \in LiveStatus
                        /\ \A d \in Calls : ~(call'[d].pc \in HoldPCs /\ call'[d].key = l)
      BY <2>5
    <3> QED BY ShutStays, ZenonT(60) DEF Shut, Holds
  <2> HIDE DEF k
  <2> QED BY <2>5, <2>6, ZenonT(60) DEF Shut, Holds
<1>7. \A d \in Calls \ {c} : (Solo(d)' <=> Solo(d)) /\ call'[d].obj = call[d].obj
  BY ZenonT(60) DEF Solo, Moved
<1>8. \A d \in Calls : Solo(d)' => ~Said(call'[d].obj)
  BY <1>2, <1>7, ZenonT(60) DEF AnnounceOK
<1>9. \A d, e \in Calls : Solo(d)' /\ Solo(e)' /\ call'[d].obj = call'[e].obj => d = e
  BY <1>3, <1>7, ZenonT(60) DEF AnnounceOK
<1> QED
  BY <1>1, <1>4, <1>5, <1>6, <1>8, <1>9, ZenonT(60) DEF AnnounceOK

\* postPersist announces the object of its call, which nobody announced before
\* and, once the call leaves, nobody can announce again.
LEMMA PostStep ==
  ASSUME TypeOK, Held, AnnounceOK, NEW c \in Calls, PostPersist(c)
  PROVE  AnnounceOK'
<1> DEFINE o == call[c].obj
           k == call[c].key
<1>1. call[c].pc = "post" /\ UNCHANGED <<claim, objects>> /\ Left(c)
  BY Leaves, ZenonT(60) DEF PostPersist
<1>2. o \in DOMAIN objects /\ objects[o].key = k
  BY <1>1, ZenonT(60) DEF Held, ResultOK, DonePCs, ObjectsOf
<1>3. k \in AllKeys /\ (Keyed(k) => k \in Keys) /\ Holds(c, k)
  BY <1>1, Typing, KeysOf, ZenonT(60) DEF Typed, Holds, HoldPCs
<1>4. ~Said(o)
  BY <1>1, <1>2, <1>3, ZenonT(60) DEF AnnounceOK, Shut, Solo
<1>5. /\ DOMAIN announced' = DOMAIN announced \cup {Len(announced) + 1}
      /\ Len(announced) + 1 \notin DOMAIN announced
      /\ announced'[Len(announced) + 1] = o
      /\ \A i \in DOMAIN announced : announced'[i] = announced[i]
  BY DEF PostPersist, TypeOK
<1>6. \A x : Said(x)' <=> Said(x) \/ x = o
  BY <1>5, ZenonT(60) DEF Said
<1>7. Moved(c) /\ call'[c].pc = "idle"
  BY <1>1 DEF Left
<1>8. \A i \in DOMAIN announced' : announced'[i] \in DOMAIN objects'
  BY <1>1, <1>2, <1>5, ZenonT(60) DEF AnnounceOK
<1>9. AnnouncedOnce'
  BY <1>4, <1>5, ZenonT(60) DEF AnnounceOK, AnnouncedOnce, Said
<1>10. \A l : Shut(l) => Shut(l)'
  BY <1>1, <1>7, ShutFrame DEF HoldPCs, ExecPCs, PersistPCs
<1>11. ASSUME NEW l, l = k, Keyed(l) PROVE Shut(l)'
  <2>1. claim'[l].status \in LiveStatus
    BY <1>1, <1>11, ZenonT(60) DEF Held, HolderOK, HoldPCs, LiveStatus, Settled
  <2>2. \A d \in Calls : ~(call'[d].pc \in HoldPCs /\ call'[d].key = l)
    BY <1>3, <1>7, <1>11, ZenonT(60) DEF Held, SoleHolder, Holds, Moved, HoldPCs, ExecPCs, PersistPCs
  <2> QED BY <2>1, <2>2, ZenonT(60) DEF Shut, Holds
<1>12. \A x \in DOMAIN objects' : Said(x)' /\ Keyed(objects'[x].key) => Shut(objects[x].key)'
  <2> SUFFICES ASSUME NEW x \in DOMAIN objects, Said(x)', Keyed(objects[x].key), NEW l,
                      l = objects[x].key
               PROVE  Shut(l)'
    BY <1>1, ZenonT(60) DEF Shut, Holds
  <2>1. CASE x = o
    BY <1>2, <1>11, <2>1, ZenonT(60)
  <2>2. CASE Said(x)
    BY <1>10, <2>2, ZenonT(60) DEF AnnounceOK
  <2> QED BY <1>6, <2>1, <2>2
<1>13. \A d \in Calls : Solo(d)' => d # c /\ Solo(d) /\ call'[d].obj = call[d].obj
  BY <1>7, ZenonT(60) DEF Solo, Moved
<1>14. \A d \in Calls \ {c} : Solo(d) => call[d].obj # o
  <2> SUFFICES ASSUME NEW d \in Calls \ {c}, Solo(d), call[d].obj = o PROVE FALSE
    OBVIOUS
  <2>1. objects[o].key = call[d].key
    BY ZenonT(60) DEF Held, ResultOK, DonePCs, ObjectsOf, Solo
  <2>2. Solo(c)
    BY <1>1, <1>2, <2>1, ZenonT(60) DEF Solo
  <2> QED BY <2>2, ZenonT(60) DEF AnnounceOK
<1>15. \A d \in Calls : Solo(d)' => ~Said(call[d].obj)'
  BY <1>6, <1>13, <1>14, ZenonT(60) DEF AnnounceOK
<1>16. \A d, e \in Calls : Solo(d)' /\ Solo(e)' /\ call'[d].obj = call'[e].obj => d = e
  BY <1>13, ZenonT(60) DEF AnnounceOK
<1> QED
  BY <1>8, <1>9, <1>12, <1>15, <1>16, ZenonT(60) DEF AnnounceOK

LEMMA AnnounceStep ==
  ASSUME TypeOK, Held, AnnounceOK, [Next]_vars
  PROVE  AnnounceOK'
<1> USE Typing
<1>1. ASSUME NEW c \in Calls, Left(c), UNCHANGED announced, Grown PROVE AnnounceOK'
  BY <1>1, SilentStep, ZenonT(60) DEF Left, Solo
<1>2. ASSUME NEW c \in Calls, NEW q, Stays(c, {q}), q # "post" \/ Keyed(call[c].key),
             UNCHANGED announced, Grown
      PROVE  AnnounceOK'
  BY <1>2, SilentStep, ZenonT(60) DEF Stays, Started, Solo
<1>3. ASSUME NEW c \in Calls, PersistThrew(c), UNCHANGED announced, Grown PROVE AnnounceOK'
  BY <1>1, <1>2, <1>3, Throws, ZenonT(60)
<1>4. ASSUME NEW c \in Calls, NEW o, Persisted(c, o), UNCHANGED announced, Grown,
             Keyed(call[c].key) \/ o \notin DOMAIN objects
      PROVE  AnnounceOK'
  <2>1. Moved(c) /\ call'[c].key = call[c].key /\ call'[c].obj = o
    BY <1>4, Persists, ZenonT(60) DEF Stays, Started
  <2> QED BY <1>4, <2>1, SilentStep, ZenonT(60) DEF Solo
<1>5. ASSUME NEW c \in Calls, NEW s \in Scopes, NEW p \in Payloads, RunUnprotected(c, s, p)
      PROVE  AnnounceOK'
  <2>1. Moved(c) /\ call'[c].pc # "post"
    BY <1>5 DEF RunUnprotected, Moved, TypeOK, PersistAt
  <2> QED BY <1>5, <2>1, SameGrown, SilentStep, ZenonT(60) DEF RunUnprotected, Solo
<1>6. ASSUME NEW c \in Calls, NEW k \in Keys, NEW p \in Payloads, Claim(c, k, p)
      PROVE  AnnounceOK'
  <2>1. Moved(c) /\ (Solo(c)' => call'[c].obj \notin DOMAIN objects)
    <3>1. call[c].pc = "idle" /\ Keyed(k)
      BY <1>6, KeysOf, ZenonT(60) DEF Claim
    <3>2. UNCHANGED call \/ (Moved(c) /\ call'[c].key = k)
      BY <1>6, ClaimCall, ZenonT(60)
    <3> QED BY <3>1, <3>2, ZenonT(60) DEF Moved, Solo
  <2> QED BY <1>6, <2>1, SameGrown, SilentStep, ZenonT(60) DEF Claim
<1>7. ASSUME NEW c \in Calls, Find(c) \/ Refind(c) \/ Reclaim(c) \/ MarkFailed(c) \/ Crash(c)
      PROVE  AnnounceOK'
  <2>1. UNCHANGED announced /\ Grown
    BY <1>7, SameGrown, ZenonT(60) DEF Find, Refind, Reclaim, MarkFailed, Crash
  <2>2. Left(c) \/ \E q : Stays(c, {q}) /\ q # "post"
    <3>1. Leave(c) \/ \E q : Goto(c, q) /\ q # "post"
      <4>1. PersistAt(call[c].key) # "post"
        BY DEF PersistAt
      <4>2. "reclaim" # "post" /\ "refind" # "post"
        OBVIOUS
      <4> QED BY <1>7, <4>1, <4>2, ZenonT(60) DEF Find, Refind, Reclaim, MarkFailed, Crash
    <3> QED BY <3>1, Leaves, Goes, ZenonT(60)
  <2> QED BY ZenonT(60), <1>1, <1>2, <2>1, <2>2
<1>8. ASSUME NEW c \in Calls, MarkCompleted(c) \/ MarkUnknown(c)
      PROVE  AnnounceOK'
  <2>1. Keyed(call[c].key)
    BY <1>8, ZenonT(60) DEF MarkCompleted, MarkUnknown, Held, ScopeOK
  <2>2. \E q : Stays(c, {q})
    BY <1>8, Goes, ZenonT(60) DEF MarkCompleted, MarkUnknown
  <2> QED BY <1>2, <1>8, <2>1, <2>2, SameGrown, ZenonT(60) DEF MarkCompleted, MarkUnknown
<1>9. ASSUME NEW c \in Calls, CreateTrade(c) \/ CreateOffer(c)
      PROVE  AnnounceOK'
  <2>1. UNCHANGED announced
    BY <1>9, ZenonT(60) DEF CreateTrade, CreateOffer
  <2>2. ASSUME NEW r, objects' = Append(objects, r),
               Persisted(c, Len(objects) + 1) \/ PersistThrew(c)
        PROVE  AnnounceOK'
    BY <1>3, <1>4, <2>1, <2>2, AppendGrown, ZenonT(60)
  <2>3. ASSUME UNCHANGED objects, Keyed(call[c].key), NEW o, Persisted(c, o)
        PROVE  AnnounceOK'
    BY <1>4, <2>1, <2>3, SameGrown
  <2> QED BY <1>9, <2>2, <2>3, ZenonT(60) DEF CreateTrade, CreateOffer
<1>10. ASSUME NEW c \in Calls, FindIntent(c) \/ CreateIntent(c) \/ FindOffer(c) \/ PersistRefused(c)
       PROVE  AnnounceOK'
  <2>1. UNCHANGED announced /\ Grown
    BY <1>10, SameGrown, ZenonT(60) DEF FindIntent, CreateIntent, FindOffer, PersistRefused
  <2>2. \/ PersistThrew(c)
        \/ Keyed(call[c].key) /\ \E o : Persisted(c, o)
        \/ \E q : Stays(c, {q}) /\ q # "post"
    <3>1. call[c].pc = "findOffer" => Keyed(call[c].key)
      BY ZenonT(60) DEF Held, ScopeOK
    <3>2. \/ PersistThrew(c)
          \/ call[c].pc = "findOffer" /\ \E o : Persisted(c, o)
          \/ \E q : Goto(c, q) /\ q # "post"
          \/ \E q, i : call' = [call EXCEPT ![c].pc = q, ![c].intent = i] /\ q # "post"
      <4>1. "intent" # "post" /\ "findOffer" # "post" /\ "offer" # "post"
        OBVIOUS
      <4>2. CASE FindIntent(c)
        BY <4>1, <4>2, ZenonT(60) DEF FindIntent
      <4>3. CASE CreateIntent(c)
        BY <4>1, <4>3, ZenonT(60) DEF CreateIntent
      <4>4. CASE FindOffer(c) \/ PersistRefused(c)
        BY <4>1, <4>4, ZenonT(60) DEF FindOffer, PersistRefused
      <4> QED BY ZenonT(60), <1>10, <4>2, <4>3, <4>4
    <3> QED BY <3>1, <3>2, Goes, Picks, ZenonT(60)
  <2> QED BY ZenonT(60), <1>2, <1>3, <1>4, <2>1, <2>2
<1>11. CASE UNCHANGED vars
  <2>1. Grown /\ UNCHANGED <<announced, objects, claim, call>>
    BY <1>11, SameGrown DEF vars
  <2> QED BY <2>1, ZenonT(60) DEF AnnounceOK, AnnouncedOnce, Said, Shut, Holds, Solo
<1> QED
  BY <1>5, <1>6, <1>7, <1>8, <1>9, <1>10, <1>11, PostStep DEF Next, Step

\* However often a request is retried and whatever commits without an answer,
\* postPersist emits the created event of an object at most once.
THEOREM AnnouncedOnceHolds == Spec => []AnnouncedOnce
<1>1. Init => IdemInv /\ AnnounceOK
  <2>1. Init => AnnounceOK
    BY DEF Init, AnnounceOK, AnnouncedOnce, Said, Solo, Idle
  <2> QED BY <2>1, InitInv DEF IdemInv
<1>2. (IdemInv /\ AnnounceOK) /\ [Next]_vars => (IdemInv /\ AnnounceOK)'
  BY TypeStep, HeldStep, OfferStep, AnnounceStep DEF IdemInv
<1>3. AnnounceOK => AnnouncedOnce
  BY DEF AnnounceOK
<1> QED
  BY <1>1, <1>2, <1>3, PTL DEF Spec

=============================================================================
