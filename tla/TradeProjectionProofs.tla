------------------------ MODULE TradeProjectionProofs -----------------------
(***************************************************************************)
(* The handlers and requests of TradeProjection drive the intent engine    *)
(* only as IntentEngine allows, at any number of instances and for any     *)
(* number of trades; the engine's theorem then holds of the composition.   *)
(* What handlers write is warranted by the escrow and by rulings, nothing  *)
(* owed to the audit trail is forgotten, and at one instance nothing is    *)
(* counted twice.                                                          *)
(***************************************************************************)
EXTENDS TradeProjection, TLAPS

\* Every leaf that names no prover is tried with SMT, with Zenon and with SMT again.
USE SMTT(60), ZenonT(30), SMTT(61), SMTT(62)

\* Flows are callers the engine knows.
FlowsOK ==
  /\ outbox \subseteq Instances \X Trades \X EscrowEvents
  /\ DOMAIN flow \subseteq Flows

-----------------------------------------------------------------------------

\* A flow that goes on, or ends, adds none.
LEMMA AdvancedDomain ==
  ASSUME NEW f, FlowsOK
  PROVE  DOMAIN Advanced(f) \subseteq Flows /\ DOMAIN Without(flow, {f}) \subseteq Flows
BY DEF FlowsOK, Advanced, Without

\* The handlers of an event run at the instances, for the event.
LEMMA PublishedDomain ==
  ASSUME NEW i \in Instances, NEW t \in Trades, NEW ev \in Events,
         NEW fl, DOMAIN fl \subseteq Flows
  PROVE  DOMAIN Published(i, t, ev, fl) \subseteq Flows
<1>1. Instances \X {i} \X {t} \X {ev} \subseteq Flows
  BY DEF Flows
<1> QED BY <1>1 DEF Published, Started

\* An escrow transition emits an event of the escrow, if any.
LEMMA EventOfType ==
  ASSUME NEW to
  PROVE  EventOf(to) \subseteq EscrowEvents
BY DEF EventOf, EscrowEvents

\* What a flow does besides the engine.
LEMMA PlainStep ==
  ASSUME FlowsOK, NEW f \in DOMAIN flow,
         \/ SetTrade(f) \/ Allow(f) \/ Count(f) \/ Judge(f)
         \/ FindVouches(f) \/ BurnVouch(f) \/ PublishTradeEvent(f)
  PROVE  FlowsOK' /\ UNCHANGED engineVars
<1>1. f \in Flows /\ outbox' = outbox
  BY ZenonT(60) DEF FlowsOK, SetTrade, Allow, Count, Judge, FindVouches, BurnVouch, PublishTradeEvent
<1>2. UNCHANGED engineVars
  BY ZenonT(60) DEF SetTrade, Allow, Count, Judge, FindVouches, BurnVouch, PublishTradeEvent
<1>3. DOMAIN flow' \subseteq Flows
  <2>1. CASE SetTrade(f) \/ Allow(f) \/ Count(f) \/ BurnVouch(f)
    BY ZenonT(60), <2>1, AdvancedDomain DEF SetTrade, Allow, Count, BurnVouch
  <2>2. CASE Judge(f)
    BY <2>2 DEF Judge, FlowsOK
  <2>3. CASE FindVouches(f)
    BY ZenonT(60), <2>3, AdvancedDomain DEF FindVouches, FlowsOK
  <2>4. CASE PublishTradeEvent(f)
    <3>1. FlowInstance(f) \in Instances /\ FlowTrade(f) \in Trades
      BY <1>1 DEF Flows, FlowInstance, FlowTrade
    <3>2. DOMAIN Advanced(f) \subseteq Flows
      BY ZenonT(60), AdvancedDomain
    <3> QED BY <2>4, <3>1, <3>2, PublishedDomain DEF PublishTradeEvent, Events
  <2> QED BY <2>1, <2>2, <2>3, <2>4
<1> QED BY <1>1, <1>2, <1>3 DEF FlowsOK

\* A call of the engine is a step of the engine by that caller.
LEMMA EngineStep ==
  ASSUME FlowsOK, Engine!EngineTypeOK, NEW f \in DOMAIN flow, CallEngine(f)
  PROVE  FlowsOK' /\ [Engine!EngineNext]_engineVars
<1>1. f \in Flows
  BY DEF FlowsOK
<1>2. FlowsOK'
  <2>1. outbox' = outbox
    BY DEF CallEngine
  <2>2. flow' = flow \/ flow' = Advanced(f) \/ flow' = Without(flow, {f})
    BY ZenonT(60) DEF CallEngine
  <2> QED BY <2>1, <2>2, AdvancedDomain DEF FlowsOK
<1>3. ASSUME NEW to, Engine!ReadIntent(f, to)
      PROVE  Engine!EngineNext
  <2>1. to \in Engine!IntentStatuses
    BY <1>3 DEF Engine!ReadIntent, Engine!EngineTypeOK, Engine!INTENT_TRANSITIONS,
                Engine!IntentStatuses
  <2> QED BY <1>1, <1>3, <2>1, ZenonT(60) DEF Engine!EngineNext
<1>4. ASSUME NEW to, Engine!RefuseTransition(f, to)
      PROVE  UNCHANGED engineVars
  BY <1>4 DEF Engine!RefuseTransition, Engine!engineVars, engineVars
<1>5. ASSUME \/ Engine!InsertIntent(f) \/ Engine!ClaimTransition(f) \/ Engine!FindLastEvent(f)
             \/ Engine!CreateEvent(f) \/ Engine!LoseClaim(f)
      PROVE  Engine!EngineNext
  BY <1>1, <1>5, ZenonT(60) DEF Engine!EngineNext
<1> QED BY <1>2, <1>3, <1>4, <1>5, ZenonT(60) DEF CallEngine

\* What a stop or a rejected query leaves.
LEMMA AbandonStep ==
  ASSUME FlowsOK, NEW fs \in SUBSET Flows, Abandoned(fs), outbox' \subseteq outbox
  PROVE  FlowsOK' /\ [Engine!EngineNext]_engineVars
<1>1. FlowsOK'
  BY DEF FlowsOK, Abandoned, Without
<1>2. Engine!EngineNext
  BY ZenonT(60) DEF Abandoned, Engine!EngineNext
<1> QED BY <1>1, <1>2

\* Every step of the system is one of the engine, or leaves the engine alone.
LEMMA StepIsEngineStep ==
  ASSUME FlowsOK, Engine!EngineTypeOK, [Next]_vars
  PROVE  FlowsOK' /\ [Engine!EngineNext]_engineVars
<1>1. CASE UNCHANGED vars
  BY <1>1 DEF vars, FlowsOK
<1>2. ASSUME NEW i \in Instances, NEW t \in Trades, NEW to \in Statuses, EscrowMoves(i, t, to)
      PROVE  FlowsOK' /\ UNCHANGED engineVars
  <2>1. {i} \X {t} \X EventOf(to) \subseteq Instances \X Trades \X EscrowEvents
    BY EventOfType
  <2> QED BY <1>2, <2>1 DEF EscrowMoves, FlowsOK
<1>3. ASSUME NEW i \in Instances, NEW t \in Trades, NEW r \in Calls, StartRequest(i, t, r)
      PROVE  FlowsOK' /\ UNCHANGED engineVars
  <2>1. <<i, i, t, r>> \in Flows
    BY CallsAssumption DEF Flows
  <2> QED BY <1>3, <2>1 DEF StartRequest, Started, FlowsOK
<1>4. ASSUME NEW t \in Trades, Unrule(t) \/ \E r \in Rulings : Rule(t, r)
      PROVE  FlowsOK' /\ UNCHANGED engineVars
  BY <1>4 DEF Unrule, Rule, FlowsOK
<1>5. ASSUME NEW p \in outbox, PublishEscrowEvent(p)
      PROVE  FlowsOK' /\ UNCHANGED engineVars
  <2>1. p[1] \in Instances /\ p[2] \in Trades /\ p[3] \in Events
    BY DEF FlowsOK, Events
  <2>2. DOMAIN flow' \subseteq Flows
    BY <1>5, <2>1, PublishedDomain DEF PublishEscrowEvent, FlowsOK
  <2> QED BY <1>5, <2>2 DEF PublishEscrowEvent, FlowsOK
<1>6. ASSUME NEW f \in DOMAIN flow, FlowStep(f)
      PROVE  FlowsOK' /\ [Engine!EngineNext]_engineVars
  BY <1>6, PlainStep, EngineStep, ZenonT(60) DEF FlowStep
<1>7. ASSUME NEW f \in DOMAIN flow, RejectFlow(f)
      PROVE  FlowsOK' /\ [Engine!EngineNext]_engineVars
  <2>1. {f} \in SUBSET Flows
    BY DEF FlowsOK
  <2> QED BY <1>7, <2>1, AbandonStep DEF RejectFlow
<1>8. ASSUME NEW i \in Instances, Stop(i)
      PROVE  FlowsOK' /\ [Engine!EngineNext]_engineVars
  <2>1. PICK late : Abandoned({f \in DOMAIN flow : FlowInstance(f) = i} \ late)
    BY <1>8, ZenonT(60) DEF Stop
  <2>2. {f \in DOMAIN flow : FlowInstance(f) = i} \ late \in SUBSET Flows
    BY DEF FlowsOK
  <2>3. outbox' \subseteq outbox
    BY <1>8 DEF Stop
  <2> QED BY <2>1, <2>2, <2>3, AbandonStep
<1> QED
  BY <1>1, <1>2, <1>3, <1>4, <1>5, <1>6, <1>7, <1>8, ZenonT(60) DEF Next, vars

-----------------------------------------------------------------------------
(* What handlers do is warranted by the escrow and the rulings.            *)

Settled(t) == escrow[t] \in {"COMPLETED", "SPLIT"}

\* What an intent may say on account of a trade.
Backed(t, s) ==
  /\ s \in {"COMMITTED", "SETTLING", "FULFILLED", "FAILED"} => escrow[t] # "CREATED"
  /\ s \in {"SETTLING", "FULFILLED"} => Settled(t)
  /\ s = "FAILED" => escrow[t] = "REFUNDED"

\* The parties that some ruling of the trade went against.
Losers(t) == {p \in Parties : <<t, IF p = "seller" THEN "RELEASE" ELSE "REFUND">> \in ruled}

\* The events that may be about.
Warrants(t, ev) ==
  /\ ev = "locked" => escrow[t] # "CREATED"
  /\ ev \in {"released", "split"} => Settled(t)
  /\ ev = "refunded" => escrow[t] = "REFUNDED"

\* The queries that a flow of the trade may still have to run.
Warranted(t) ==
  {<<"insert">>, <<"publish">>}
  \cup ({"allow"} \X {{"PENDING"}, {"PENDING", "ACTIVE"}})
  \cup ({"judge"} \X {"RELEASE", "REFUND"})
  \cup ({"set"} \X {s \in TradeStatuses : s = "COMPLETED" => Settled(t)})
  \cup ({"intent"} \X {s \in Engine!IntentStatuses : Backed(t, s)})
  \cup ({"count"} \X (Stats \ {"NEGATIVE"}) \X Parties)
  \cup ({"count"} \X {"NEGATIVE"} \X Losers(t))
  \cup ({"vouches", "burn"} \X Losers(t))

FlowsWarranted(fl) ==
  \A f \in DOMAIN fl : fl[f] # <<>> /\ fl[f] \in Seq(Warranted(FlowTrade(f)))

RulingsOK ==
  /\ escrow \in [Trades -> Statuses]
  /\ ruling \in [Trades -> Rulings \cup {"none"}]
  /\ \A t \in Trades : ruling[t] # "none" => <<t, ruling[t]>> \in ruled

QueuesOK ==
  /\ \A p \in outbox : Warrants(p[2], p[3])
  /\ FlowsWarranted(flow)
  /\ \A f \in DOMAIN move : Backed(FlowTrade(f), move[f].to)

SaidOK ==
  /\ trade \in [Trades -> TradeStatuses]
  /\ \A t \in Trades : trade[t] = "COMPLETED" => Settled(t)
  /\ intent = "none" \/ \E t \in Trades : Backed(t, intent)

BlameOK ==
  /\ tally \in [Trades \X Stats \X Parties -> Nat]
  /\ \A t \in Trades, p \in Parties : tally[<<t, "NEGATIVE", p>>] > 0 => p \in Losers(t)
  /\ \A p \in Parties \ vouched : \E t \in Trades : p \in Losers(t)

WInv == RulingsOK /\ QueuesOK /\ SaidOK /\ BlameOK

\* A warranted call of the engine is for a status the escrow backs.
LEMMA WarrantedIntent ==
  ASSUME NEW t, NEW x \in Warranted(t), x[1] = "intent"
  PROVE  Backed(t, x[2])
BY DEF Warranted

\* Sequences of warranted queries can be joined.
LEMMA Joined ==
  ASSUME NEW S
  PROVE  \A a, b \in Seq(S) : a \o b \in Seq(S) /\ (a # <<>> => a \o b # <<>>)
<1> TAKE a, b \in Seq(S)
<1>1. a \o b \in Seq(S)
  OBVIOUS
<1>2. a \o b = <<>> => a = <<>>
  OBVIOUS
<1> QED BY <1>1, <1>2

\* A script is warranted if its event is.
LEMMA ScriptWarranted ==
  ASSUME NEW t \in Trades, NEW ev \in Events \cup Requests, Warrants(t, ev)
  PROVE  Script(ev) # <<>> /\ Script(ev) \in Seq(Warranted(t))
<1> DEFINE W == Warranted(t)
<1>1. \A st \in Stats \ {"NEGATIVE"} : Both(st) \in Seq(W) /\ Both(st) # <<>>
  BY DEF Both, Warranted, Parties
<1>2. ASSUME Settled(t)
      PROVE  /\ Fulfill \in Seq(W)
             /\ << <<"set", "COMPLETED">> >> \in Seq(W) /\ << <<"set", "COMPLETED">> >> # <<>>
  <2>1. Backed(t, "SETTLING") /\ Backed(t, "FULFILLED")
    BY <1>2 DEF Backed, Settled
  <2>2. <<"intent", "SETTLING">> \in W /\ <<"intent", "FULFILLED">> \in W
    BY <2>1 DEF Warranted, Engine!IntentStatuses
  <2>3. <<"set", "COMPLETED">> \in W
    BY <1>2 DEF Warranted, TradeStatuses
  <2> QED BY <2>2, <2>3 DEF Fulfill
<1>3. CASE ev = "locked"
  <2>1. Backed(t, "COMMITTED")
    BY <1>3 DEF Backed, Warrants
  <2>2. <<"set", "ACTIVE">> \in W /\ <<"intent", "COMMITTED">> \in W
    BY <2>1 DEF Warranted, Engine!IntentStatuses, TradeStatuses
  <2> QED BY <1>3, <2>2 DEF Script, OnLocked
<1>4. CASE ev = "disputed"
  <2>1. <<"set", "DISPUTED">> \in W /\ <<"publish">> \in W
    BY DEF Warranted, TradeStatuses
  <2> QED BY <1>4, <2>1 DEF Script, OnDisputed
<1>5. CASE ev = "released"
  <2>1. Settled(t)
    BY <1>5 DEF Warrants
  <2>2. << <<"judge", "RELEASE">> >> \in Seq(W)
    BY DEF Warranted
  <2>3. Both("trades") \in Seq(W) /\ Both("fees") \in Seq(W)
    BY <1>1 DEF Stats
  <2>4. Script(ev) = OnReleased
    BY <1>5 DEF Script
  <2> DEFINE a == << <<"set", "COMPLETED">> >> \o Both("trades")
             b == a \o Both("fees")
             c == b \o << <<"judge", "RELEASE">> >>
  <2>5. a \in Seq(W) /\ a # <<>>
    BY <1>2, <2>1, <2>3, Joined, ZenonT(60)
  <2> HIDE DEF a
  <2>6. b \in Seq(W) /\ b # <<>>
    BY <2>3, <2>5, Joined, ZenonT(60)
  <2> HIDE DEF b
  <2>7. c \in Seq(W) /\ c # <<>>
    BY <2>2, <2>6, Joined, ZenonT(60)
  <2>8. OnReleased = c \o Fulfill
    BY ZenonT(60) DEF OnReleased, a, b
  <2> HIDE DEF c
  <2> QED BY <1>2, <2>1, <2>4, <2>7, <2>8, Joined, ZenonT(60)
<1>6. CASE ev = "refunded"
  <2>1. Backed(t, "FAILED")
    BY <1>6 DEF Backed, Warrants
  <2>2. <<"set", "CANCELLED">> \in W /\ <<"judge", "REFUND">> \in W /\ <<"intent", "FAILED">> \in W
    BY <2>1 DEF Warranted, Engine!IntentStatuses, TradeStatuses
  <2> QED BY <1>6, <2>2 DEF Script, OnRefunded
<1>7. CASE ev = "split"
  <2>1. Settled(t)
    BY <1>7 DEF Warrants
  <2>2. Both("trades") \in Seq(W) /\ Both("NEUTRAL") \in Seq(W)
    BY <1>1 DEF Stats, Verdicts
  <2>3. Script(ev) = OnSplit
    BY <1>7 DEF Script
  <2> DEFINE a == << <<"set", "COMPLETED">> >> \o Both("trades")
             b == a \o Both("NEUTRAL")
  <2>4. a \in Seq(W) /\ a # <<>>
    BY <1>2, <2>1, <2>2, Joined, ZenonT(60)
  <2> HIDE DEF a
  <2>5. b \in Seq(W) /\ b # <<>>
    BY <2>2, <2>4, Joined, ZenonT(60)
  <2>6. OnSplit = b \o Fulfill
    BY ZenonT(60) DEF OnSplit, a
  <2> HIDE DEF b
  <2> QED BY <1>2, <2>1, <2>3, <2>5, <2>6, Joined, ZenonT(60)
<1>8. CASE ev = "trade.disputed"
  <2>1. Script(ev) = Both("disputes")
    BY <1>8 DEF Script, OnTradeDisputed
  <2> QED BY <1>1, <2>1 DEF Stats
<1>9. CASE ev \in Requests
  <2>1. \A s \in {"VALIDATED", "COORDINATED", "DISCOVERING", "CANCELLED", "MATCHED", "NEGOTIATING"} :
           <<"intent", s>> \in W
    BY DEF Warranted, Backed, Engine!IntentStatuses
  <2>2. \A s \in {"PENDING", "ACTIVE", "CANCELLED"} : <<"set", s>> \in W
    BY DEF Warranted, TradeStatuses
  <2>3. <<"insert">> \in W /\ <<"allow", {"PENDING"}>> \in W /\ <<"allow", {"PENDING", "ACTIVE"}>> \in W
    BY DEF Warranted
  <2>4. CASE ev = "create"
    BY <2>4, <2>1, <2>3 DEF Script, CreateIntent
  <2>5. CASE ev = "propose"
    BY <2>5, <2>1 DEF Script, ProposeIntent
  <2>6. CASE ev = "withdraw"
    BY <2>6, <2>1 DEF Script, WithdrawIntent
  <2>7. CASE ev = "trade"
    BY <2>7, <2>1, <2>2 DEF Script, CreateTrade
  <2>8. CASE ev = "activate"
    BY <2>8, <2>2, <2>3 DEF Script, ActivateTrade
  <2>9. CASE ev = "cancel"
    BY <2>9, <2>1, <2>2, <2>3 DEF Script, CancelTrade
  <2> QED BY <1>9, <2>4, <2>5, <2>6, <2>7, <2>8, <2>9 DEF Requests
<1> QED BY <1>3, <1>4, <1>5, <1>6, <1>7, <1>8, <1>9 DEF Events, EscrowEvents

\* A step that takes nothing back: no escrow leaves a status that ends it, none
\* is new again, and no ruling is forgotten.
Kept ==
  /\ \A t \in Trades :
        /\ escrow[t] # "CREATED" => escrow'[t] # "CREATED"
        /\ Settled(t) => Settled(t)'
        /\ escrow[t] = "REFUNDED" => escrow'[t] = "REFUNDED"
  /\ ruled \subseteq ruled'

\* Such a step leaves every warrant valid.
LEMMA Stable ==
  ASSUME Kept, NEW t \in Trades
  PROVE  /\ \A s : Backed(t, s) => Backed(t, s)'
         /\ \A ev : Warrants(t, ev) => Warrants(t, ev)'
         /\ Losers(t) \subseteq Losers(t)'
         /\ Warranted(t) \subseteq Warranted(t)'
<1>1. \A s : Backed(t, s) => Backed(t, s)'
  BY DEF Kept, Backed
<1>2. \A ev : Warrants(t, ev) => Warrants(t, ev)'
  BY DEF Kept, Warrants
<1>3. Losers(t) \subseteq Losers(t)'
  BY DEF Kept, Losers
<1>4. Settled(t) => Settled(t)'
  BY DEF Kept
<1>5. Warranted(t) \subseteq Warranted(t)'
  BY <1>1, <1>3, <1>4 DEF Warranted
<1> QED BY <1>1, <1>2, <1>3, <1>5

\* What is queued stays warranted if nothing unwarranted is added.
LEMMA QueuesKept ==
  ASSUME QueuesOK, FlowsOK, Kept, FlowsWarranted(flow'), FlowsOK',
         \A p \in outbox' : p \in outbox \/ Warrants(p[2], p[3])',
         DOMAIN move' \subseteq Flows,
         \A f \in DOMAIN move' : Backed(FlowTrade(f), move'[f].to)
  PROVE  QueuesOK'
<1>0. \A f \in Flows : FlowTrade(f) \in Trades
  BY DEF Flows, FlowTrade
<1>1. \A p \in outbox' : Warrants(p[2], p[3])'
  <2> TAKE p \in outbox'
  <2>1. p[2] \in Trades
    BY DEF FlowsOK
  <2> QED BY <2>1, Stable DEF QueuesOK
<1>2. FlowsWarranted(flow)'
  <2> SUFFICES ASSUME NEW f \in DOMAIN flow'
               PROVE  flow'[f] # <<>> /\ flow'[f] \in Seq(Warranted(FlowTrade(f))')
    BY DEF FlowsWarranted, FlowTrade
  <2>1. f \in Flows /\ FlowTrade(f) \in Trades
    BY <1>0 DEF FlowsOK
  <2>2. flow'[f] # <<>> /\ flow'[f] \in Seq(Warranted(FlowTrade(f)))
    BY DEF FlowsWarranted
  <2>3. Warranted(FlowTrade(f)) \subseteq Warranted(FlowTrade(f))'
    BY <2>1, Stable
  <2> QED BY <2>2, <2>3
<1>3. \A f \in DOMAIN move' : Backed(FlowTrade(f), move[f].to)'
  <2> TAKE f \in DOMAIN move'
  <2>1. FlowTrade(f) \in Trades /\ Backed(FlowTrade(f), move'[f].to)
    BY <1>0
  <2> QED BY <2>1 DEF Backed, Kept, FlowTrade
<1> QED BY <1>1, <1>2, <1>3 DEF QueuesOK

\* What is said stays backed if nothing unbacked is added ...
LEMMA SaidKept ==
  ASSUME SaidOK, Kept, trade' = trade,
         intent' = "none" \/ \E t \in Trades : Backed(t, intent')
  PROVE  SaidOK'
<1>1. \A t \in Trades : Settled(t) => Settled(t)'
  BY DEF Kept
<1>2. \A t \in Trades : Backed(t, intent') => Backed(t, intent)'
  BY DEF Kept, Backed
<1> QED BY <1>1, <1>2 DEF SaidOK

\* ... and who is blamed has lost.
LEMMA BlameKept ==
  ASSUME BlameOK, Kept, UNCHANGED <<tally, vouched>>
  PROVE  BlameOK'
<1>1. \A t \in Trades : Losers(t) \subseteq Losers(t)'
  BY DEF Kept, Losers
<1> QED BY <1>1 DEF BlameOK

\* A flow that goes on or ends leaves the others' warrants, and its own next
\* query is warranted.
LEMMA AdvancedWarranted ==
  ASSUME FlowsOK, FlowsWarranted(flow), NEW f \in DOMAIN flow
  PROVE  /\ FlowsWarranted(Advanced(f))
         /\ \A fs : FlowsWarranted(Without(flow, fs))
         /\ f \in Flows /\ FlowTrade(f) \in Trades
         /\ Step(f) \in Warranted(FlowTrade(f))
         /\ Tail(flow[f]) \in Seq(Warranted(FlowTrade(f)))
<1> DEFINE W == Warranted(FlowTrade(f))
<1>1. flow[f] # <<>> /\ flow[f] \in Seq(W)
  BY DEF FlowsWarranted
<1>2. /\ Head(flow[f]) \in W /\ Tail(flow[f]) \in Seq(W)
      /\ Len(Tail(flow[f])) = Len(flow[f]) - 1 /\ Len(flow[f]) \in Nat
  BY <1>1
<1>3. Len(flow[f]) # 1 => Tail(flow[f]) # <<>>
  <2> SUFFICES ASSUME Tail(flow[f]) = <<>> PROVE Len(flow[f]) = 1
    OBVIOUS
  <2>1. Len(<<>>) = 0
    OBVIOUS
  <2>2. \A n \in Nat : n - 1 = 0 => n = 1
    OBVIOUS
  <2> QED BY <1>2, <2>1, <2>2, ZenonT(60)
<1>4. f \in Flows /\ FlowTrade(f) \in Trades
  BY DEF FlowsOK, Flows, FlowTrade
<1>5. \A fs : FlowsWarranted(Without(flow, fs))
  BY DEF FlowsWarranted, Without
<1>6. FlowsWarranted(Advanced(f))
  <2>1. CASE Len(flow[f]) = 1
    BY <2>1, <1>5 DEF Advanced
  <2>2. CASE Len(flow[f]) # 1
    <3>1. Advanced(f) = [flow EXCEPT ![f] = Tail(flow[f])]
      BY <2>2 DEF Advanced
    <3> QED BY <3>1, <2>2, <1>2, <1>3, ZenonT(60) DEF FlowsWarranted
  <2> QED BY <2>1, <2>2
<1> QED BY <1>2, <1>4, <1>5, <1>6 DEF Step

\* Flows that start for a warranted event are warranted.
LEMMA StartedWarranted ==
  ASSUME NEW fl, FlowsWarranted(fl), NEW fs \in SUBSET Flows,
         \A f \in fs : Warrants(FlowTrade(f), f[4])
  PROVE  FlowsWarranted(Started(fs, fl))
<1> SUFFICES ASSUME NEW f \in DOMAIN fl \cup fs
             PROVE  /\ Started(fs, fl)[f] # <<>>
                    /\ Started(fs, fl)[f] \in Seq(Warranted(FlowTrade(f)))
  BY ZenonT(60) DEF FlowsWarranted, Started
<1>1. CASE f \in fs
  <2>1. FlowTrade(f) \in Trades /\ f[4] \in Events \cup Requests
    BY <1>1 DEF Flows, FlowTrade
  <2>2. Started(fs, fl)[f] = Script(f[4])
    BY <1>1 DEF Started
  <2> QED BY <1>1, <2>1, <2>2, ScriptWarranted
<1>2. CASE f \notin fs
  <2>1. Started(fs, fl)[f] = fl[f] /\ f \in DOMAIN fl
    BY <1>2 DEF Started
  <2> QED BY <2>1 DEF FlowsWarranted
<1> QED BY <1>1, <1>2

\* A step that leaves the escrows and the rulings takes nothing back.
LEMMA NothingTaken ==
  ASSUME UNCHANGED <<escrow, ruled>>
  PROVE  Kept
BY DEF Kept, Settled

\* The queries that write what is said or who is blamed.
LEMMA RowQuery ==
  ASSUME WInv, FlowsOK, FlowsOK', NEW f \in DOMAIN flow, DOMAIN move \subseteq Flows,
         SetTrade(f) \/ Count(f) \/ BurnVouch(f)
  PROVE  WInv'
<1> DEFINE t == FlowTrade(f)
<1>1. /\ Kept /\ FlowsWarranted(flow')
      /\ Step(f) \in Warranted(t) /\ t \in Trades
  <2>1. UNCHANGED <<escrow, ruled>> /\ flow' = Advanced(f)
    BY DEF SetTrade, Count, BurnVouch, rowVars
  <2> QED BY <2>1, NothingTaken, AdvancedWarranted DEF WInv, QueuesOK
<1>2. RulingsOK' /\ QueuesOK'
  <2>1. UNCHANGED <<escrow, ruling, ruled, outbox, engineVars>>
    BY DEF SetTrade, Count, BurnVouch, rowVars
  <2>2. \A g \in DOMAIN move' : Backed(FlowTrade(g), move'[g].to)
    BY <2>1 DEF WInv, QueuesOK, engineVars
  <2>3. QueuesOK'
    BY <1>1, <2>1, <2>2, QueuesKept DEF WInv, engineVars
  <2> QED BY <2>1, <2>3 DEF WInv, RulingsOK
<1>3. CASE SetTrade(f)
  <2>1. Step(f)[2] \in TradeStatuses /\ (Step(f)[2] = "COMPLETED" => Settled(t))
    BY <1>1, <1>3 DEF SetTrade, Warranted
  <2>2. UNCHANGED <<escrow, intent, tally, vouched>> /\ trade' = [trade EXCEPT ![t] = Step(f)[2]]
    BY <1>3 DEF SetTrade, engineVars, userVars
  <2>3. BlameOK'
    BY <1>1, <2>2, BlameKept DEF WInv
  <2>4. SaidOK'
    BY <1>1, <2>1, <2>2 DEF WInv, SaidOK, Settled, Backed
  <2> QED BY <1>2, <2>3, <2>4 DEF WInv
<1>4. CASE Count(f)
  <2>1. /\ Step(f)[2] \in Stats /\ Step(f)[3] \in Parties
        /\ Step(f)[2] = "NEGATIVE" => Step(f)[3] \in Losers(t)
    BY <1>1, <1>4 DEF Count, Warranted, Losers, Stats, Verdicts
  <2>2. /\ UNCHANGED <<ruled, trade, intent, vouched>>
        /\ tally' = [tally EXCEPT ![<<t, Step(f)[2], Step(f)[3]>>] = @ + 1]
    BY <1>4 DEF Count, engineVars, rowVars
  <2>3. SaidOK'
    BY <1>1, <2>2, SaidKept DEF WInv, SaidOK
  <2>4. BlameOK'
    <3>1. \A u \in Trades : Losers(u)' = Losers(u)
      BY <2>2 DEF Losers
    <3>2. tally' \in [Trades \X Stats \X Parties -> Nat]
      BY <1>1, <2>1, <2>2 DEF WInv, BlameOK
    <3>3. ASSUME NEW u \in Trades, NEW p \in Parties, tally'[<<u, "NEGATIVE", p>>] > 0
          PROVE  p \in Losers(u)
      <4>1. CASE <<u, "NEGATIVE", p>> = <<t, Step(f)[2], Step(f)[3]>>
        BY <4>1, <2>1
      <4>2. CASE <<u, "NEGATIVE", p>> # <<t, Step(f)[2], Step(f)[3]>>
        <5>1. tally'[<<u, "NEGATIVE", p>>] = tally[<<u, "NEGATIVE", p>>]
          BY ZenonT(60), <4>2, <2>2 DEF WInv, BlameOK, Stats, Verdicts
        <5> QED BY <5>1, <3>3 DEF WInv, BlameOK
      <4> QED BY <4>1, <4>2
    <3> QED BY <3>1, <3>2, <3>3, <2>2 DEF WInv, BlameOK
  <2> QED BY <1>2, <2>3, <2>4 DEF WInv
<1>5. CASE BurnVouch(f)
  <2>1. Step(f)[2] \in Losers(t)
    BY <1>1, <1>5 DEF BurnVouch, Warranted
  <2>2. UNCHANGED <<ruled, trade, intent, tally>> /\ vouched' = vouched \ {Step(f)[2]}
    BY <1>5 DEF BurnVouch, engineVars, rowVars
  <2>3. SaidOK'
    BY <1>1, <2>2, SaidKept DEF WInv, SaidOK
  <2>4. BlameOK'
    <3>1. \A u \in Trades : Losers(u)' = Losers(u)
      BY <2>2 DEF Losers
    <3> QED BY <1>1, <2>1, <2>2, <3>1 DEF WInv, BlameOK
  <2> QED BY <1>2, <2>3, <2>4 DEF WInv
<1> QED BY <1>3, <1>4, <1>5

\* What leaves the rows of the escrow, the trade and the users as they are.
LEMMA RowsLeft ==
  ASSUME WInv, FlowsOK, FlowsOK', UNCHANGED <<escrow, ruling, ruled, trade, userVars>>,
         FlowsWarranted(flow'), outbox' \subseteq outbox, DOMAIN move' \subseteq Flows,
         \A f \in DOMAIN move' : Backed(FlowTrade(f), move'[f].to),
         intent' = "none" \/ \E t \in Trades : Backed(t, intent')
  PROVE  WInv'
<1>1. Kept
  BY NothingTaken
<1>2. QueuesOK'
  BY <1>1, QueuesKept DEF WInv
<1>3. SaidOK' /\ BlameOK'
  BY <1>1, SaidKept, BlameKept DEF WInv, userVars
<1> QED BY <1>2, <1>3 DEF WInv, RulingsOK

\* The queries that only decide what comes next.
LEMMA PlanQuery ==
  ASSUME WInv, FlowsOK, FlowsOK', NEW f \in DOMAIN flow, DOMAIN move \subseteq Flows,
         Allow(f) \/ Judge(f) \/ FindVouches(f) \/ PublishTradeEvent(f)
  PROVE  WInv'
<1> DEFINE t == FlowTrade(f)
           W == Warranted(t)
<1>1. /\ FlowsWarranted(flow) /\ FlowsWarranted(Advanced(f)) /\ FlowsWarranted(Without(flow, {f}))
      /\ Step(f) \in W /\ Tail(flow[f]) \in Seq(W) /\ f \in Flows /\ t \in Trades
  BY AdvancedWarranted DEF WInv, QueuesOK
<1>2. ASSUME NEW s \in Seq(W), s # <<>>
      PROVE  FlowsWarranted([flow EXCEPT ![f] = s \o Tail(flow[f])])
  <2>1. s \o Tail(flow[f]) \in Seq(W) /\ s \o Tail(flow[f]) # <<>>
    BY <1>1, <1>2, Joined, ZenonT(60)
  <2> QED BY <1>1, <2>1, ZenonT(60) DEF FlowsWarranted
<1>3. FlowsWarranted(flow')
  <2>1. CASE Allow(f)
    BY <1>1, <2>1 DEF Allow
  <2>2. CASE Judge(f)
    <3> DEFINE r == Step(f)[2]
               s == Outcomes(r, ruling[t] = r)
    <3>1. r \in {"RELEASE", "REFUND"}
      BY <1>1, <2>2 DEF Judge, Warranted
    <3>2. ASSUME NEW p \in Parties, NEW q \in Parties, p \in Losers(t)
          PROVE  /\ << <<"count", "POSITIVE", q>>, <<"count", "NEGATIVE", p>>, <<"vouches", p>> >> \in Seq(W)
                 /\ << <<"count", "POSITIVE", q>>, <<"count", "NEGATIVE", p>>, <<"vouches", p>> >> # <<>>
      <4>1. /\ <<"count", "POSITIVE", q>> \in W /\ <<"count", "NEGATIVE", p>> \in W
            /\ <<"vouches", p>> \in W
        BY <3>2 DEF Warranted, Stats, Verdicts
      <4> QED BY <4>1
    <3>3. ASSUME NEW st \in Stats \ {"NEGATIVE"}
          PROVE  Both(st) \in Seq(W) /\ Both(st) # <<>>
      BY DEF Both, Warranted, Parties
    <3>5. flow' = [flow EXCEPT ![f] = s \o Tail(flow[f])]
      BY <2>2, ZenonT(60) DEF Judge
    <3>4. CASE ruling[t] = r
      <4>1. <<t, r>> \in ruled
        BY <1>1, <3>1, <3>4 DEF WInv, RulingsOK
      <4>2. CASE r = "RELEASE"
        <5>1. "seller" \in Losers(t) /\ "seller" \in Parties /\ "buyer" \in Parties
          BY <4>1, <4>2 DEF Losers, Parties
        <5>2. s = << <<"count", "POSITIVE", "buyer">>, <<"count", "NEGATIVE", "seller">>,
                     <<"vouches", "seller">> >>
          BY <3>4, <4>2 DEF Outcomes
        <5>3. s \in Seq(W) /\ s # <<>>
          BY <3>2, <5>1, <5>2, ZenonT(60)
        <5> HIDE DEF s
        <5> QED BY <1>2, <5>3, <3>5, ZenonT(60)
      <4>3. CASE r = "REFUND"
        <5>1. "buyer" \in Losers(t) /\ "seller" \in Parties /\ "buyer" \in Parties
          BY <4>1, <4>3 DEF Losers, Parties
        <5>2. s = << <<"count", "POSITIVE", "seller">>, <<"count", "NEGATIVE", "buyer">>,
                     <<"vouches", "buyer">> >>
          BY <3>4, <4>3 DEF Outcomes
        <5>3. s \in Seq(W) /\ s # <<>>
          BY <3>2, <5>1, <5>2, ZenonT(60)
        <5> HIDE DEF s
        <5> QED BY <1>2, <5>3, <3>5, ZenonT(60)
      <4> QED BY <3>1, <4>2, <4>3
    <3>6. CASE ruling[t] # r
      <4>1. s = Both(IF r = "RELEASE" THEN "POSITIVE" ELSE "NEUTRAL")
        BY <3>6 DEF Outcomes
      <4>2. s \in Seq(W) /\ s # <<>>
        BY <3>3, <4>1 DEF Stats, Verdicts
      <4> HIDE DEF s
      <4> QED BY <1>2, <4>2, <3>5, ZenonT(60)
    <3> QED BY <3>4, <3>6
  <2>3. CASE FindVouches(f)
    <3>1. CASE Step(f)[2] \in vouched
      <4>1. Step(f)[2] \in Losers(t)
        BY <1>1, <2>3 DEF FindVouches, Warranted
      <4>2. <<"burn", Step(f)[2]>> \in W
        BY <4>1 DEF Warranted
      <4>3. << <<"burn", Step(f)[2]>> >> \in Seq(W) /\ << <<"burn", Step(f)[2]>> >> # <<>>
        BY <4>2
      <4>4. flow' = [flow EXCEPT ![f] = << <<"burn", Step(f)[2]>> >> \o Tail(flow[f])]
        BY <2>3, <3>1, ZenonT(60) DEF FindVouches
      <4> QED BY <1>2, <4>3, <4>4, ZenonT(60)
    <3>2. CASE Step(f)[2] \notin vouched
      BY <1>1, <2>3, <3>2 DEF FindVouches
    <3> QED BY <3>1, <3>2
  <2>4. CASE PublishTradeEvent(f)
    <3> DEFINE fs == Instances \X {FlowInstance(f)} \X {t} \X {"trade.disputed"}
    <3>1. fs \in SUBSET Flows
      BY <1>1 DEF Flows, FlowInstance, Events
    <3>2. \A g \in fs : Warrants(FlowTrade(g), g[4])
      BY DEF Warrants
    <3>3. flow' = Started(fs, Advanced(f))
      BY <2>4 DEF PublishTradeEvent, Published
    <3> HIDE DEF fs
    <3> QED BY <1>1, <3>1, <3>2, <3>3, StartedWarranted
  <2> QED BY ZenonT(60), <2>1, <2>2, <2>3, <2>4
<1>4. UNCHANGED <<escrow, ruling, ruled, trade, intent, userVars, outbox, move>>
  BY ZenonT(60) DEF Allow, Judge, FindVouches, PublishTradeEvent, rowVars, engineVars
<1>5. /\ \A g \in DOMAIN move' : Backed(FlowTrade(g), move'[g].to)
      /\ intent' = "none" \/ \E u \in Trades : Backed(u, intent')
  BY <1>4 DEF WInv, QueuesOK, SaidOK
<1> QED BY <1>3, <1>4, <1>5, RowsLeft

\* A call of the engine moves the intent only where the flow's trade backs it.
LEMMA EngineCall ==
  ASSUME WInv, FlowsOK, FlowsOK', Engine!EngineTypeOK, NEW f \in DOMAIN flow, CallEngine(f)
  PROVE  WInv'
<1> DEFINE t == FlowTrade(f)
           Backs(m) == \A g \in DOMAIN m : Backed(FlowTrade(g), m[g].to)
           Said(s) == s = "none" \/ \E u \in Trades : Backed(u, s)
<1>1. /\ FlowsWarranted(flow) /\ FlowsWarranted(Advanced(f)) /\ FlowsWarranted(Without(flow, {f}))
      /\ Step(f) \in Warranted(t) /\ f \in Flows /\ t \in Trades
  BY AdvancedWarranted DEF WInv, QueuesOK
<1>2. /\ UNCHANGED <<escrow, ruling, ruled, trade, userVars, outbox>>
      /\ flow' = flow \/ flow' = Advanced(f) \/ flow' = Without(flow, {f})
  BY ZenonT(60) DEF CallEngine, rowVars
<1>3. Backs(move) /\ Said(intent) /\ DOMAIN move \subseteq Flows
      /\ \A g \in DOMAIN move : move[g] \in Engine!MoveRec
  BY DEF WInv, QueuesOK, SaidOK, Engine!EngineTypeOK
<1>4. ASSUME Backs(move'), Said(intent'), DOMAIN move' \subseteq Flows
      PROVE  WInv'
  BY ZenonT(60), <1>1, <1>2, <1>4, RowsLeft
<1>5. ASSUME NEW pc, NEW to, Engine!Called(f, pc, to), Backed(t, to)
      PROVE  Backs(move') /\ DOMAIN move' \subseteq Flows
  BY <1>1, <1>3, <1>5 DEF Engine!Called
<1>6. ASSUME Engine!Ended({f})
      PROVE  Backs(move') /\ DOMAIN move' \subseteq Flows
  BY <1>3, <1>6 DEF Engine!Ended
<1>7. CASE Step(f)[1] = "intent" /\ Engine!ReadIntent(f, Step(f)[2])
  <2>1. Backed(t, Step(f)[2])
    BY <1>1, <1>7, WarrantedIntent, ZenonT(60)
  <2> QED BY ZenonT(60), <1>3, <1>4, <1>5, <1>7, <2>1 DEF Engine!ReadIntent
<1>8. CASE Engine!InsertIntent(f)
  <2>1. Backed(t, "CREATED")
    BY DEF Backed
  <2> QED BY <1>1, <1>4, <1>5, <1>8, <2>1 DEF Engine!InsertIntent
<1>9. CASE Engine!ClaimTransition(f)
  <2>1. f \in DOMAIN move /\ intent' = move[f].to /\ move' = [move EXCEPT ![f].pc = "last"]
    BY <1>9 DEF Engine!ClaimTransition, Engine!At, Engine!Goto
  <2>2. Backs(move') /\ DOMAIN move' \subseteq Flows
    BY <1>3, <2>1 DEF Engine!MoveRec
  <2>3. Said(intent')
    BY <1>1, <1>3, <2>1
  <2> QED BY <1>4, <2>2, <2>3
<1>10. CASE Engine!FindLastEvent(f)
  <2>1. /\ f \in DOMAIN move /\ intent' = intent
        /\ move' = [move EXCEPT ![f].prev = Len(chain), ![f].pc = "write"]
    BY <1>10 DEF Engine!FindLastEvent, Engine!At
  <2>2. Backs(move') /\ DOMAIN move' \subseteq Flows
    BY <1>3, <2>1 DEF Engine!MoveRec
  <2> QED BY <1>3, <1>4, <2>1, <2>2
<1>11. CASE Engine!CreateEvent(f) \/ Engine!LoseClaim(f)
  BY <1>3, <1>4, <1>6, <1>11 DEF Engine!CreateEvent, Engine!LoseClaim
<1>12. CASE Engine!RefuseTransition(f, Step(f)[2])
  BY <1>3, <1>4, <1>12 DEF Engine!RefuseTransition, Engine!engineVars
<1> QED BY <1>7, <1>8, <1>9, <1>10, <1>11, <1>12, ZenonT(60) DEF CallEngine

\* A settlement that went through, or a ruling, takes nothing back.
LEMMA SettlementStep ==
  ASSUME WInv, FlowsOK, FlowsOK', Engine!EngineTypeOK, NEW t \in Trades,
         \/ \E i \in Instances, to \in Statuses : EscrowMoves(i, t, to)
         \/ Unrule(t) \/ \E r \in Rulings : Rule(t, r)
  PROVE  WInv'
<1>1. /\ UNCHANGED <<engineVars, trade, flow, userVars>>
      /\ ruled \subseteq ruled'
  BY DEF EscrowMoves, Unrule, Rule
<1>2. RulingsOK'
  BY DEF WInv, RulingsOK, EscrowMoves, Unrule, Rule
<1>3. Kept
  <2>1. CASE escrow' = escrow
    BY ZenonT(60), <1>1, <2>1 DEF Kept, Settled
  <2>2. ASSUME NEW i \in Instances, NEW to \in Statuses, EscrowMoves(i, t, to)
        PROVE  Kept
    <3>1. escrow' = [escrow EXCEPT ![t] = to] /\ to \in VALID_TRANSITIONS[escrow[t]]
      BY <2>2 DEF EscrowMoves
    <3>2. escrow[t] \notin {"COMPLETED", "SPLIT", "REFUNDED"} /\ to # "CREATED"
      BY <3>1 DEF VALID_TRANSITIONS, WInv, RulingsOK, Statuses
    <3> QED BY <1>1, <3>1, <3>2 DEF WInv, RulingsOK, Kept, Settled
  <2> QED BY <2>1, <2>2 DEF Unrule, Rule
<1>4. SaidOK' /\ BlameOK'
  BY <1>1, <1>3, SaidKept, BlameKept DEF WInv, SaidOK, engineVars, userVars
<1>5. QueuesOK'
  <2>1. /\ FlowsWarranted(flow') /\ DOMAIN move' \subseteq Flows
        /\ \A f \in DOMAIN move' : Backed(FlowTrade(f), move'[f].to)
    BY <1>1 DEF WInv, QueuesOK, engineVars, Engine!EngineTypeOK
  <2>2. \A p \in outbox' : p \in outbox \/ Warrants(p[2], p[3])'
    <3>1. CASE outbox' = outbox
      BY <3>1
    <3>2. ASSUME NEW i \in Instances, NEW to \in Statuses, EscrowMoves(i, t, to),
                 NEW p \in outbox', p \notin outbox
          PROVE  Warrants(p[2], p[3])'
      <4>1. p[2] = t /\ p[3] \in EventOf(to)
        BY <3>2 DEF EscrowMoves
      <4>2. escrow'[t] = to
        BY <3>2 DEF EscrowMoves, WInv, RulingsOK
      <4> QED BY <4>1, <4>2 DEF Warrants, Settled, EventOf
    <3> QED BY <3>1, <3>2 DEF Unrule, Rule
  <2> QED BY <1>3, <2>1, <2>2, QueuesKept DEF WInv
<1> QED BY ZenonT(60), <1>2, <1>4, <1>5 DEF WInv

\* A request, or the handlers of an event, start with what they are told.
LEMMA StartStep ==
  ASSUME WInv, FlowsOK, FlowsOK', Engine!EngineTypeOK,
         \/ \E i \in Instances, t \in Trades, r \in Calls : StartRequest(i, t, r)
         \/ \E p \in outbox : PublishEscrowEvent(p)
  PROVE  WInv'
<1>1. UNCHANGED <<escrow, ruling, ruled, trade, intent, userVars, move>> /\ outbox' \subseteq outbox
  BY ZenonT(60) DEF StartRequest, PublishEscrowEvent, rowVars, engineVars
<1>2. /\ \A g \in DOMAIN move' : Backed(FlowTrade(g), move'[g].to)
      /\ intent' = "none" \/ \E u \in Trades : Backed(u, intent')
      /\ DOMAIN move' \subseteq Flows
  BY <1>1 DEF WInv, QueuesOK, SaidOK, Engine!EngineTypeOK
<1>3. FlowsWarranted(flow')
  <2>1. ASSUME NEW i \in Instances, NEW t \in Trades, NEW r \in Calls, StartRequest(i, t, r)
        PROVE  FlowsWarranted(flow')
    <3>1. {<<i, i, t, r>>} \in SUBSET Flows /\ r \in Requests
      BY CallsAssumption DEF Flows
    <3>2. \A f \in {<<i, i, t, r>>} : Warrants(FlowTrade(f), f[4])
      BY <3>1 DEF Warrants, Requests
    <3>3. flow' = Started({<<i, i, t, r>>}, flow) /\ FlowsWarranted(flow)
      BY ZenonT(60), <2>1 DEF StartRequest, WInv, QueuesOK
    <3> QED BY <3>1, <3>2, <3>3, StartedWarranted
  <2>2. ASSUME NEW p \in outbox, PublishEscrowEvent(p)
        PROVE  FlowsWarranted(flow')
    <3> DEFINE fs == Instances \X {p[1]} \X {p[2]} \X {p[3]}
    <3>1. fs \in SUBSET Flows
      BY ZenonT(60) DEF FlowsOK, Flows, Events
    <3>2. \A f \in fs : Warrants(FlowTrade(f), f[4])
      BY DEF WInv, QueuesOK, FlowTrade
    <3>3. flow' = Started(fs, flow) /\ FlowsWarranted(flow)
      BY <2>2 DEF PublishEscrowEvent, Published, WInv, QueuesOK
    <3> HIDE DEF fs
    <3> QED BY <3>1, <3>2, <3>3, StartedWarranted
  <2> QED BY <2>1, <2>2
<1> QED BY <1>1, <1>2, <1>3, RowsLeft

\* What a stop or a rejected query leaves is what was warranted before.
LEMMA AbandonKeeps ==
  ASSUME WInv, FlowsOK, FlowsOK', Engine!EngineTypeOK, NEW fs, Abandoned(fs),
         outbox' \subseteq outbox
  PROVE  WInv'
<1>1. /\ UNCHANGED <<escrow, ruling, ruled, trade, intent, userVars>>
      /\ flow' = Without(flow, fs)
      /\ move' = [c \in DOMAIN move \ fs |-> move[c]]
  BY DEF Abandoned, rowVars, Engine!Abandon, Engine!Ended
<1>2. FlowsWarranted(flow')
  BY ZenonT(60), <1>1 DEF WInv, QueuesOK, FlowsWarranted, Without
<1>3. /\ \A g \in DOMAIN move' : Backed(FlowTrade(g), move'[g].to)
      /\ intent' = "none" \/ \E u \in Trades : Backed(u, intent')
      /\ DOMAIN move' \subseteq Flows
  BY <1>1 DEF WInv, QueuesOK, SaidOK, Engine!EngineTypeOK
<1> QED BY <1>1, <1>2, <1>3, RowsLeft

\* Every step keeps everything warranted.
LEMMA WarrantsKept ==
  ASSUME WInv, FlowsOK, FlowsOK', Engine!EngineTypeOK, [Next]_vars
  PROVE  WInv'
<1>0. DOMAIN move \subseteq Flows
  BY DEF Engine!EngineTypeOK
<1>1. CASE UNCHANGED vars
  <2>1. /\ UNCHANGED <<escrow, ruling, ruled, trade, intent, userVars, move>>
        /\ outbox' = outbox /\ flow' = flow
    BY <1>1 DEF vars, rowVars, engineVars
  <2>2. /\ \A g \in DOMAIN move' : Backed(FlowTrade(g), move'[g].to)
        /\ intent' = "none" \/ \E u \in Trades : Backed(u, intent')
        /\ DOMAIN move' \subseteq Flows /\ FlowsWarranted(flow')
    BY <1>0, <2>1 DEF WInv, QueuesOK, SaidOK
  <2> QED BY ZenonT(60), <2>1, <2>2, RowsLeft
<1>2. ASSUME NEW f \in DOMAIN flow, FlowStep(f)
      PROVE  WInv'
  <2>1. CASE SetTrade(f) \/ Count(f) \/ BurnVouch(f)
    BY <2>1, <1>0, RowQuery
  <2>2. CASE Allow(f) \/ Judge(f) \/ FindVouches(f) \/ PublishTradeEvent(f)
    BY <2>2, <1>0, PlanQuery
  <2>3. CASE CallEngine(f)
    BY <2>3, EngineCall
  <2> QED BY <1>2, <2>1, <2>2, <2>3, ZenonT(60) DEF FlowStep
<1>3. ASSUME NEW f \in DOMAIN flow, RejectFlow(f)
      PROVE  WInv'
  BY <1>3, AbandonKeeps DEF RejectFlow
<1>4. ASSUME NEW i \in Instances, Stop(i)
      PROVE  WInv'
  <2>1. PICK late : Abandoned({f \in DOMAIN flow : FlowInstance(f) = i} \ late)
    BY <1>4, ZenonT(60) DEF Stop
  <2>2. outbox' \subseteq outbox
    BY <1>4 DEF Stop
  <2> QED BY <2>1, <2>2, AbandonKeeps
<1>5. ASSUME NEW t \in Trades,
             \/ \E i \in Instances, to \in Statuses : EscrowMoves(i, t, to)
             \/ Unrule(t) \/ \E r \in Rulings : Rule(t, r)
      PROVE  WInv'
  BY <1>5, SettlementStep
<1> QED BY <1>1, <1>2, <1>3, <1>4, <1>5, StartStep, ZenonT(60) DEF Next

-----------------------------------------------------------------------------
(* Each handler and request runs once per event and per instance.          *)

\* The statuses of an escrow that has raised the event; none leads back to it.
After(ev) ==
  CASE ev = "locked"   -> Statuses \ {"CREATED"}
    [] ev = "disputed" -> {"DISPUTED"} \cup TerminalStatuses
    [] ev = "released" -> {"COMPLETED"}
    [] ev = "refunded" -> {"REFUNDED"}
    [] ev = "split"    -> {"SPLIT"}

\* Flows of the same trade for the same event or request.
Same(f, g) == f[3] = g[3] /\ f[4] = g[4]

\* The event of an escrow waits in one place or has its handlers started from there.
EscrowOnce ==
  /\ \A p \in outbox : escrow[p[2]] \in After(p[3])
  /\ \A p, q \in outbox : p[2] = q[2] /\ p[3] = q[3] => p = q
  /\ \A f \in DOMAIN flow : f[4] \in EscrowEvents =>
        /\ escrow[f[3]] \in After(f[4])
        /\ \A p \in outbox : ~(p[2] = f[3] /\ p[3] = f[4])
        /\ \A g \in DOMAIN flow : Same(f, g) => g[2] = f[2]

\* The handlers of a trade's dispute are started by an escrow handler that is over.
DisputeOnce ==
  \A f \in DOMAIN flow : f[4] = "trade.disputed" =>
    /\ escrow[f[3]] \in After("disputed")
    /\ \A p \in outbox : ~(p[2] = f[3] /\ p[3] = "disputed")
    /\ \A g \in DOMAIN flow : g[3] = f[3] /\ g[4] = "disputed" => g[1] # f[2]

RequestOnce == \A f \in DOMAIN flow : f[4] \in Requests => <<f[3], f[4]>> \in begun

\* A call of the intent engine is the one its flow stands at.
CallsOK == \A f \in DOMAIN move : f \in DOMAIN flow /\ Step(f)[1] \in {"intent", "insert"}

\* The statistics that are counted together for a party: it has one outcome.
Classes == {"trades", "fees", "disputes", "outcome"}
Class(s) == IF s \in Verdicts THEN "outcome" ELSE s
ClassesOf(ev) ==
  CASE ev = "released"                       -> {"trades", "fees", "outcome"}
    [] ev = "split"                          -> {"trades", "outcome"}
    [] ev = "refunded"                       -> {"outcome"}
    [] ev \in {"disputed", "trade.disputed"} -> {"disputes"}
    [] OTHER                                 -> {}

\* The query counts for the party, or leads to queries that do.
Hits(x, k, p) ==
  \/ x[1] = "count" /\ k = Class(x[2]) /\ p = x[3]
  \/ x[1] = "judge" /\ k = "outcome"
  \/ x[1] = "publish" /\ k = "disputes"
Hit(q, k, p) == \E a \in 1..Len(q) : Hits(q[a], k, p)
OnceIn(q) ==
  \A a, b \in 1..Len(q), k \in Classes, p \in Parties : Hits(q[a], k, p) /\ Hits(q[b], k, p) => a = b
LastOnly(q) == \A a \in 1..Len(q) : q[a][1] = "publish" => a = Len(q)

Shaped(q, ev) ==
  /\ OnceIn(q) /\ LastOnly(q)
  /\ \A a \in 1..Len(q) : q[a][1] = "publish" => ev = "disputed"
  /\ \A k \in Classes, p \in Parties : Hit(q, k, p) => k \in ClassesOf(ev)

ShapeOK == \A f \in DOMAIN flow : Shaped(flow[f], f[4])

Once == EscrowOnce /\ DisputeOnce /\ RequestOnce /\ CallsOK /\ ShapeOK

\* The definitions below speak of both parts of two joined sequences.
LEMMA JoinParts ==
  ASSUME NEW S, NEW a \in Seq(S), NEW b \in Seq(S)
  PROVE  /\ Len(a) \in Nat /\ Len(b) \in Nat /\ Len(a \o b) = Len(a) + Len(b)
         /\ \A n \in 1..Len(a \o b) :
               \/ n \in 1..Len(a) /\ (a \o b)[n] = a[n]
               \/ n - Len(a) \in 1..Len(b) /\ (a \o b)[n] = b[n - Len(a)]
<1>1. Len(a) \in Nat /\ Len(b) \in Nat
  OBVIOUS
<1>2. /\ Len(a \o b) = Len(a) + Len(b)
      /\ \A i \in 1..(Len(a) + Len(b)) :
            (a \o b)[i] = IF i <= Len(a) THEN a[i] ELSE b[i - Len(a)]
  OBVIOUS
<1>3. \A i \in 1..(Len(a) + Len(b)) :
         (i <= Len(a) => i \in 1..Len(a)) /\ (~(i <= Len(a)) => i - Len(a) \in 1..Len(b))
  BY <1>1
<1> QED BY <1>1, <1>2, <1>3, ZenonT(60)

\* Queries put in front of a flow that count what the rest does not.
LEMMA ShapeJoin ==
  ASSUME NEW S, NEW a \in Seq(S), NEW b \in Seq(S), NEW ev, OnceIn(a), Shaped(b, ev),
         \A n \in 1..Len(a) : a[n][1] # "publish",
         \A k \in Classes, p \in Parties :
            Hit(a, k, p) => k \in ClassesOf(ev) /\ ~Hit(b, k, p)
  PROVE  /\ Shaped(a \o b, ev)
         /\ \A k \in Classes, p \in Parties : Hit(a \o b, k, p) => Hit(a, k, p) \/ Hit(b, k, p)
<1> DEFINE c == a \o b
           In(n) == n \in 1..Len(a) /\ c[n] = a[n]
           Out(n) == n - Len(a) \in 1..Len(b) /\ c[n] = b[n - Len(a)]
<1>1. /\ Len(a) \in Nat /\ Len(b) \in Nat /\ Len(c) = Len(a) + Len(b)
      /\ \A n \in 1..Len(c) : In(n) \/ Out(n)
  BY JoinParts
<1> HIDE DEF c
<1>2. \A n, m \in 1..Len(c) : n - Len(a) = m - Len(a) => n = m
  BY <1>1
<1>3. OnceIn(c)
  <2> SUFFICES ASSUME NEW n \in 1..Len(c), NEW m \in 1..Len(c), NEW k \in Classes, NEW p \in Parties,
                      Hits(c[n], k, p), Hits(c[m], k, p)
               PROVE  n = m
    BY DEF OnceIn
  <2>1. In(n) => Hit(a, k, p)
    BY ZenonT(60) DEF Hit
  <2>2. Out(n) => Hit(b, k, p)
    BY ZenonT(60) DEF Hit
  <2>3. In(m) => Hit(a, k, p)
    BY ZenonT(60) DEF Hit
  <2>4. Out(m) => Hit(b, k, p)
    BY ZenonT(60) DEF Hit
  <2>5. CASE In(n) /\ In(m)
    BY <2>5, ZenonT(60) DEF OnceIn
  <2>6. CASE Out(n) /\ Out(m)
    BY <2>6, <1>2, ZenonT(60) DEF OnceIn, Shaped
  <2> QED BY <1>1, <2>1, <2>2, <2>3, <2>4, <2>5, <2>6, ZenonT(60)
<1>4. ASSUME NEW n \in 1..Len(c), c[n][1] = "publish"
      PROVE  Out(n) /\ n = Len(c) /\ ev = "disputed"
  <2>1. Out(n)
    BY <1>1, <1>4, ZenonT(60)
  <2>2. n - Len(a) = Len(b) /\ ev = "disputed"
    BY <1>4, <2>1, ZenonT(60) DEF Shaped, LastOnly
  <2>3. n = Len(c)
    BY <1>1, <2>2
  <2> QED BY <2>1, <2>2, <2>3
<1>5. ASSUME NEW k \in Classes, NEW p \in Parties, Hit(c, k, p)
      PROVE  Hit(a, k, p) \/ Hit(b, k, p)
  BY <1>1, <1>5, ZenonT(60) DEF Hit
<1> QED BY <1>3, <1>4, <1>5, ZenonT(60) DEF Shaped, LastOnly, c

Joinable(S, a, b, ev) ==
  /\ a \in Seq(S) /\ b \in Seq(S) /\ OnceIn(a) /\ Shaped(b, ev)
  /\ \A n \in 1..Len(a) : a[n][1] # "publish"
  /\ \A k \in Classes, p \in Parties : Hit(a, k, p) => k \in ClassesOf(ev) /\ ~Hit(b, k, p)

Joint(a, b, ev) ==
  /\ Shaped(a \o b, ev)
  /\ \A k \in Classes, p \in Parties : Hit(a \o b, k, p) => Hit(a, k, p) \/ Hit(b, k, p)

LEMMA Joining ==
  ASSUME NEW S, NEW a, NEW b, NEW ev, Joinable(S, a, b, ev)
  PROVE  Joint(a, b, ev)
BY ShapeJoin DEF Joinable, Joint

\* What a flow still has to run when its first query is done.
LEMMA ShapeRest ==
  ASSUME NEW S, NEW q \in Seq(S), q # <<>>, NEW ev, Shaped(q, ev)
  PROVE  /\ Shaped(Tail(q), ev)
         /\ \A k \in Classes, p \in Parties :
               /\ Hit(Tail(q), k, p) => Hit(q, k, p)
               /\ Hits(Head(q), k, p) => Hit(q, k, p) /\ ~Hit(Tail(q), k, p)
         /\ Head(q)[1] = "publish" => Len(q) = 1 /\ ev = "disputed"
<1> DEFINE r == Tail(q)
<1>1. /\ Len(q) \in Nat \ {0} /\ Len(r) = Len(q) - 1 /\ Head(q) = q[1]
      /\ \A n \in 1..Len(r) : r[n] = q[n + 1]
  OBVIOUS
<1> HIDE DEF r
<1>2. /\ 1 \in 1..Len(q)
      /\ \A n \in 1..Len(r) : n + 1 \in 1..Len(q) /\ n + 1 # 1 /\ (n + 1 = Len(q) => n = Len(r))
      /\ \A n, m \in 1..Len(r) : n + 1 = m + 1 => n = m
  BY <1>1
<1>3. \A k \in Classes, p \in Parties :
         /\ Hit(r, k, p) => Hit(q, k, p)
         /\ Hits(Head(q), k, p) => Hit(q, k, p) /\ ~Hit(r, k, p)
  <2> TAKE k \in Classes, p \in Parties
  <2>1. Hit(r, k, p) => Hit(q, k, p)
    BY <1>1, <1>2, ZenonT(60) DEF Hit
  <2>2. Hits(q[1], k, p) => Hit(q, k, p)
    BY <1>2, ZenonT(60) DEF Hit
  <2>3. ASSUME Hits(q[1], k, p), NEW n \in 1..Len(r), Hits(r[n], k, p)
        PROVE  FALSE
    BY <1>1, <1>2, <2>3, ZenonT(60) DEF Shaped, OnceIn
  <2> QED BY <1>1, <2>1, <2>2, <2>3, ZenonT(60) DEF Hit
<1>4. OnceIn(r)
  BY <1>1, <1>2, ZenonT(60) DEF Shaped, OnceIn
<1>5. LastOnly(r) /\ \A n \in 1..Len(r) : r[n][1] = "publish" => ev = "disputed"
  BY <1>1, <1>2, ZenonT(60) DEF Shaped, LastOnly
<1>6. Head(q)[1] = "publish" => Len(q) = 1 /\ ev = "disputed"
  BY <1>1, <1>2, ZenonT(60) DEF Shaped, LastOnly
<1> QED BY <1>3, <1>4, <1>5, <1>6, ZenonT(60) DEF Shaped, r

\* The queries that count nothing and lead to nothing that does.
Silent == {"set", "intent", "insert", "allow", "vouches", "burn"}

\* Queries that count nothing, or the same for both parties.
LEMMA SmallShape ==
  ASSUME NEW ev
  PROVE  /\ \A q : (\A n \in 1..Len(q) : q[n][1] \in Silent) =>
               /\ Shaped(q, ev) /\ \A n \in 1..Len(q) : q[n][1] # "publish"
               /\ \A k, p : ~Hit(q, k, p)
         /\ \A st \in Stats :
               /\ OnceIn(Both(st)) /\ \A n \in 1..Len(Both(st)) : Both(st)[n][1] # "publish"
               /\ \A k, p : Hit(Both(st), k, p) => k = Class(st)
               /\ Class(st) \in ClassesOf(ev) => Shaped(Both(st), ev)
<1>1. ASSUME NEW q, \A n \in 1..Len(q) : q[n][1] \in Silent
      PROVE  /\ Shaped(q, ev) /\ \A n \in 1..Len(q) : q[n][1] # "publish"
             /\ \A k, p : ~Hit(q, k, p)
  <2>1. "count" \notin Silent /\ "judge" \notin Silent /\ "publish" \notin Silent
    BY DEF Silent
  <2>2. \A n \in 1..Len(q) : q[n][1] # "publish"
    BY <1>1, <2>1, ZenonT(60)
  <2>3. \A n, k, p : n \in 1..Len(q) => ~Hits(q[n], k, p)
    BY <1>1, <2>1, ZenonT(60) DEF Hits
  <2> QED BY <2>2, <2>3, ZenonT(60) DEF Hit, OnceIn, Shaped, LastOnly
<1>2. ASSUME NEW st \in Stats
      PROVE  /\ OnceIn(Both(st)) /\ \A n \in 1..Len(Both(st)) : Both(st)[n][1] # "publish"
             /\ \A k, p : Hit(Both(st), k, p) => k = Class(st)
             /\ Class(st) \in ClassesOf(ev) => Shaped(Both(st), ev)
  <2> DEFINE q == Both(st)
             x == <<"count", st, "buyer">>
             y == <<"count", st, "seller">>
  <2>1. /\ x[1] = "count" /\ x[2] = st /\ x[3] = "buyer"
        /\ y[1] = "count" /\ y[2] = st /\ y[3] = "seller"
    OBVIOUS
  <2>2. \A n \in 1..Len(q) : (n = 1 /\ q[n] = x) \/ (n = 2 /\ q[n] = y)
    BY DEF Both
  <2>3. "buyer" # "seller" /\ "count" # "publish" /\ "count" # "judge"
    OBVIOUS
  <2> HIDE DEF q, x, y
  <2>4. \A n \in 1..Len(q) : q[n][1] # "publish"
    BY <2>1, <2>2, <2>3, ZenonT(60)
  <2>5. \A k, p : Hit(q, k, p) => k = Class(st)
    BY <2>1, <2>2, <2>3, ZenonT(60) DEF Hit, Hits
  <2>6. \A p : ~(p = "buyer" /\ p = "seller")
    BY <2>3
  <2>7. OnceIn(q)
    BY <2>1, <2>2, <2>3, <2>6, ZenonT(60) DEF OnceIn, Hits
  <2>8. Class(st) \in ClassesOf(ev) => Shaped(q, ev)
    BY <2>4, <2>5, <2>7, ZenonT(60) DEF Shaped, LastOnly
  <2> QED BY <2>4, <2>5, <2>7, <2>8, ZenonT(60) DEF q
<1> QED BY <1>1, <1>2, ZenonT(60)

\* No handler or request counts a statistic twice, and each counts only its own.
LEMMA ScriptShape ==
  ASSUME NEW ev \in Events \cup Requests
  PROVE  Shaped(Script(ev), ev)
<1> DEFINE S == ({"set", "intent", "judge"} \X {"COMPLETED", "RELEASE", "SETTLING", "FULFILLED"})
                \cup ({"count"} \X Stats \X Parties)
           done == << <<"set", "COMPLETED">> >>
<1>1. /\ done \in Seq(S) /\ Fulfill \in Seq(S) /\ << <<"judge", "RELEASE">> >> \in Seq(S)
      /\ \A st \in Stats : Both(st) \in Seq(S)
  BY DEF Fulfill, Both, Parties
<1>2. /\ \A n \in 1..Len(done) : done[n][1] \in Silent
      /\ \A n \in 1..Len(Fulfill) : Fulfill[n][1] \in Silent
  BY DEF Fulfill, Silent
<1>3. /\ Shaped(done, ev) /\ \A n \in 1..Len(done) : done[n][1] # "publish"
      /\ \A k, p : ~Hit(done, k, p)
      /\ Shaped(Fulfill, ev) /\ \A k, p : ~Hit(Fulfill, k, p)
  BY <1>2, SmallShape, ZenonT(60)
<1> HIDE DEF S, done
<1>4. {"trades", "fees", "NEUTRAL", "disputes"} \subseteq Stats
  BY DEF Stats, Verdicts
<1>5. ASSUME NEW a \in Seq(S), NEW b \in Seq(S), ev # "disputed", Shaped(a, ev), Shaped(b, ev),
             \A k \in Classes, p \in Parties : ~(Hit(a, k, p) /\ Hit(b, k, p))
      PROVE  /\ Shaped(a \o b, ev) /\ a \o b \in Seq(S)
             /\ \A k \in Classes, p \in Parties : Hit(a \o b, k, p) => Hit(a, k, p) \/ Hit(b, k, p)
  <2>1. OnceIn(a) /\ \A n \in 1..Len(a) : a[n][1] # "publish"
    BY <1>5, ZenonT(60) DEF Shaped
  <2>2. \A k \in Classes, p \in Parties : Hit(a, k, p) => k \in ClassesOf(ev) /\ ~Hit(b, k, p)
    BY <1>5, ZenonT(60) DEF Shaped
  <2>3. /\ Shaped(a \o b, ev)
        /\ \A k \in Classes, p \in Parties : Hit(a \o b, k, p) => Hit(a, k, p) \/ Hit(b, k, p)
    BY <1>5, <2>1, <2>2, ShapeJoin
  <2>4. a \o b \in Seq(S)
    BY Joined, ZenonT(60)
  <2> QED BY <2>3, <2>4
<1>6. CASE ev = "disputed"
  <2> DEFINE q == OnDisputed
  <2>1. \A n \in 1..Len(q) : (n = 1 /\ q[n][1] = "set") \/ (n = 2 /\ q[n][1] = "publish")
    BY DEF OnDisputed
  <2>2. Len(q) = 2 /\ "set" \notin {"count", "judge", "publish"} /\ "publish" \notin {"count", "judge"}
    BY DEF OnDisputed
  <2>3. Script(ev) = q /\ ClassesOf(ev) = {"disputes"}
    BY <1>6 DEF Script, ClassesOf
  <2> HIDE DEF q
  <2>4. \A n, k, p : n \in 1..Len(q) /\ Hits(q[n], k, p) => n = 2 /\ k = "disputes"
    BY <2>1, <2>2, ZenonT(60) DEF Hits
  <2>5. LastOnly(q)
    BY <2>1, <2>2, ZenonT(60) DEF LastOnly
  <2> QED BY <1>6, <2>3, <2>4, <2>5, ZenonT(60) DEF Shaped, OnceIn, Hit
<1>7. CASE ev = "released"
  <2> DEFINE judge == << <<"judge", "RELEASE">> >>
             a == done \o Both("trades")
             b == a \o Both("fees")
             c == b \o judge
  <2>1. Script(ev) = c \o Fulfill
    BY <1>7 DEF Script, OnReleased, done
  <2>2. ClassesOf(ev) = {"trades", "fees", "outcome"} /\ ev # "disputed"
    BY <1>7 DEF ClassesOf
  <2>3. Class("trades") = "trades" /\ Class("fees") = "fees"
    BY DEF Class, Verdicts
  <2>4. judge \in Seq(S) /\ Shaped(judge, ev) /\ \A k, p : Hit(judge, k, p) => k = "outcome"
    <3>1. \A n \in 1..Len(judge) : n = 1 /\ judge[n][1] = "judge"
      OBVIOUS
    <3>2. "judge" # "count" /\ "judge" # "publish"
      OBVIOUS
    <3>3. judge \in Seq(S)
      BY <1>1
    <3> HIDE DEF judge
    <3>4. \A n, k, p : n \in 1..Len(judge) /\ Hits(judge[n], k, p) => k = "outcome"
      BY <3>1, <3>2, ZenonT(60) DEF Hits
    <3> QED BY <2>2, <3>1, <3>2, <3>3, <3>4, ZenonT(60) DEF Shaped, OnceIn, Hit, LastOnly
  <2>5. /\ Shaped(Both("trades"), ev) /\ Shaped(Both("fees"), ev)
        /\ Both("trades") \in Seq(S) /\ Both("fees") \in Seq(S)
        /\ \A k, p : Hit(Both("trades"), k, p) => k = "trades"
        /\ \A k, p : Hit(Both("fees"), k, p) => k = "fees"
    BY <1>1, <1>4, <2>2, <2>3, SmallShape, ZenonT(60)
  <2>6. "trades" # "fees" /\ "trades" # "outcome" /\ "fees" # "outcome"
    OBVIOUS
  <2> HIDE DEF judge, a, b, c
  <2>7. a \in Seq(S) /\ Shaped(a, ev) /\ \A k \in Classes, p \in Parties : Hit(a, k, p) => k = "trades"
    BY <1>1, <1>3, <1>5, <2>2, <2>5, ZenonT(60) DEF a
  <2>8. \A k \in Classes, p \in Parties : ~(Hit(a, k, p) /\ Hit(Both("fees"), k, p))
    BY <2>5, <2>6, <2>7, ZenonT(60)
  <2>9. b \in Seq(S) /\ Shaped(b, ev)
        /\ \A k \in Classes, p \in Parties : Hit(b, k, p) => k = "trades" \/ k = "fees"
    BY <1>5, <2>2, <2>5, <2>7, <2>8, ZenonT(60) DEF b
  <2>10. \A k \in Classes, p \in Parties : ~(Hit(b, k, p) /\ Hit(judge, k, p))
    BY <2>4, <2>6, <2>9, ZenonT(60)
  <2>11. c \in Seq(S) /\ Shaped(c, ev)
    BY <1>5, <2>2, <2>4, <2>9, <2>10, ZenonT(60) DEF c
  <2>12. \A k \in Classes, p \in Parties : ~(Hit(c, k, p) /\ Hit(Fulfill, k, p))
    BY <1>3, ZenonT(60)
  <2>13. Fulfill \in Seq(S) /\ Shaped(Fulfill, ev)
    BY <1>1, <1>3, ZenonT(60)
  <2>14. Shaped(c \o Fulfill, ev)
    BY <1>5, <2>2, <2>11, <2>12, <2>13, ZenonT(60)
  <2> QED BY <2>1, <2>14, ZenonT(60)
<1>8. CASE ev = "split"
  <2> DEFINE a == done \o Both("trades")
             b == a \o Both("NEUTRAL")
  <2>1. Script(ev) = b \o Fulfill
    BY <1>8 DEF Script, OnSplit, done
  <2>2. ClassesOf(ev) = {"trades", "outcome"} /\ ev # "disputed"
    BY <1>8 DEF ClassesOf
  <2>3. Class("trades") = "trades" /\ Class("NEUTRAL") = "outcome"
    BY DEF Class, Verdicts
  <2>4. /\ Shaped(Both("trades"), ev) /\ Shaped(Both("NEUTRAL"), ev)
        /\ Both("trades") \in Seq(S) /\ Both("NEUTRAL") \in Seq(S)
        /\ \A k, p : Hit(Both("trades"), k, p) => k = "trades"
        /\ \A k, p : Hit(Both("NEUTRAL"), k, p) => k = "outcome"
    BY <1>1, <1>4, <2>2, <2>3, SmallShape, ZenonT(60)
  <2> HIDE DEF a, b
  <2>5. a \in Seq(S) /\ Shaped(a, ev) /\ \A k \in Classes, p \in Parties : Hit(a, k, p) => k = "trades"
    BY <1>1, <1>3, <1>5, <2>2, <2>4, ZenonT(60) DEF a
  <2>6. "trades" # "outcome"
    OBVIOUS
  <2>7. b \in Seq(S) /\ Shaped(b, ev)
    BY <1>5, <2>2, <2>4, <2>5, <2>6, ZenonT(60) DEF b
  <2>8. \A k \in Classes, p \in Parties : ~(Hit(b, k, p) /\ Hit(Fulfill, k, p))
    BY <1>3, ZenonT(60)
  <2>9. Fulfill \in Seq(S) /\ Shaped(Fulfill, ev)
    BY <1>1, <1>3, ZenonT(60)
  <2>10. Shaped(b \o Fulfill, ev)
    BY <1>5, <2>2, <2>7, <2>8, <2>9, ZenonT(60)
  <2> QED BY <2>1, <2>10, ZenonT(60)
<1>9. CASE ev = "refunded"
  <2> DEFINE q == OnRefunded
  <2>1. \A n \in 1..Len(q) : (n = 2 /\ q[n][1] = "judge") \/ q[n][1] \in Silent
    BY DEF OnRefunded, Silent
  <2>2. /\ \A s \in Silent : s \notin {"count", "judge", "publish"}
        /\ "judge" # "publish" /\ "judge" # "count"
    BY DEF Silent
  <2>3. Script(ev) = q /\ ClassesOf(ev) = {"outcome"}
    BY <1>9 DEF Script, ClassesOf
  <2> HIDE DEF q
  <2>4. \A n, k, p : n \in 1..Len(q) /\ Hits(q[n], k, p) => n = 2 /\ k = "outcome"
    BY <2>1, <2>2, ZenonT(60) DEF Hits
  <2>5. \A n \in 1..Len(q) : q[n][1] # "publish"
    BY <2>1, <2>2, ZenonT(60)
  <2> QED BY <2>3, <2>4, <2>5, ZenonT(60) DEF Shaped, OnceIn, Hit, LastOnly
<1>10. CASE ev = "trade.disputed"
  <2>1. Script(ev) = Both("disputes") /\ ClassesOf(ev) = {"disputes"} /\ Class("disputes") = "disputes"
    BY <1>10 DEF Script, OnTradeDisputed, ClassesOf, Class, Verdicts
  <2> QED BY <1>4, <2>1, SmallShape, ZenonT(60)
<1>11. CASE ev \in {"locked"} \cup Requests
  <2>1. \A n \in 1..Len(Script(ev)) : Script(ev)[n][1] \in Silent
    BY <1>11 DEF Script, Requests, OnLocked, CreateIntent, ProposeIntent, WithdrawIntent,
                 CreateTrade, ActivateTrade, CancelTrade, Silent
  <2> QED BY <2>1, SmallShape, ZenonT(60)
<1> QED BY <1>6, <1>7, <1>8, <1>9, <1>10, <1>11 DEF Events, EscrowEvents

\* The outcomes of a settlement count one for each party.
LEMMA OutcomeShape ==
  ASSUME NEW r, NEW d \in BOOLEAN
  PROVE  /\ OnceIn(Outcomes(r, d))
         /\ \A n \in 1..Len(Outcomes(r, d)) : Outcomes(r, d)[n][1] # "publish"
         /\ \A k, p : Hit(Outcomes(r, d), k, p) => k = "outcome"
<1>1. "POSITIVE" \in Stats /\ "NEUTRAL" \in Stats /\ Class("POSITIVE") = "outcome"
      /\ Class("NEUTRAL") = "outcome" /\ Class("NEGATIVE") = "outcome"
  BY DEF Stats, Verdicts, Class
<1>2. CASE d = FALSE
  <2>1. Outcomes(r, d) = Both("POSITIVE") \/ Outcomes(r, d) = Both("NEUTRAL")
    BY <1>2 DEF Outcomes
  <2> QED BY <1>1, <2>1, SmallShape, ZenonT(60)
<1>3. CASE d = TRUE
  <2> DEFINE q == Outcomes(r, d)
             w == IF r = "RELEASE" THEN "buyer" ELSE "seller"
             l == IF r = "RELEASE" THEN "seller" ELSE "buyer"
             For(n, p) == (n = 1 /\ p = w) \/ (n = 2 /\ p = l)
  <2>1. q = << <<"count", "POSITIVE", w>>, <<"count", "NEGATIVE", l>>, <<"vouches", l>> >>
    BY <1>3 DEF Outcomes
  <2>2. w # l
    OBVIOUS
  <2> HIDE DEF w, l, q
  <2>3. \A n \in 1..Len(q) :
           \/ n = 1 /\ q[n][1] = "count" /\ q[n][2] = "POSITIVE" /\ q[n][3] = w
           \/ n = 2 /\ q[n][1] = "count" /\ q[n][2] = "NEGATIVE" /\ q[n][3] = l
           \/ n = 3 /\ q[n][1] = "vouches"
    BY <2>1
  <2>4. "count" \notin {"judge", "publish"} /\ "vouches" \notin {"count", "judge", "publish"}
    OBVIOUS
  <2>5. \A n \in 1..Len(q) : q[n][1] # "publish"
    BY <2>3, <2>4, ZenonT(60)
  <2>6. \A n, k, p :
           n \in 1..Len(q) /\ Hits(q[n], k, p) => k = "outcome" /\ For(n, p)
    BY <1>1, <2>3, <2>4, ZenonT(60) DEF Hits
  <2> HIDE DEF For
  <2>7. OnceIn(q)
    <3>1. ASSUME NEW n \in 1..Len(q), NEW m \in 1..Len(q), NEW k \in Classes, NEW p \in Parties,
                 Hits(q[n], k, p), Hits(q[m], k, p)
          PROVE  n = m
      <4>1. For(n, p) /\ For(m, p)
        BY <2>6, <3>1, ZenonT(60)
      <4> QED BY <2>2, <4>1 DEF For
    <3> QED BY <3>1, ZenonT(60) DEF OnceIn
  <2>8. \A k, p : Hit(q, k, p) => k = "outcome"
    BY <2>6 DEF Hit
  <2> QED BY <2>5, <2>7, <2>8, ZenonT(60) DEF q
<1> QED BY ZenonT(60), <1>2, <1>3

\* A step of one flow that leaves the others alone and adds nothing to count.
Local(f) ==
  /\ UNCHANGED <<escrow, outbox, begun, faults>>
  /\ DOMAIN flow' \subseteq DOMAIN flow
  /\ \A g \in DOMAIN flow : g # f => g \in DOMAIN flow' /\ flow'[g] = flow[g]
  /\ f \in DOMAIN flow' =>
        /\ Shaped(flow'[f], f[4])
        /\ \A k \in Classes, p \in Parties : Hit(flow'[f], k, p) => Hit(flow[f], k, p)

\* The ways in which a flow goes on.
LEMMA LocalForms ==
  ASSUME QueuesOK, ShapeOK, NEW f \in DOMAIN flow, UNCHANGED <<escrow, outbox, begun, faults>>,
         \/ flow' = flow \/ flow' = Advanced(f) \/ flow' = Without(flow, {f})
         \/ \E s : /\ flow' = [flow EXCEPT ![f] = s \o Tail(flow[f])]
                   /\ Shaped(s \o Tail(flow[f]), f[4])
                   /\ \A k \in Classes, p \in Parties :
                         Hit(s \o Tail(flow[f]), k, p) => Hit(flow[f], k, p)
  PROVE  Local(f)
<1>1. flow[f] # <<>> /\ flow[f] \in Seq(Warranted(FlowTrade(f))) /\ Shaped(flow[f], f[4])
  BY DEF QueuesOK, FlowsWarranted, ShapeOK
<1>2. /\ Shaped(Tail(flow[f]), f[4])
      /\ \A k \in Classes, p \in Parties : Hit(Tail(flow[f]), k, p) => Hit(flow[f], k, p)
  BY <1>1, ShapeRest
<1>3. CASE flow' = flow
  BY <1>1, <1>3, ZenonT(60) DEF Local
<1>4. CASE flow' = Without(flow, {f})
  <2>1. /\ DOMAIN flow' = DOMAIN flow \ {f}
        /\ \A g \in DOMAIN flow' : flow'[g] = flow[g]
    BY <1>4 DEF Without
  <2> QED BY <2>1, ZenonT(60) DEF Local
<1>5. ASSUME NEW q, flow' = [flow EXCEPT ![f] = q], Shaped(q, f[4]),
             \A k \in Classes, p \in Parties : Hit(q, k, p) => Hit(flow[f], k, p)
      PROVE  Local(f)
  <2>1. /\ DOMAIN flow' = DOMAIN flow /\ flow'[f] = q
        /\ \A g \in DOMAIN flow : g # f => flow'[g] = flow[g]
    BY <1>5
  <2> QED BY <1>5, <2>1, ZenonT(60) DEF Local
<1>6. CASE flow' = Advanced(f)
  <2>1. flow' = Without(flow, {f}) \/ flow' = [flow EXCEPT ![f] = Tail(flow[f])]
    BY <1>6 DEF Advanced
  <2> QED BY <1>2, <1>4, <1>5, <2>1, ZenonT(60)
<1> QED BY <1>3, <1>4, <1>5, <1>6, ZenonT(60)

\* All but the publication of an event are such steps.
LEMMA LocalSteps ==
  ASSUME QueuesOK, ShapeOK, NEW f \in DOMAIN flow,
         \/ SetTrade(f) \/ Allow(f) \/ Count(f) \/ Judge(f) \/ FindVouches(f)
         \/ BurnVouch(f) \/ CallEngine(f)
  PROVE  Local(f)
<1>1. flow[f] # <<>> /\ flow[f] \in Seq(Warranted(FlowTrade(f))) /\ Shaped(flow[f], f[4])
  BY ZenonT(60) DEF QueuesOK, FlowsWarranted, ShapeOK
<1>2. /\ Shaped(Tail(flow[f]), f[4])
      /\ \A k \in Classes, p \in Parties :
            /\ Hit(Tail(flow[f]), k, p) => Hit(flow[f], k, p)
            /\ Hits(Step(f), k, p) => Hit(flow[f], k, p) /\ ~Hit(Tail(flow[f]), k, p)
  BY <1>1, ShapeRest DEF Step
<1>3. UNCHANGED <<escrow, outbox, begun, faults>>
  BY ZenonT(60) DEF SetTrade, Allow, Count, Judge, FindVouches, BurnVouch, CallEngine, rowVars
<1>4. CASE SetTrade(f) \/ Allow(f) \/ Count(f) \/ BurnVouch(f)
  <2>1. flow' = Advanced(f) \/ flow' = Without(flow, {f})
    BY ZenonT(60), <1>4 DEF SetTrade, Allow, Count, BurnVouch
  <2> QED BY ZenonT(60), <1>3, <2>1, LocalForms
<1>5. CASE CallEngine(f)
  <2>1. flow' = flow \/ flow' = Advanced(f) \/ flow' = Without(flow, {f})
    BY <1>5, ZenonT(60) DEF CallEngine
  <2> QED BY ZenonT(60), <1>3, <2>1, LocalForms
<1>6. ASSUME NEW S, NEW s \in Seq(S), Tail(flow[f]) \in Seq(S), OnceIn(s),
             flow' = [flow EXCEPT ![f] = s \o Tail(flow[f])],
             \A n \in 1..Len(s) : s[n][1] # "publish",
             \A k \in Classes, p \in Parties : Hit(s, k, p) => Hits(Step(f), k, p)
      PROVE  Local(f)
  <2>1. \A k \in Classes, p \in Parties :
           Hit(s, k, p) => k \in ClassesOf(f[4]) /\ ~Hit(Tail(flow[f]), k, p)
    BY <1>1, <1>2, <1>6, ZenonT(60) DEF Shaped
  <2>2. /\ Shaped(s \o Tail(flow[f]), f[4])
        /\ \A k \in Classes, p \in Parties :
              Hit(s \o Tail(flow[f]), k, p) => Hit(s, k, p) \/ Hit(Tail(flow[f]), k, p)
    <3>1. /\ s \in Seq(S) /\ Tail(flow[f]) \in Seq(S) /\ OnceIn(s) /\ Shaped(Tail(flow[f]), f[4])
          /\ \A n \in 1..Len(s) : s[n][1] # "publish"
      BY <1>2, <1>6, ZenonT(60)
    <3>2. Joinable(S, s, Tail(flow[f]), f[4])
      BY <2>1, <3>1, ZenonT(60) DEF Joinable
    <3>3. Joint(s, Tail(flow[f]), f[4])
      BY <3>2, Joining, ZenonT(60)
    <3> QED BY <3>3, ZenonT(60) DEF Joint
  <2>3. \A k \in Classes, p \in Parties : Hit(s \o Tail(flow[f]), k, p) => Hit(flow[f], k, p)
    BY <1>2, <1>6, <2>2, ZenonT(60)
  <2> QED BY ZenonT(60), <1>3, <1>6, <2>2, <2>3, LocalForms
<1> DEFINE W == Warranted(FlowTrade(f))
           B == {"burn", "count", "vouches"} \X Parties
                \cup ({"count"} \X Stats \X Parties)
<1>7. Tail(flow[f]) \in Seq(W \cup B)
  BY <1>1
<1>8. CASE Judge(f)
  <2> DEFINE s == Outcomes(Step(f)[2], ruling[FlowTrade(f)] = Step(f)[2])
  <2>1. flow' = [flow EXCEPT ![f] = s \o Tail(flow[f])]
    BY <1>8, ZenonT(60) DEF Judge
  <2>2. s \in Seq(W \cup B)
    <3>1. s \in Seq(B)
      <4>1. \A p \in Parties, st \in Stats : <<"count", st, p>> \in B /\ <<"vouches", p>> \in B
        OBVIOUS
      <4>2. "buyer" \in Parties /\ "seller" \in Parties /\ Verdicts \subseteq Stats
        BY DEF Parties, Stats
      <4> HIDE DEF B
      <4>3. ASSUME NEW p \in Parties, NEW u \in Parties
            PROVE  << <<"count", "POSITIVE", u>>, <<"count", "NEGATIVE", p>>, <<"vouches", p>> >> \in Seq(B)
        <5>1. <<"count", "POSITIVE", u>> \in B /\ <<"count", "NEGATIVE", p>> \in B /\ <<"vouches", p>> \in B
          BY ZenonT(60), <4>1, <4>2 DEF Verdicts
        <5> QED BY <5>1
      <4>4. ASSUME NEW st \in Stats
            PROVE  Both(st) \in Seq(B)
        <5>1. <<"count", st, "buyer">> \in B /\ <<"count", st, "seller">> \in B
          BY ZenonT(60), <4>1, <4>2
        <5> QED BY <5>1 DEF Both
      <4>5. "POSITIVE" \in Stats /\ "NEUTRAL" \in Stats
        BY DEF Stats, Verdicts
      <4> QED BY <4>2, <4>3, <4>4, <4>5, ZenonT(60) DEF Outcomes
    <3> QED BY <3>1
  <2>3. (ruling[FlowTrade(f)] = Step(f)[2]) \in BOOLEAN
    OBVIOUS
  <2>4. /\ OnceIn(s) /\ \A n \in 1..Len(s) : s[n][1] # "publish"
        /\ \A k, p : Hit(s, k, p) => k = "outcome"
    BY ZenonT(60), <2>3, OutcomeShape
  <2>5. \A k \in Classes, p \in Parties : Hit(s, k, p) => Hits(Step(f), k, p)
    BY <1>8, <2>4, ZenonT(60) DEF Judge, Hits
  <2> HIDE DEF s, W, B
  <2> QED BY ZenonT(60), <1>6, <1>7, <2>1, <2>2, <2>4, <2>5
<1>9. CASE FindVouches(f)
  <2> DEFINE s == << <<"burn", Step(f)[2]>> >>
  <2>1. CASE Step(f)[2] \in vouched
    <3>1. flow' = [flow EXCEPT ![f] = s \o Tail(flow[f])]
      BY <1>9, <2>1, ZenonT(60) DEF FindVouches
    <3>2. \A n \in 1..Len(s) : s[n][1] \in Silent
      BY DEF Silent
    <3>3. s \in Seq({<<"burn", Step(f)[2]>>} \cup W)
      OBVIOUS
    <3>4. Tail(flow[f]) \in Seq({<<"burn", Step(f)[2]>>} \cup W)
      BY <1>1
    <3>5. /\ OnceIn(s) /\ \A n \in 1..Len(s) : s[n][1] # "publish"
          /\ \A k, p : ~Hit(s, k, p)
      BY <3>2, SmallShape, ZenonT(60) DEF Shaped
    <3> HIDE DEF s, W, B
    <3> QED BY ZenonT(60), <1>6, <3>1, <3>3, <3>4, <3>5
  <2>2. CASE Step(f)[2] \notin vouched
    <3>1. flow' = Advanced(f)
      BY <1>9, <2>2 DEF FindVouches
    <3> QED BY ZenonT(60), <1>3, <3>1, LocalForms
  <2> QED BY <2>1, <2>2
<1> QED BY ZenonT(60), <1>4, <1>5, <1>8, <1>9

\* What has stopped running or waiting leaves the rest as it was.
LEMMA OnceLess ==
  ASSUME EscrowOnce, DisputeOnce, RequestOnce, escrow' = escrow, outbox' \subseteq outbox,
         DOMAIN flow' \subseteq DOMAIN flow, begun \subseteq begun'
  PROVE  EscrowOnce' /\ DisputeOnce' /\ RequestOnce'
<1>1. EscrowOnce'
  BY ZenonT(60) DEF EscrowOnce, Same
<1>2. DisputeOnce' /\ RequestOnce'
  BY ZenonT(60) DEF DisputeOnce, RequestOnce
<1> QED BY <1>1, <1>2

\* The step of one flow concerns its own call only.
LEMMA CallsLocal ==
  ASSUME CallsOK, NEW f \in DOMAIN flow, Local(f), DOMAIN move' \subseteq DOMAIN move \cup {f},
         f \in DOMAIN move' => f \in DOMAIN flow' /\ Head(flow'[f])[1] \in {"intent", "insert"}
  PROVE  CallsOK'
BY ZenonT(60) DEF CallsOK, Step, Local

\* A flow that goes on keeps everything once.
LEMMA OnceLocal ==
  ASSUME QueuesOK, Once, NEW f \in DOMAIN flow,
         \/ SetTrade(f) \/ Allow(f) \/ Count(f) \/ Judge(f) \/ FindVouches(f)
         \/ BurnVouch(f) \/ CallEngine(f)
  PROVE  Once'
<1>1. Local(f)
  BY LocalSteps, ZenonT(60) DEF Once
<1>2. EscrowOnce' /\ DisputeOnce' /\ RequestOnce'
  <2>1. /\ escrow' = escrow /\ outbox' \subseteq outbox /\ begun \subseteq begun'
        /\ DOMAIN flow' \subseteq DOMAIN flow
    BY <1>1 DEF Local
  <2> QED BY <2>1, OnceLess, ZenonT(60) DEF Once
<1>3. ShapeOK'
  BY <1>1, ZenonT(60) DEF Once, ShapeOK, Local
<1>4. CASE \/ SetTrade(f) \/ Allow(f) \/ Count(f) \/ Judge(f) \/ FindVouches(f) \/ BurnVouch(f)
  <2>1. Step(f)[1] \notin {"intent", "insert"} /\ move' = move
    BY ZenonT(60), <1>4 DEF SetTrade, Allow, Count, Judge, FindVouches, BurnVouch, engineVars
  <2>2. f \notin DOMAIN move'
    BY <2>1, ZenonT(60) DEF Once, CallsOK
  <2>3. CallsOK'
    BY <1>1, <2>1, <2>2, CallsLocal, ZenonT(60) DEF Once
  <2> QED BY <1>2, <1>3, <2>3, ZenonT(60) DEF Once
<1>5. CASE CallEngine(f)
  <2>1. ASSUME flow' = flow, DOMAIN move' \subseteq DOMAIN move \cup {f},
               Step(f)[1] \in {"intent", "insert"}
        PROVE  CallsOK'
    BY <1>1, <2>1, CallsLocal, ZenonT(60) DEF Once, Step
  <2>2. ASSUME DOMAIN move' \subseteq DOMAIN move, f \notin DOMAIN move'
        PROVE  CallsOK'
    BY <1>1, <2>2, CallsLocal, ZenonT(60) DEF Once
  <2>3. f \in DOMAIN move => Step(f)[1] \in {"intent", "insert"}
    BY ZenonT(60) DEF Once, CallsOK
  <2>4. ASSUME (Step(f)[1] = "intent" /\ Engine!ReadIntent(f, Step(f)[2]) /\ flow' = flow)
               \/ (Step(f)[1] = "insert" /\ Engine!InsertIntent(f) /\ flow' = flow)
        PROVE  CallsOK'
    <3>1. DOMAIN move' = DOMAIN move \cup {f}
      BY ZenonT(60), <2>4 DEF Engine!ReadIntent, Engine!InsertIntent, Engine!Called
    <3> QED BY <2>1, <2>4, <3>1
  <2>5. ASSUME (Engine!ClaimTransition(f) \/ Engine!FindLastEvent(f)) /\ flow' = flow
        PROVE  CallsOK'
    <3>1. DOMAIN move' = DOMAIN move /\ f \in DOMAIN move
      BY <2>5 DEF Engine!ClaimTransition, Engine!FindLastEvent, Engine!Goto, Engine!At
    <3> QED BY ZenonT(60), <2>1, <2>3, <2>5, <3>1
  <2>6. ASSUME Engine!CreateEvent(f) \/ Engine!LoseClaim(f)
        PROVE  CallsOK'
    <3>1. DOMAIN move' = DOMAIN move \ {f}
      BY ZenonT(60), <2>6 DEF Engine!CreateEvent, Engine!LoseClaim, Engine!Ended
    <3> QED BY ZenonT(60), <2>2, <3>1
  <2>7. ASSUME Engine!RefuseTransition(f, Step(f)[2])
        PROVE  CallsOK'
    <3>1. move' = move /\ f \notin DOMAIN move
      BY <2>7 DEF Engine!RefuseTransition, Engine!Idle, Engine!engineVars
    <3> QED BY ZenonT(60), <2>2, <3>1
  <2>8. CallsOK'
    BY <1>5, <2>4, <2>5, <2>6, <2>7, ZenonT(60) DEF CallEngine
  <2> QED BY <1>2, <1>3, <2>8, ZenonT(60) DEF Once
<1> QED BY <1>4, <1>5

\* An escrow raises an event once, and never leaves the statuses that follow it.
LEMMA RaisedOnce ==
  ASSUME NEW from \in Statuses, NEW to \in VALID_TRANSITIONS[from]
  PROVE  /\ \A ev \in EscrowEvents : from \in After(ev) => to \in After(ev)
         /\ \A ev \in EventOf(to) : ev \in EscrowEvents /\ from \notin After(ev) /\ to \in After(ev)
         /\ from \notin TerminalStatuses
<1>1. from \notin TerminalStatuses /\ to # "CREATED" /\ to \in Statuses
  BY DEF VALID_TRANSITIONS, Statuses, TerminalStatuses
<1>2. \A ev \in EscrowEvents : from \in After(ev) => to \in After(ev)
  <2>1. from = "DISPUTED" => to \in TerminalStatuses
    BY DEF VALID_TRANSITIONS, Statuses, TerminalStatuses
  <2>2. TerminalStatuses = {"COMPLETED", "REFUNDED", "SPLIT"}
    BY DEF TerminalStatuses
  <2> QED BY <1>1, <2>1, <2>2 DEF After, EscrowEvents
<1>3. \A ev \in EventOf(to) : ev \in EscrowEvents /\ from \notin After(ev) /\ to \in After(ev)
  <2>1. CASE to = "FUNDS_LOCKED"
    <3>1. from = "CREATED" /\ EventOf(to) = {"locked"}
      BY <2>1 DEF VALID_TRANSITIONS, Statuses, EventOf
    <3> QED BY <2>1, <3>1 DEF After, EscrowEvents, Statuses
  <2>2. CASE to = "DISPUTED"
    <3>1. EventOf(to) = {"disputed"} /\ from # "DISPUTED"
      BY <2>2 DEF VALID_TRANSITIONS, Statuses, EventOf
    <3> QED BY <1>1, <2>2, <3>1 DEF After, EscrowEvents
  <2>3. CASE to \in TerminalStatuses
    <3>1. to = "COMPLETED" => EventOf(to) = {"released"}
      BY DEF EventOf
    <3>2. to = "REFUNDED" => EventOf(to) = {"refunded"}
      BY DEF EventOf
    <3>3. to = "SPLIT" => EventOf(to) = {"split"}
      BY DEF EventOf
    <3> QED BY <1>1, <2>3, <3>1, <3>2, <3>3 DEF After, EscrowEvents, TerminalStatuses
  <2>4. CASE to \notin {"FUNDS_LOCKED", "DISPUTED"} \cup TerminalStatuses
    BY <2>4 DEF EventOf, TerminalStatuses
  <2> QED BY <2>1, <2>2, <2>3, <2>4
<1> QED BY <1>1, <1>2, <1>3

\* A settlement raises an event that was not about before.
LEMMA OnceSettle ==
  ASSUME FlowsOK, RulingsOK, Once, NEW i \in Instances, NEW t \in Trades, NEW to \in Statuses,
         EscrowMoves(i, t, to)
  PROVE  Once'
<1>1. /\ UNCHANGED <<flow, begun, move>> /\ escrow[t] \in Statuses
      /\ to \in VALID_TRANSITIONS[escrow[t]] /\ outbox' = outbox \cup ({i} \X {t} \X EventOf(to))
      /\ escrow'[t] = to /\ \A u \in Trades : u # t => escrow'[u] = escrow[u]
  BY DEF EscrowMoves, RulingsOK, engineVars
<1>2. /\ \A ev \in EscrowEvents, u \in Trades : escrow[u] \in After(ev) => escrow'[u] \in After(ev)
      /\ \A ev \in EventOf(to) : ev \in EscrowEvents /\ escrow[t] \notin After(ev) /\ to \in After(ev)
  BY ZenonT(60), <1>1, RaisedOnce
<1>3. \A p \in outbox' : p \in outbox \/ (p = <<i, t, p[3]>> /\ p[2] = t /\ p[3] \in EventOf(to))
  BY <1>1
<1>4. /\ \A p \in outbox : p[2] \in Trades /\ p[3] \in EscrowEvents
      /\ \A f \in DOMAIN flow : f[3] \in Trades
  BY DEF FlowsOK, Flows
<1>5. \A p \in outbox : ~(p[2] = t /\ p[3] \in EventOf(to))
  BY <1>2, ZenonT(60) DEF Once, EscrowOnce
<1>6. \A p \in outbox' : escrow'[p[2]] \in After(p[3])
  BY <1>1, <1>2, <1>3, <1>4, ZenonT(60) DEF Once, EscrowOnce
<1>7. \A p, q \in outbox' : p[2] = q[2] /\ p[3] = q[3] => p = q
  <2> SUFFICES ASSUME NEW p \in outbox', NEW q \in outbox', p[2] = q[2], p[3] = q[3]
               PROVE  p = q
    BY ZenonT(60)
  <2>1. CASE p \in outbox /\ q \in outbox
    BY <2>1, ZenonT(60) DEF Once, EscrowOnce
  <2>2. CASE p = <<i, t, p[3]>> /\ q = <<i, t, q[3]>>
    BY <2>2, ZenonT(60)
  <2> QED BY <1>3, <1>5, <2>1, <2>2, ZenonT(60)
<1>8. \A f \in DOMAIN flow : f[4] \in EscrowEvents =>
        /\ escrow'[f[3]] \in After(f[4])
        /\ \A p \in outbox' : ~(p[2] = f[3] /\ p[3] = f[4])
        /\ \A g \in DOMAIN flow : Same(f, g) => g[2] = f[2]
  BY <1>2, <1>3, <1>4, ZenonT(60) DEF Once, EscrowOnce
<1>9. EscrowOnce'
  BY <1>1, <1>6, <1>7, <1>8, ZenonT(60) DEF EscrowOnce, Same
<1>10. "disputed" \in EscrowEvents
  BY DEF EscrowEvents
<1>11. DisputeOnce'
  BY <1>1, <1>2, <1>3, <1>4, <1>10, ZenonT(60) DEF Once, DisputeOnce
<1>12. RequestOnce' /\ CallsOK' /\ ShapeOK'
  BY <1>1, ZenonT(60) DEF Once, RequestOnce, CallsOK, ShapeOK, Step
<1> QED BY <1>9, <1>11, <1>12, ZenonT(60) DEF Once

\* Flows that start leave the calls of the others, and have the shape of their scripts.
LEMMA OnceStarted ==
  ASSUME CallsOK, ShapeOK, NEW fl, NEW fs \in SUBSET Flows, flow' = Started(fs, fl),
         DOMAIN fl \subseteq DOMAIN flow, \A g \in DOMAIN fl : fl[g] = flow[g],
         \A g \in fs : g \notin DOMAIN fl, move' = move, DOMAIN move \subseteq DOMAIN fl
  PROVE  CallsOK' /\ ShapeOK' /\ DOMAIN flow' = DOMAIN fl \cup fs
<1>1. /\ DOMAIN flow' = DOMAIN fl \cup fs
      /\ \A g \in fs : flow'[g] = Script(g[4])
      /\ \A g \in DOMAIN fl : flow'[g] = flow[g]
  BY DEF Started
<1>2. \A g \in fs : g[4] \in Events \cup Requests
  BY DEF Flows
<1>3. \A g \in fs : Shaped(Script(g[4]), g[4])
  BY <1>2, ScriptShape, ZenonT(60)
<1>4. ShapeOK'
  BY <1>1, <1>3, ZenonT(60) DEF ShapeOK
<1>5. CallsOK'
  BY <1>1, ZenonT(60) DEF CallsOK, Step
<1> QED BY <1>1, <1>4, <1>5

\* The handlers of a settlement event start where none of them runs.
LEMMA OncePublish ==
  ASSUME FlowsOK, Once, NEW p \in outbox, PublishEscrowEvent(p)
  PROVE  Once'
<1> DEFINE fs == Instances \X {p[1]} \X {p[2]} \X {p[3]}
<1>1. /\ flow' = Started(fs, flow) /\ outbox' = outbox \ {p}
      /\ escrow' = escrow /\ begun' = begun /\ move' = move
  BY DEF PublishEscrowEvent, Published, rowVars, engineVars
<1>2. /\ fs \in SUBSET Flows /\ p[3] \in EscrowEvents
      /\ \A g \in fs : g[2] = p[1] /\ g[3] = p[2] /\ g[4] = p[3]
  BY DEF FlowsOK, Flows, Events
<1>3. p[3] # "trade.disputed" /\ p[3] \notin Requests
  BY <1>2 DEF EscrowEvents, Requests
<1> HIDE DEF fs
<1>4. \A g \in DOMAIN flow : ~(g[3] = p[2] /\ g[4] = p[3])
  BY <1>2, ZenonT(60) DEF Once, EscrowOnce
<1>5. \A g \in fs : g \notin DOMAIN flow
  BY <1>2, <1>4, ZenonT(60)
<1>6. DOMAIN move \subseteq DOMAIN flow
  BY ZenonT(60) DEF Once, CallsOK
<1>7. CallsOK' /\ ShapeOK' /\ DOMAIN flow' = DOMAIN flow \cup fs
  BY <1>1, <1>2, <1>5, <1>6, OnceStarted, ZenonT(60) DEF Once
<1>8. /\ \A q \in outbox' : escrow'[q[2]] \in After(q[3])
      /\ \A q, r \in outbox' : q[2] = r[2] /\ q[3] = r[3] => q = r
  BY <1>1, ZenonT(60) DEF Once, EscrowOnce
<1>9. ASSUME NEW f \in DOMAIN flow', f[4] \in EscrowEvents
      PROVE  /\ escrow'[f[3]] \in After(f[4])
             /\ \A q \in outbox' : ~(q[2] = f[3] /\ q[3] = f[4])
             /\ \A g \in DOMAIN flow' : Same(f, g) => g[2] = f[2]
  <2>1. CASE f \in DOMAIN flow
    <3>1. \A g \in fs : ~Same(f, g)
      BY <1>2, <1>4, <2>1, ZenonT(60) DEF Same
    <3> QED BY <1>1, <1>7, <1>9, <2>1, <3>1, ZenonT(60) DEF Once, EscrowOnce
  <2>2. CASE f \in fs
    <3>1. f[2] = p[1] /\ f[3] = p[2] /\ f[4] = p[3]
      BY <1>2, <2>2, ZenonT(60)
    <3>2. \A q \in outbox' : ~(q[2] = f[3] /\ q[3] = f[4])
      BY <1>1, <3>1, ZenonT(60) DEF Once, EscrowOnce
    <3>3. \A g \in DOMAIN flow' : Same(f, g) => g[2] = f[2]
      BY <1>2, <1>4, <1>7, <3>1, ZenonT(60) DEF Same
    <3>4. escrow'[f[3]] \in After(f[4])
      BY <1>1, <3>1, ZenonT(60) DEF Once, EscrowOnce
    <3> QED BY <3>2, <3>3, <3>4
  <2> QED BY <1>7, <2>1, <2>2, ZenonT(60)
<1>10. EscrowOnce'
  BY <1>8, <1>9, ZenonT(60) DEF EscrowOnce, Same
<1>11. DisputeOnce'
  <2> SUFFICES ASSUME NEW f \in DOMAIN flow', f[4] = "trade.disputed"
               PROVE  /\ escrow'[f[3]] \in After("disputed")
                      /\ \A q \in outbox' : ~(q[2] = f[3] /\ q[3] = "disputed")
                      /\ \A g \in DOMAIN flow' : g[3] = f[3] /\ g[4] = "disputed" => g[1] # f[2]
    BY ZenonT(60) DEF DisputeOnce
  <2>1. f \in DOMAIN flow
    BY <1>2, <1>3, <1>7, ZenonT(60)
  <2>2. \A g \in fs : ~(g[3] = f[3] /\ g[4] = "disputed")
    BY <1>2, <2>1, ZenonT(60) DEF Once, DisputeOnce
  <2> QED BY <1>1, <1>7, <2>1, <2>2, ZenonT(60) DEF Once, DisputeOnce
<1>12. RequestOnce'
  BY <1>1, <1>2, <1>3, <1>7, ZenonT(60) DEF Once, RequestOnce
<1> QED BY <1>7, <1>10, <1>11, <1>12, ZenonT(60) DEF Once

\* A request is made once per trade.
LEMMA OnceRequest ==
  ASSUME FlowsOK, Once, NEW i \in Instances, NEW t \in Trades, NEW r \in Calls, StartRequest(i, t, r)
  PROVE  Once'
<1> DEFINE f == <<i, i, t, r>>
<1>1. /\ flow' = Started({f}, flow) /\ outbox' = outbox /\ escrow' = escrow
      /\ begun' = begun \cup {<<t, r>>} /\ move' = move /\ <<t, r>> \notin begun
  BY DEF StartRequest, rowVars, engineVars
<1>2. {f} \in SUBSET Flows /\ f[3] = t /\ f[4] = r /\ r \in Requests
  BY CallsAssumption DEF Flows
<1>3. r \notin EscrowEvents /\ r # "trade.disputed" /\ r # "disputed"
  BY <1>2 DEF EscrowEvents, Requests
<1> HIDE DEF f
<1>4. f \notin DOMAIN flow
  BY <1>1, <1>2, ZenonT(60) DEF Once, RequestOnce
<1>5. DOMAIN move \subseteq DOMAIN flow
  BY ZenonT(60) DEF Once, CallsOK
<1>6. \A g \in {f} : g \notin DOMAIN flow
  BY <1>4
<1>7. CallsOK' /\ ShapeOK' /\ DOMAIN flow' = DOMAIN flow \cup {f}
  BY <1>1, <1>2, <1>5, <1>6, OnceStarted, ZenonT(60) DEF Once
<1>8. EscrowOnce'
  BY <1>1, <1>2, <1>3, <1>7, ZenonT(60) DEF Once, EscrowOnce, Same
<1>9. DisputeOnce'
  BY <1>1, <1>2, <1>3, <1>7, ZenonT(60) DEF Once, DisputeOnce
<1>10. RequestOnce'
  BY <1>1, <1>2, <1>7, ZenonT(60) DEF Once, RequestOnce
<1> QED BY <1>7, <1>8, <1>9, <1>10, ZenonT(60) DEF Once

\* The handler that publishes the trade's dispute ends with it.
LEMMA DisputeEnds ==
  ASSUME QueuesOK, ShapeOK, NEW f \in DOMAIN flow, PublishTradeEvent(f)
  PROVE  f[4] = "disputed" /\ Advanced(f) = Without(flow, {f})
<1>1. flow[f] # <<>> /\ flow[f] \in Seq(Warranted(FlowTrade(f))) /\ Shaped(flow[f], f[4])
  BY DEF QueuesOK, FlowsWarranted, ShapeOK
<1>2. Head(flow[f])[1] = "publish"
  BY DEF PublishTradeEvent, Step
<1>3. Len(flow[f]) = 1 /\ f[4] = "disputed"
  BY <1>1, <1>2, ShapeRest
<1> QED BY <1>3 DEF Advanced

\* It does so where no handler runs that it started before.
LEMMA OnceDispute ==
  ASSUME FlowsOK, QueuesOK, Once, NEW f \in DOMAIN flow, PublishTradeEvent(f)
  PROVE  Once'
<1> DEFINE fs == Instances \X {f[1]} \X {f[3]} \X {"trade.disputed"}
           fl == Without(flow, {f})
<1>1. f[4] = "disputed" /\ Advanced(f) = fl
  BY DisputeEnds DEF Once
<1>2. /\ flow' = Started(fs, fl) /\ UNCHANGED <<outbox, escrow, begun, move>>
  BY <1>1 DEF PublishTradeEvent, Published, rowVars, engineVars, FlowInstance, FlowTrade
<1>3. /\ fs \in SUBSET Flows
      /\ \A g \in fs : g[2] = f[1] /\ g[3] = f[3] /\ g[4] = "trade.disputed"
  BY DEF FlowsOK, Flows, Events
<1>4. DOMAIN fl = DOMAIN flow \ {f} /\ \A g \in DOMAIN fl : fl[g] = flow[g]
  BY DEF Without
<1>5. "trade.disputed" \notin EscrowEvents \cup Requests /\ "disputed" \in EscrowEvents
      /\ "trade.disputed" # "disputed"
  BY DEF EscrowEvents, Requests
<1>6. Step(f)[1] \notin {"intent", "insert"}
  BY DEF PublishTradeEvent
<1>7. \A g \in DOMAIN flow : g = <<g[1], g[2], g[3], g[4]>>
  BY DEF FlowsOK, Flows
<1> HIDE DEF fs, fl
<1>8. \A g \in fs : g \notin DOMAIN fl
  BY <1>1, <1>3, <1>4, ZenonT(60) DEF Once, DisputeOnce
<1>9. DOMAIN move \subseteq DOMAIN fl
  BY <1>4, <1>6, ZenonT(60) DEF Once, CallsOK
<1>10. CallsOK' /\ ShapeOK' /\ DOMAIN flow' = DOMAIN fl \cup fs
  BY <1>2, <1>3, <1>4, <1>8, <1>9, OnceStarted, ZenonT(60) DEF Once
<1>11. EscrowOnce'
  BY <1>2, <1>3, <1>4, <1>5, <1>10, ZenonT(60) DEF Once, EscrowOnce, Same
<1>12. RequestOnce'
  BY <1>2, <1>3, <1>4, <1>5, <1>10, ZenonT(60) DEF Once, RequestOnce
<1>13. ASSUME NEW h \in DOMAIN flow', h[4] = "trade.disputed"
       PROVE  /\ escrow'[h[3]] \in After("disputed")
              /\ \A q \in outbox' : ~(q[2] = h[3] /\ q[3] = "disputed")
              /\ \A g \in DOMAIN flow' : g[3] = h[3] /\ g[4] = "disputed" => g[1] # h[2]
  <2>1. \A g \in fs : g[4] # "disputed"
    BY <1>3, <1>5, ZenonT(60)
  <2>2. CASE h \in DOMAIN flow
    BY <1>2, <1>4, <1>10, <1>13, <2>1, <2>2, ZenonT(60) DEF Once, DisputeOnce
  <2>3. CASE h \in fs
    <3>1. h[2] = f[1] /\ h[3] = f[3]
      BY <1>3, <2>3, ZenonT(60)
    <3>2. /\ escrow'[h[3]] \in After("disputed")
          /\ \A q \in outbox' : ~(q[2] = h[3] /\ q[3] = "disputed")
      BY <1>1, <1>2, <1>5, <3>1, ZenonT(60) DEF Once, EscrowOnce
    <3>3. ASSUME NEW g \in DOMAIN flow', g[3] = h[3], g[4] = "disputed", g[1] = h[2]
          PROVE  FALSE
      <4>1. g \in DOMAIN flow /\ g # f
        BY <1>4, <1>10, <2>1, <3>3, ZenonT(60)
      <4>2. Same(f, g)
        BY <1>1, <3>1, <3>3, ZenonT(60) DEF Same
      <4>3. g[2] = f[2]
        BY <1>1, <1>5, <4>1, <4>2, ZenonT(60) DEF Once, EscrowOnce
      <4> QED BY <1>1, <1>7, <3>1, <3>3, <4>1, <4>3, ZenonT(60)
    <3> QED BY <3>2, <3>3, ZenonT(60)
  <2> QED BY <1>4, <1>10, <2>2, <2>3, ZenonT(60)
<1>14. DisputeOnce'
  BY <1>13, ZenonT(60) DEF DisputeOnce
<1> QED BY <1>10, <1>11, <1>12, <1>14, ZenonT(60) DEF Once

\* What a stop or a rejected query leaves still runs once.
LEMMA OnceAbandon ==
  ASSUME Once, NEW fs, Abandoned(fs), outbox' \subseteq outbox
  PROVE  Once'
<1>1. /\ escrow' = escrow /\ begun' = begun
      /\ DOMAIN flow' = DOMAIN flow \ fs /\ \A g \in DOMAIN flow' : flow'[g] = flow[g]
      /\ DOMAIN move' = DOMAIN move \ fs
  BY DEF Abandoned, rowVars, Without, Engine!Abandon, Engine!Ended
<1>2. EscrowOnce' /\ DisputeOnce' /\ RequestOnce'
  BY <1>1, OnceLess, ZenonT(60) DEF Once
<1>3. CallsOK' /\ ShapeOK'
  BY <1>1, ZenonT(60) DEF Once, CallsOK, ShapeOK, Step
<1> QED BY <1>2, <1>3, ZenonT(60) DEF Once

\* A stop is a case of it.
LEMMA StopAbandons ==
  ASSUME NEW i, Stop(i)
  PROVE  outbox' \subseteq outbox /\ \E fs : Abandoned(fs)
<1>1. PICK late : Abandoned({f \in DOMAIN flow : FlowInstance(f) = i} \ late)
  BY ZenonT(60) DEF Stop
<1>2. outbox' \subseteq outbox
  BY DEF Stop
<1> QED BY <1>1, <1>2, ZenonT(60)

\* Every step keeps everything once.
LEMMA OnceKept ==
  ASSUME FlowsOK, WInv, Once, [Next]_vars
  PROVE  Once'
<1>0. RulingsOK /\ QueuesOK
  BY DEF WInv
<1>1. CASE UNCHANGED <<escrow, outbox, flow, begun, move>>
  BY <1>1, ZenonT(60) DEF Once, EscrowOnce, DisputeOnce, RequestOnce, CallsOK, ShapeOK, Same, Step
<1>2. ASSUME NEW t \in Trades, Unrule(t) \/ \E r \in Rulings : Rule(t, r)
      PROVE  Once'
  BY <1>1, <1>2 DEF Unrule, Rule, engineVars
<1>3. ASSUME NEW f \in DOMAIN flow, FlowStep(f)
      PROVE  Once'
  BY <1>0, <1>3, OnceLocal, OnceDispute, ZenonT(60) DEF FlowStep
<1>4. ASSUME NEW f \in DOMAIN flow, RejectFlow(f)
      PROVE  Once'
  BY <1>4, OnceAbandon DEF RejectFlow
<1>5. ASSUME NEW i \in Instances, Stop(i)
      PROVE  Once'
  BY <1>5, StopAbandons, OnceAbandon, ZenonT(60)
<1>6. CASE UNCHANGED vars
  BY <1>1, <1>6 DEF vars, rowVars, engineVars
<1> QED BY <1>0, <1>2, <1>3, <1>4, <1>5, <1>6, OnceSettle, OnceRequest, OncePublish, ZenonT(60)
        DEF Next

-----------------------------------------------------------------------------
(* Where handlers run at one instance.                                     *)

OneInstance == \A i, j \in Instances : i = j

Uncounted(t, k, p) == \A s \in Stats : Class(s) = k => tally[<<t, s, p>>] = 0

\* What is still to be counted was not counted before.
TallyOK ==
  /\ \A t \in Trades, s \in Stats, p \in Parties : tally[<<t, s, p>>] \in {0, 1}
  /\ \A t \in Trades, s, u \in Stats, p \in Parties :
        Class(s) = Class(u) /\ tally[<<t, s, p>>] # 0 /\ tally[<<t, u, p>>] # 0 => s = u
  /\ \A f \in DOMAIN flow, k \in Classes, p \in Parties : Hit(flow[f], k, p) => Uncounted(f[3], k, p)
  /\ \A q \in outbox, p \in Parties : \A k \in ClassesOf(q[3]) : Uncounted(q[2], k, p)
  /\ \A t \in Trades, p \in Parties :
        /\ escrow[t] \notin TerminalStatuses =>
              \A k \in {"trades", "fees", "outcome"} : Uncounted(t, k, p)
        /\ escrow[t] \notin After("disputed") => Uncounted(t, "disputes", p)

\* Which events count what.
LEMMA ClassEvents ==
  ASSUME NEW ev, NEW k \in ClassesOf(ev)
  PROVE  /\ k \in Classes
         /\ \/ k = "disputes" /\ ev \in {"disputed", "trade.disputed"}
            \/ k # "disputes" /\ ev \in {"released", "split", "refunded"}
BY ZenonT(60) DEF ClassesOf, Classes

\* At most one flow of a trade is to count a statistic, and no event that waits is.
LEMMA Alone ==
  ASSUME FlowsOK, Once, OneInstance, NEW f \in DOMAIN flow, NEW k \in ClassesOf(f[4])
  PROVE  /\ \A g \in DOMAIN flow : g[3] = f[3] /\ k \in ClassesOf(g[4]) => g = f
         /\ \A q \in outbox : q[2] = f[3] => k \notin ClassesOf(q[3])
         /\ k = "disputes" => escrow[f[3]] \in After("disputed")
         /\ k # "disputes" => escrow[f[3]] \in TerminalStatuses
<1> DEFINE Ends == {"released", "split", "refunded"}
<1>1. \/ k = "disputes" /\ f[4] \in {"disputed", "trade.disputed"}
      \/ k # "disputes" /\ f[4] \in Ends
  BY ClassEvents
<1>2. /\ \A ev \in Ends : ev \in EscrowEvents /\ After(ev) \subseteq TerminalStatuses
      /\ \A e, h, s : e \in Ends /\ h \in Ends /\ s \in After(e) /\ s \in After(h) => e = h
      /\ "disputed" \in EscrowEvents
  BY DEF After, EscrowEvents, TerminalStatuses
<1>3. \A g, h \in DOMAIN flow : g[1] = h[2] /\ g[1] = h[1] /\ g[2] = h[2]
  BY DEF FlowsOK, Flows, OneInstance
<1>4. \A g, h \in DOMAIN flow : g[3] = h[3] /\ g[4] = h[4] => g = h
  <2>1. \A g \in DOMAIN flow : g = <<g[1], g[2], g[3], g[4]>>
    BY DEF FlowsOK, Flows
  <2> QED BY <1>3, <2>1, ZenonT(60)
<1> HIDE DEF Ends
<1>5. CASE k # "disputes"
  <2>1. f[4] \in Ends /\ escrow[f[3]] \in After(f[4])
    BY <1>1, <1>2, <1>5, ZenonT(60) DEF Once, EscrowOnce
  <2>2. \A ev : k \in ClassesOf(ev) => ev \in Ends
    BY <1>5, ClassEvents DEF Ends
  <2>3. ASSUME NEW g \in DOMAIN flow, g[3] = f[3], k \in ClassesOf(g[4])
        PROVE  g = f
    <3>1. g[4] \in Ends /\ escrow[f[3]] \in After(g[4])
      BY <1>2, <2>2, <2>3, ZenonT(60) DEF Once, EscrowOnce
    <3> QED BY <1>2, <1>4, <2>1, <2>3, <3>1, ZenonT(60)
  <2>4. ASSUME NEW q \in outbox, q[2] = f[3], k \in ClassesOf(q[3])
        PROVE  FALSE
    <3>1. q[3] \in Ends /\ escrow[f[3]] \in After(q[3])
      BY <2>2, <2>4, ZenonT(60) DEF Once, EscrowOnce
    <3>2. q[3] = f[4]
      BY <1>2, <2>1, <3>1, ZenonT(60)
    <3> QED BY <1>2, <2>1, <2>4, <3>2, ZenonT(60) DEF Once, EscrowOnce
  <2> QED BY <1>2, <1>5, <2>1, <2>3, <2>4, ZenonT(60)
<1>6. CASE k = "disputes"
  <2>1. f[4] = "disputed" \/ f[4] = "trade.disputed"
    BY <1>1, <1>6
  <2>2. \A ev : k \in ClassesOf(ev) => ev = "disputed" \/ ev = "trade.disputed"
    BY <1>6, ClassEvents
  <2>3. escrow[f[3]] \in After("disputed") /\ \A q \in outbox : ~(q[2] = f[3] /\ q[3] = "disputed")
    <3>1. CASE f[4] = "disputed"
      <4>1. f[4] \in EscrowEvents
        BY <1>2, <3>1, ZenonT(60)
      <4>2. escrow[f[3]] \in After(f[4]) /\ \A q \in outbox : ~(q[2] = f[3] /\ q[3] = f[4])
        BY <4>1, ZenonT(60) DEF Once, EscrowOnce
      <4> QED BY <3>1, <4>2, ZenonT(60)
    <3>2. CASE f[4] = "trade.disputed"
      BY <3>2, ZenonT(60) DEF Once, DisputeOnce
    <3> QED BY <2>1, <3>1, <3>2, ZenonT(60)
  <2>4. \A q \in outbox : q[3] # "trade.disputed"
    BY DEF FlowsOK, EscrowEvents
  <2>5. ASSUME NEW g \in DOMAIN flow, NEW h \in DOMAIN flow, g[3] = h[3],
               g[4] = "disputed", h[4] = "trade.disputed"
        PROVE  FALSE
    <3>1. g[1] # h[2]
      BY <2>5, ZenonT(60) DEF Once, DisputeOnce
    <3> QED BY <1>3, <3>1, ZenonT(60)
  <2>6. \A g \in DOMAIN flow : g[3] = f[3] /\ k \in ClassesOf(g[4]) => g = f
    BY <1>4, <2>1, <2>2, <2>5, ZenonT(60)
  <2> QED BY <1>6, <2>2, <2>3, <2>4, <2>6, ZenonT(60)
<1> QED BY <1>5, <1>6

\* What counts nothing leaves the counts right, if only the uncounted is to be counted.
LEMMA TallyBy ==
  ASSUME TallyOK, tally' = tally,
         \A u \in Trades : /\ escrow[u] \in TerminalStatuses => escrow'[u] \in TerminalStatuses
                           /\ escrow[u] \in After("disputed") => escrow'[u] \in After("disputed"),
         \A q \in outbox', p \in Parties : \A k \in ClassesOf(q[3]) :
            q \in outbox \/ Uncounted(q[2], k, p),
         \A g \in DOMAIN flow', k \in Classes, p \in Parties :
            Hit(flow'[g], k, p) => Uncounted(g[3], k, p)
  PROVE  TallyOK'
<1>1. /\ \A q \in outbox', p \in Parties : \A k \in ClassesOf(q[3]) : Uncounted(q[2], k, p)
      /\ \A u \in Trades, p \in Parties :
            /\ escrow'[u] \notin TerminalStatuses =>
                  \A k \in {"trades", "fees", "outcome"} : Uncounted(u, k, p)
            /\ escrow'[u] \notin After("disputed") => Uncounted(u, "disputes", p)
  BY ZenonT(60) DEF TallyOK
<1>2. \A u, k, p : Uncounted(u, k, p) => Uncounted(u, k, p)'
  BY DEF Uncounted
<1>3. /\ \A t \in Trades, s \in Stats, p \in Parties : tally'[<<t, s, p>>] \in {0, 1}
      /\ \A t \in Trades, s, u \in Stats, p \in Parties :
            Class(s) = Class(u) /\ tally'[<<t, s, p>>] # 0 /\ tally'[<<t, u, p>>] # 0 => s = u
  BY ZenonT(60) DEF TallyOK
<1> QED BY <1>1, <1>2, <1>3, ZenonT(60) DEF TallyOK

\* Counting: the one flow that is to count this has now done so.
LEMMA TallyCount ==
  ASSUME FlowsOK, QueuesOK, BlameOK, Once, TallyOK, OneInstance, NEW f \in DOMAIN flow, Count(f)
  PROVE  TallyOK'
<1> DEFINE t == f[3]
           s == Step(f)[2]
           p == Step(f)[3]
           c == Class(s)
<1>1. /\ s \in Stats /\ p \in Parties /\ t \in Trades /\ Step(f)[1] = "count"
  <2>1. Step(f) \in Warranted(FlowTrade(f)) /\ Step(f)[1] = "count" /\ FlowTrade(f) \in Trades
    BY ZenonT(60), AdvancedWarranted DEF Count, QueuesOK
  <2> QED BY <2>1 DEF Warranted, Losers, Stats, Verdicts, FlowTrade
<1>2. /\ tally' = [tally EXCEPT ![<<t, s, p>>] = tally[<<t, s, p>>] + 1] /\ flow' = Advanced(f)
      /\ UNCHANGED <<escrow, outbox>>
  BY DEF Count, FlowTrade, rowVars
<1>3. c \in Classes
  BY ZenonT(60), <1>1 DEF Class, Stats, Verdicts, Classes
<1>4. Hits(Step(f), c, p)
  BY ZenonT(60), <1>1 DEF Hits
<1>5. flow[f] # <<>> /\ flow[f] \in Seq(Warranted(FlowTrade(f))) /\ Shaped(flow[f], f[4])
  BY ZenonT(60) DEF QueuesOK, FlowsWarranted, Once, ShapeOK
<1>6. /\ Hit(flow[f], c, p) /\ ~Hit(Tail(flow[f]), c, p)
  <2>1. Hits(Head(flow[f]), c, p)
    BY <1>4 DEF Step
  <2> HIDE DEF s, p, c
  <2> QED BY ZenonT(60), <1>1, <1>3, <1>5, <2>1, ShapeRest
<1>7. f \in DOMAIN flow' => flow'[f] = Tail(flow[f])
  BY <1>2 DEF Advanced, Without
<1>8. Local(f)
  BY LocalSteps DEF Once
<1>9. c \in ClassesOf(f[4]) /\ Uncounted(t, c, p)
  BY <1>1, <1>3, <1>5, <1>6, ZenonT(60) DEF Shaped, TallyOK
<1>10. /\ tally'[<<t, s, p>>] = 1 /\ tally[<<t, s, p>>] = 0
       /\ \A u \in Trades, w \in Stats, q \in Parties :
             <<u, w, q>> # <<t, s, p>> => tally'[<<u, w, q>>] = tally[<<u, w, q>>]
  <2>1. <<t, s, p>> \in DOMAIN tally /\ tally[<<t, s, p>>] = 0
    BY <1>1, <1>9 DEF BlameOK, Uncounted
  <2> DEFINE x == <<t, s, p>>
  <2>2. \A u \in Trades, w \in Stats, q \in Parties : <<u, w, q>> \in DOMAIN tally
    BY DEF BlameOK
  <2> HIDE DEF x
  <2>3. ASSUME x \in DOMAIN tally, tally[x] = 0, tally' = [tally EXCEPT ![x] = tally[x] + 1]
        PROVE  tally'[x] = 1 /\ \A y \in DOMAIN tally : y # x => tally'[y] = tally[y]
    BY <2>3
  <2>4. tally'[x] = 1 /\ \A y \in DOMAIN tally : y # x => tally'[y] = tally[y]
    BY <1>2, <2>1, <2>3, ZenonT(60) DEF x
  <2> QED BY <2>1, <2>2, <2>4, ZenonT(60) DEF x
<1>11. ASSUME NEW u \in Trades, NEW w \in Stats, NEW q \in Parties, <<u, w, q>> # <<t, s, p>>
       PROVE  tally'[<<u, w, q>>] = tally[<<u, w, q>>]
  BY ZenonT(60), <1>10, <1>11
<1>12. \A u \in Trades, w \in Stats, q \in Parties :
          (u # t \/ Class(w) # c \/ q # p) => tally'[<<u, w, q>>] = tally[<<u, w, q>>]
  BY <1>11
<1>13. ASSUME NEW g \in DOMAIN flow, NEW k \in Classes, NEW q \in Parties,
              Hit(flow[g], k, q), g[3] = t, k = c
       PROVE  g = f
  <2>1. k \in ClassesOf(g[4])
    BY <1>13, ZenonT(60) DEF Once, ShapeOK, Shaped
  <2>2. \A h \in DOMAIN flow : h[3] = f[3] /\ c \in ClassesOf(h[4]) => h = f
    BY ZenonT(60), <1>9, Alone
  <2> QED BY <1>13, <2>1, <2>2, ZenonT(60)
<1>14. /\ \A q \in outbox : q[2] = t => c \notin ClassesOf(q[3])
       /\ c = "disputes" => escrow[t] \in After("disputed")
       /\ c # "disputes" => escrow[t] \in TerminalStatuses
  BY ZenonT(60), <1>9, Alone
<1>15. \A q \in outbox : q[2] \in Trades
  BY DEF FlowsOK
<1>16. \A g \in DOMAIN flow : g[3] \in Trades
  BY DEF FlowsOK, Flows
<1> HIDE DEF t, s, p, c
<1>17. \A u, k, q : u \in Trades /\ q \in Parties /\ Uncounted(u, k, q) /\ ~(u = t /\ k = c /\ q = p) => Uncounted(u, k, q)'
  BY <1>12 DEF Uncounted
<1>18. \A u \in Trades, w \in Stats, q \in Parties : tally'[<<u, w, q>>] \in {0, 1}
  BY ZenonT(60), <1>10, <1>11 DEF TallyOK
<1>19. ASSUME NEW u \in Trades, NEW w \in Stats, NEW v \in Stats, NEW q \in Parties,
              Class(w) = Class(v), tally'[<<u, w, q>>] # 0, tally'[<<u, v, q>>] # 0
       PROVE  w = v
  <2>1. CASE u = t /\ Class(w) = c /\ q = p
    <3>1. \A x \in Stats : Class(x) = c /\ x # s => tally'[<<t, x, p>>] = 0
      BY <1>1, <1>9, <1>11 DEF Uncounted
    <3> QED BY ZenonT(60), <1>19, <2>1, <3>1
  <2>2. CASE ~(u = t /\ Class(w) = c /\ q = p)
    <3>1. tally'[<<u, w, q>>] = tally[<<u, w, q>>] /\ tally'[<<u, v, q>>] = tally[<<u, v, q>>]
      BY <1>12, <1>19, <2>2, ZenonT(60)
    <3> QED BY <1>19, <3>1, ZenonT(60) DEF TallyOK
  <2> QED BY <2>1, <2>2
<1>20. ASSUME NEW g \in DOMAIN flow', NEW k \in Classes, NEW q \in Parties, Hit(flow'[g], k, q)
       PROVE  Uncounted(g[3], k, q)'
  <2>1. g \in DOMAIN flow /\ Hit(flow[g], k, q)
    BY <1>8, <1>20, ZenonT(60) DEF Local
  <2>2. Uncounted(g[3], k, q) /\ g[3] \in Trades
    BY <1>16, <2>1, ZenonT(60) DEF TallyOK
  <2>3. ~(g[3] = t /\ k = c /\ q = p)
    BY <1>6, <1>7, <1>13, <1>20, <2>1, ZenonT(60)
  <2> QED BY <1>17, <2>2, <2>3, ZenonT(60)
<1>21. \A q \in outbox', r \in Parties : \A k \in ClassesOf(q[3]) : Uncounted(q[2], k, r)'
  BY <1>2, <1>14, <1>15, <1>17, ZenonT(60) DEF TallyOK
<1>22. /\ c \in {"trades", "fees", "outcome"} => c # "disputes"
       /\ \A k \in {"trades", "fees", "outcome"} : k # "disputes"
  OBVIOUS
<1>23. \A u \in Trades, q \in Parties :
          /\ escrow'[u] \notin TerminalStatuses =>
                \A k \in {"trades", "fees", "outcome"} : Uncounted(u, k, q)'
          /\ escrow'[u] \notin After("disputed") => Uncounted(u, "disputes", q)'
  BY <1>2, <1>14, <1>17, <1>22, ZenonT(60) DEF TallyOK
<1> QED BY <1>18, <1>19, <1>20, <1>21, <1>23, ZenonT(60) DEF TallyOK

\* Steps that start, end or move flows on without counting.
LEMMA TallyFlows ==
  ASSUME FlowsOK, QueuesOK, Once, TallyOK, tally' = tally, escrow' = escrow, outbox' \subseteq outbox,
         \A g \in DOMAIN flow', k \in Classes, p \in Parties : Hit(flow'[g], k, p) =>
            \/ \E h \in DOMAIN flow : h[3] = g[3] /\ Hit(flow[h], k, p)
            \/ \E q \in outbox : q[2] = g[3] /\ k \in ClassesOf(q[3])
  PROVE  TallyOK'
<1>1. \A g \in DOMAIN flow', k \in Classes, p \in Parties :
         Hit(flow'[g], k, p) => Uncounted(g[3], k, p)
  <2> SUFFICES ASSUME NEW g \in DOMAIN flow', NEW k \in Classes, NEW p \in Parties,
                      Hit(flow'[g], k, p)
               PROVE  Uncounted(g[3], k, p)
    BY ZenonT(60)
  <2>1. ASSUME NEW h \in DOMAIN flow, h[3] = g[3], Hit(flow[h], k, p)
        PROVE  Uncounted(g[3], k, p)
    <3>1. Uncounted(h[3], k, p)
      BY <2>1, ZenonT(60) DEF TallyOK
    <3> QED BY <2>1, <3>1, ZenonT(60)
  <2>2. ASSUME NEW q \in outbox, q[2] = g[3], k \in ClassesOf(q[3])
        PROVE  Uncounted(g[3], k, p)
    <3>1. Uncounted(q[2], k, p)
      BY <2>2, ZenonT(60) DEF TallyOK
    <3> QED BY <2>2, <3>1, ZenonT(60)
  <2> QED BY <2>1, <2>2, ZenonT(60)
<1> QED BY <1>1, TallyBy, ZenonT(60)

\* The handlers that start for an event count only what the event stands for.
LEMMA ScriptHits ==
  ASSUME NEW fs \in SUBSET Flows, NEW fl, flow' = Started(fs, fl), NEW g \in DOMAIN flow',
         NEW k \in Classes, NEW p \in Parties, Hit(flow'[g], k, p)
  PROVE  \/ g \in DOMAIN fl /\ Hit(fl[g], k, p)
         \/ g \in fs /\ k \in ClassesOf(g[4])
<1>1. CASE g \in fs
  <2>1. flow'[g] = Script(g[4]) /\ g[4] \in Events \cup Requests
    BY <1>1 DEF Started, Flows
  <2>2. Shaped(Script(g[4]), g[4])
    BY <2>1, ScriptShape, ZenonT(60)
  <2> QED BY <1>1, <2>1, <2>2, ZenonT(60) DEF Shaped
<1>2. CASE g \notin fs
  <2>1. g \in DOMAIN fl /\ flow'[g] = fl[g]
    BY <1>2 DEF Started
  <2> QED BY ZenonT(60), <2>1
<1> QED BY <1>1, <1>2

\* The steps of flows but for Count.
LEMMA TallyFlowStep ==
  ASSUME FlowsOK, QueuesOK, Once, TallyOK, NEW f \in DOMAIN flow,
         \/ SetTrade(f) \/ Allow(f) \/ Judge(f) \/ FindVouches(f) \/ BurnVouch(f)
         \/ CallEngine(f) \/ PublishTradeEvent(f)
  PROVE  TallyOK'
<1>1. tally' = tally /\ escrow' = escrow /\ outbox' \subseteq outbox
  BY ZenonT(60) DEF SetTrade, Allow, Judge, FindVouches, BurnVouch, CallEngine, PublishTradeEvent,
         rowVars, userVars
<1>2. CASE Local(f)
  <2>1. \A g \in DOMAIN flow', k \in Classes, p \in Parties :
           Hit(flow'[g], k, p) => g \in DOMAIN flow /\ Hit(flow[g], k, p)
    BY <1>2, ZenonT(60) DEF Local
  <2> QED BY <1>1, <2>1, TallyFlows, ZenonT(60)
<1>3. CASE PublishTradeEvent(f)
  <2> DEFINE fs == Instances \X {f[1]} \X {f[3]} \X {"trade.disputed"}
             fl == Without(flow, {f})
  <2>1. Advanced(f) = fl
    BY <1>3, DisputeEnds DEF Once
  <2>2. flow' = Started(fs, fl) /\ Step(f)[1] = "publish"
    BY ZenonT(60), <1>3, <2>1 DEF PublishTradeEvent, Published, FlowInstance, FlowTrade
  <2>3. fs \in SUBSET Flows /\ \A g \in fs : g[3] = f[3] /\ g[4] = "trade.disputed"
    BY ZenonT(60) DEF FlowsOK, Flows, Events
  <2>4. \A g \in DOMAIN fl : g \in DOMAIN flow /\ fl[g] = flow[g]
    BY DEF Without
  <2>5. ClassesOf("trade.disputed") = {"disputes"} /\ "disputes" \in Classes
    BY ZenonT(60) DEF ClassesOf, Classes
  <2> HIDE DEF fs, fl
  <2>6. \A p \in Parties : Hit(flow[f], "disputes", p)
    <3>1. flow[f] # <<>> /\ flow[f] \in Seq(Warranted(FlowTrade(f))) /\ Shaped(flow[f], f[4])
      BY DEF QueuesOK, FlowsWarranted, Once, ShapeOK
    <3>2. \A p \in Parties : Hits(Head(flow[f]), "disputes", p)
      BY ZenonT(60), <2>2 DEF Hits, Step
    <3> QED BY ZenonT(60), <2>5, <3>1, <3>2, ShapeRest
  <2>7. ASSUME NEW g \in DOMAIN flow', NEW k \in Classes, NEW p \in Parties, Hit(flow'[g], k, p)
        PROVE  \E h \in DOMAIN flow : h[3] = g[3] /\ Hit(flow[h], k, p)
    <3>1. \/ g \in DOMAIN fl /\ Hit(fl[g], k, p)
          \/ g \in fs /\ k \in ClassesOf(g[4])
      BY ZenonT(60), <2>2, <2>3, <2>7, ScriptHits
    <3>2. CASE g \in DOMAIN fl /\ Hit(fl[g], k, p)
      BY <2>4, <3>2, ZenonT(60)
    <3>3. CASE g \in fs /\ k \in ClassesOf(g[4])
      <4>1. g[3] = f[3] /\ k = "disputes"
        BY ZenonT(60), <2>3, <2>5, <3>3
      <4> QED BY <2>6, <4>1, ZenonT(60)
    <3> QED BY <3>1, <3>2, <3>3
  <2> QED BY <1>1, <2>7, TallyFlows, ZenonT(60)
<1> QED BY <1>2, <1>3, LocalSteps, ZenonT(60) DEF Once

\* Handlers and requests that start, and what a stop leaves.
LEMMA TallyOther ==
  ASSUME FlowsOK, QueuesOK, Once, TallyOK,
         \/ \E p \in outbox : PublishEscrowEvent(p)
         \/ \E i \in Instances, t \in Trades, r \in Calls : StartRequest(i, t, r)
         \/ outbox' \subseteq outbox /\ \E fs : Abandoned(fs)
  PROVE  TallyOK'
<1>1. tally' = tally /\ escrow' = escrow /\ outbox' \subseteq outbox
  BY ZenonT(60) DEF PublishEscrowEvent, StartRequest, Abandoned, rowVars, userVars
<1>2. ASSUME NEW q \in outbox, PublishEscrowEvent(q)
      PROVE  TallyOK'
  <2> DEFINE fs == Instances \X {q[1]} \X {q[2]} \X {q[3]}
  <2>1. /\ fs \in SUBSET Flows /\ flow' = Started(fs, flow)
        /\ \A g \in fs : g[3] = q[2] /\ g[4] = q[3]
    BY ZenonT(60), <1>2 DEF FlowsOK, Flows, Events, PublishEscrowEvent, Published
  <2> HIDE DEF fs
  <2>2. ASSUME NEW g \in DOMAIN flow', NEW k \in Classes, NEW p \in Parties, Hit(flow'[g], k, p)
        PROVE  \/ g \in DOMAIN flow /\ Hit(flow[g], k, p)
               \/ q[2] = g[3] /\ k \in ClassesOf(q[3])
    <3>1. \/ g \in DOMAIN flow /\ Hit(flow[g], k, p)
          \/ g \in fs /\ k \in ClassesOf(g[4])
      BY <2>1, <2>2, ScriptHits
    <3> QED BY ZenonT(60), <2>1, <3>1
  <2> QED BY <1>1, <2>2, TallyFlows, ZenonT(60)
<1>3. ASSUME NEW i \in Instances, NEW t \in Trades, NEW r \in Calls, StartRequest(i, t, r)
      PROVE  TallyOK'
  <2> DEFINE fs == {<<i, i, t, r>>}
  <2>1. /\ fs \in SUBSET Flows /\ flow' = Started(fs, flow)
        /\ \A g \in fs : g[4] = r
    BY <1>3, CallsAssumption DEF Flows, StartRequest
  <2>2. ClassesOf(r) = {}
    BY CallsAssumption DEF ClassesOf, Requests
  <2> HIDE DEF fs
  <2>3. ASSUME NEW g \in DOMAIN flow', NEW k \in Classes, NEW p \in Parties, Hit(flow'[g], k, p)
        PROVE  g \in DOMAIN flow /\ Hit(flow[g], k, p)
    <3>1. \/ g \in DOMAIN flow /\ Hit(flow[g], k, p)
          \/ g \in fs /\ k \in ClassesOf(g[4])
      BY ZenonT(60), <2>1, <2>3, ScriptHits
    <3> QED BY ZenonT(60), <2>1, <2>2, <3>1
  <2> QED BY <1>1, <2>3, TallyFlows, ZenonT(60)
<1>4. ASSUME NEW fs, Abandoned(fs)
      PROVE  TallyOK'
  <2>1. \A g \in DOMAIN flow' : g \in DOMAIN flow /\ flow'[g] = flow[g]
    BY <1>4 DEF Abandoned, Without
  <2> QED BY <1>1, <2>1, TallyFlows, ZenonT(60)
<1> QED BY <1>2, <1>3, <1>4, ZenonT(60)

\* The event a settlement raises stands for what was not counted yet.
LEMMA TallySettle ==
  ASSUME FlowsOK, RulingsOK, TallyOK, NEW i \in Instances, NEW t \in Trades, NEW to \in Statuses,
         EscrowMoves(i, t, to)
  PROVE  TallyOK'
<1>1. /\ flow' = flow /\ tally' = tally /\ escrow[t] \in Statuses
      /\ to \in VALID_TRANSITIONS[escrow[t]] /\ outbox' = outbox \cup ({i} \X {t} \X EventOf(to))
      /\ escrow'[t] = to /\ \A u \in Trades : u # t => escrow'[u] = escrow[u]
  BY DEF EscrowMoves, RulingsOK, userVars
<1>2. /\ \A ev \in EscrowEvents : escrow[t] \in After(ev) => to \in After(ev)
      /\ \A ev \in EventOf(to) : escrow[t] \notin After(ev)
      /\ escrow[t] \notin TerminalStatuses
  BY <1>1, RaisedOnce
<1>3. "disputed" \in EscrowEvents
  BY DEF EscrowEvents
<1>4. \A u \in Trades : /\ escrow[u] \in TerminalStatuses => escrow'[u] \in TerminalStatuses
                        /\ escrow[u] \in After("disputed") => escrow'[u] \in After("disputed")
  BY <1>1, <1>2, <1>3, ZenonT(60)
<1>5. \A q \in outbox' : q \in outbox \/ (q[2] = t /\ q[3] \in EventOf(to))
  BY <1>1
<1>6. ASSUME NEW q \in outbox', NEW p \in Parties, NEW k \in ClassesOf(q[3]), q \notin outbox
      PROVE  Uncounted(q[2], k, p)
  <2>1. q[2] = t /\ q[3] \in EventOf(to) /\ escrow[t] \notin After(q[3])
    BY <1>2, <1>5, <1>6, ZenonT(60)
  <2>2. q[3] # "trade.disputed"
    BY <2>1 DEF EventOf
  <2>3. \/ k = "disputes" /\ q[3] = "disputed"
        \/ k \in {"trades", "fees", "outcome"}
    BY <2>2, ClassEvents DEF Classes
  <2> QED BY <1>2, <2>1, <2>3, ZenonT(60) DEF TallyOK
<1>7. \A g \in DOMAIN flow', k \in Classes, p \in Parties :
         Hit(flow'[g], k, p) => Uncounted(g[3], k, p)
  BY <1>1, ZenonT(60) DEF TallyOK
<1> QED BY <1>1, <1>4, <1>6, <1>7, TallyBy, ZenonT(60)

\* Every step keeps the counts right.
LEMMA TallyKept ==
  ASSUME OneInstance, FlowsOK, WInv, Once, TallyOK, [Next]_vars
  PROVE  TallyOK'
<1>0. RulingsOK /\ QueuesOK /\ BlameOK
  BY ZenonT(60) DEF WInv
<1>1. CASE UNCHANGED <<escrow, outbox, flow, tally>>
  BY <1>1, ZenonT(60) DEF TallyOK, Uncounted
<1>2. ASSUME NEW t \in Trades, Unrule(t) \/ \E r \in Rulings : Rule(t, r)
      PROVE  TallyOK'
  BY <1>1, <1>2 DEF Unrule, Rule, userVars
<1>3. ASSUME NEW f \in DOMAIN flow, FlowStep(f)
      PROVE  TallyOK'
  BY <1>0, <1>3, TallyCount, TallyFlowStep, ZenonT(60) DEF FlowStep
<1>4. ASSUME NEW f \in DOMAIN flow, RejectFlow(f)
      PROVE  TallyOK'
  <2>1. Abandoned({f}) /\ outbox' \subseteq outbox
    BY <1>4 DEF RejectFlow
  <2> QED BY <1>0, <2>1, TallyOther, ZenonT(60)
<1>5. ASSUME NEW i \in Instances, Stop(i)
      PROVE  TallyOK'
  <2>1. outbox' \subseteq outbox
    BY <1>5 DEF Stop
  <2> QED BY <1>0, <1>5, <2>1, StopAbandons, TallyOther, ZenonT(60)
<1>6. ASSUME NEW p \in outbox, PublishEscrowEvent(p)
      PROVE  TallyOK'
  BY <1>0, <1>6, TallyOther, ZenonT(60)
<1>7. ASSUME NEW i \in Instances, NEW t \in Trades, NEW r \in Calls, StartRequest(i, t, r)
      PROVE  TallyOK'
  BY <1>0, <1>7, TallyOther, ZenonT(60)
<1>8. CASE UNCHANGED vars
  BY <1>1, <1>8 DEF vars, rowVars, userVars
<1> QED BY <1>0, <1>2, <1>3, <1>4, <1>5, <1>6, <1>7, <1>8, TallySettle, ZenonT(60) DEF Next

-----------------------------------------------------------------------------
(* The engine's own theorem carries over, and with it the invariants hold. *)

P == INSTANCE IntentEngineProofs WITH Movers <- Flows

Inv == FlowsOK /\ P!IInv

\* Engine and P are the same instance of IntentEngine: so are their types,
LEMMA SameTypes == P!EngineTypeOK => Engine!EngineTypeOK
BY ZenonT(60) DEF P!EngineTypeOK, P!EventRec, P!MoveRec, P!IntentStatuses,
   Engine!EngineTypeOK, Engine!EventRec, Engine!MoveRec, Engine!IntentStatuses

\* their steps,
LEMMA SameNext == [Engine!EngineNext]_engineVars => [P!EngineNext]_P!engineVars
BY ZenonT(60) DEF engineVars, P!engineVars, P!EngineNext, P!InsertIntent, P!ReadIntent,
   P!RefuseTransition, P!ClaimTransition, P!LoseClaim, P!FindLastEvent, P!CreateEvent,
   P!Abandon, P!Idle, P!At, P!Goto, P!Called, P!Ended, P!INTENT_TRANSITIONS, P!IntentStatuses,
   Engine!engineVars, Engine!EngineNext, Engine!InsertIntent, Engine!ReadIntent,
   Engine!RefuseTransition, Engine!ClaimTransition, Engine!LoseClaim, Engine!FindLastEvent,
   Engine!CreateEvent, Engine!Abandon, Engine!Idle, Engine!At, Engine!Goto, Engine!Called,
   Engine!Ended, Engine!INTENT_TRANSITIONS, Engine!IntentStatuses

\* and the property of the audit trail.
LEMMA SameAudit == P!AuditOnce => AuditOnce
BY ZenonT(60) DEF P!AuditOnce, P!INTENT_TRANSITIONS, P!IntentStatuses,
   AuditOnce, Engine!AuditOnce, Engine!INTENT_TRANSITIONS, Engine!IntentStatuses

\* The invariant of the composition.
LEMMA InvHolds == Spec => []Inv
<1>1. Init => Inv
  BY P!InitHolds DEF Init, Inv, FlowsOK, Engine!EngineInit, P!EngineInit
<1>2. Inv /\ [Next]_vars => Inv'
  <2> SUFFICES ASSUME Inv, [Next]_vars PROVE Inv'
    OBVIOUS
  <2>1. FlowsOK /\ P!IInv /\ Engine!EngineTypeOK
    BY P!InvImplies, SameTypes, ZenonT(60) DEF Inv
  <2>2. FlowsOK' /\ [Engine!EngineNext]_engineVars
    BY <2>1, StepIsEngineStep, ZenonT(60)
  <2>3. [P!EngineNext]_P!engineVars
    BY <2>2, SameNext, ZenonT(60)
  <2>4. P!IInv'
    BY <2>1, <2>3, P!StepPreserves, ZenonT(60)
  <2> QED BY <2>2, <2>4, ZenonT(60) DEF Inv
<1> QED BY <1>1, <1>2, PTL DEF Spec

\* Seen through the intent, its events and the calls in flight, the handlers
\* and requests of every instance are an execution of the intent engine.
THEOREM EngineIsRun == Spec => Engine!EngineSpec
<1>1. Init => Engine!EngineInit
  BY DEF Init
<1>2. Inv /\ [Next]_vars => [Engine!EngineNext]_(Engine!engineVars)
  <2> SUFFICES ASSUME Inv, [Next]_vars PROVE [Engine!EngineNext]_(Engine!engineVars)
    OBVIOUS
  <2>1. FlowsOK /\ Engine!EngineTypeOK
    BY P!InvImplies, SameTypes, ZenonT(60) DEF Inv
  <2>2. [Engine!EngineNext]_engineVars
    BY <2>1, StepIsEngineStep, ZenonT(60)
  <2> QED BY <2>2, ZenonT(60) DEF Engine!engineVars, engineVars
<1> QED BY <1>1, <1>2, InvHolds, PTL DEF Spec, Engine!EngineSpec

\* Whatever the event handlers and the requests of any number of instances do
\* at the same time, or leave half done, the intent's audit trail tells no
\* status twice and only moves that INTENT_TRANSITIONS allows.
THEOREM AuditOnceHolds == Spec => []AuditOnce
<1>1. Inv => AuditOnce
  BY P!InvImplies, SameAudit, ZenonT(60) DEF Inv
<1> QED BY <1>1, InvHolds, PTL

\* Both invariants hold of every execution.
LEMMA WInvHolds == Spec => [](Inv /\ WInv)
<1>1. Init => WInv
  <2> SUFFICES ASSUME Init PROVE WInv
    OBVIOUS
  <2>1. RulingsOK
    BY DEF Init, RulingsOK, Statuses
  <2>2. QueuesOK
    BY DEF Init, QueuesOK, FlowsWarranted, Engine!EngineInit
  <2>3. SaidOK
    BY DEF Init, SaidOK, Engine!EngineInit, TradeStatuses
  <2>4. BlameOK
    BY DEF Init, BlameOK, Stats, Verdicts
  <2> QED BY ZenonT(60), <2>1, <2>2, <2>3, <2>4 DEF WInv
<1>2. Inv /\ Inv' /\ WInv /\ [Next]_vars => WInv'
  <2> SUFFICES ASSUME Inv, Inv', WInv, [Next]_vars PROVE WInv'
    OBVIOUS
  <2>1. FlowsOK /\ FlowsOK' /\ Engine!EngineTypeOK
    BY P!InvImplies, SameTypes, ZenonT(60) DEF Inv
  <2> QED BY <2>1, WarrantsKept, ZenonT(60)
<1> QED BY <1>1, <1>2, InvHolds, PTL DEF Spec

\* Neither the intent nor a trade claims a settlement its escrow did not reach,
\* for any number of instances and trades, whatever handlers of events overlap,
\* arrive late or are cut short.
THEOREM ClaimsBackedHolds == Spec => []ClaimsAreBacked
<1>1. WInv => ClaimsAreBacked
  <2> SUFFICES ASSUME WInv PROVE ClaimsAreBacked
    OBVIOUS
  <2>1. \A t \in Trades : trade[t] = "COMPLETED" => escrow[t] \in {"COMPLETED", "SPLIT"}
    BY DEF WInv, SaidOK, Settled
  <2>2. CASE intent = "none"
    BY ZenonT(60), <2>1, <2>2 DEF ClaimsAreBacked
  <2>3. ASSUME NEW t \in Trades, Backed(t, intent)
        PROVE  ClaimsAreBacked
    BY ZenonT(60), <2>1, <2>3 DEF ClaimsAreBacked, Backed, Settled
  <2> QED BY <2>2, <2>3 DEF WInv, SaidOK
<1> QED BY <1>1, WInvHolds, PTL

\* A negative outcome is recorded, and a vouch burned, only against a party
\* some ruling went against: applyReleaseOutcomes() and applyRefundOutcomes()
\* punish nobody else, even if the ruling is withdrawn while they run.
THEOREM PenaltyHolds == Spec => []PenaltyNeedsRuling
<1>1. WInv => PenaltyNeedsRuling
  <2> SUFFICES ASSUME WInv, NEW p \in Parties,
                      p \notin vouched \/ (\E t \in Trades : tally[<<t, "NEGATIVE", p>>] > 0)
               PROVE  \E t \in Trades : <<t, IF p = "seller" THEN "RELEASE" ELSE "REFUND">> \in ruled
    BY DEF PenaltyNeedsRuling
  <2>1. \E t \in Trades : p \in Losers(t)
    BY ZenonT(60) DEF WInv, BlameOK
  <2> QED BY <2>1 DEF Losers
<1> QED BY <1>1, WInvHolds, PTL

-----------------------------------------------------------------------------
(* The trail is complete where no flow was cut short.                      *)

TrailOK == faults \in Nat /\ (faults = 0 => P!TellOK)

\* A call of the engine by a flow is a step of the engine that goes on.
LEMMA CallGoesOn ==
  ASSUME FlowsOK, QueuesOK, NEW f \in DOMAIN flow, CallEngine(f)
  PROVE  f \in Flows /\ P!CallStep(f)
<1>1. f \in Flows /\ Step(f) \in Warranted(FlowTrade(f))
  BY AdvancedWarranted, ZenonT(60) DEF QueuesOK
<1>2. Step(f)[1] = "intent" => Step(f)[2] \in P!IntentStatuses
  BY <1>1 DEF Warranted, Engine!IntentStatuses, P!IntentStatuses
<1>3. ASSUME NEW to
      PROVE  /\ Engine!ReadIntent(f, to) => P!ReadIntent(f, to)
             /\ Engine!RefuseTransition(f, to) => P!RefuseTransition(f, to)
  BY ZenonT(60) DEF Engine!ReadIntent, Engine!RefuseTransition, Engine!Idle, Engine!Called,
     Engine!INTENT_TRANSITIONS, Engine!IntentStatuses, Engine!engineVars, P!ReadIntent,
     P!RefuseTransition, P!Idle, P!Called, P!INTENT_TRANSITIONS, P!IntentStatuses, P!engineVars
<1>4. /\ Engine!InsertIntent(f) => P!InsertIntent(f)
      /\ Engine!ClaimTransition(f) => P!ClaimTransition(f)
      /\ Engine!LoseClaim(f) => P!LoseClaim(f)
      /\ Engine!FindLastEvent(f) => P!FindLastEvent(f)
      /\ Engine!CreateEvent(f) => P!CreateEvent(f)
  BY ZenonT(60) DEF Engine!InsertIntent, Engine!ClaimTransition, Engine!LoseClaim,
     Engine!FindLastEvent, Engine!CreateEvent, Engine!Idle, Engine!At, Engine!Goto, Engine!Called,
     Engine!Ended, P!InsertIntent, P!ClaimTransition, P!LoseClaim, P!FindLastEvent, P!CreateEvent,
     P!Idle, P!At, P!Goto, P!Called, P!Ended
<1>5. P!CallStep(f)
  BY <1>2, <1>3, <1>4, ZenonT(60) DEF CallEngine, P!CallStep
<1> QED BY <1>1, <1>5

\* Every step keeps the trail complete, or is a fault.
LEMMA TrailKept ==
  ASSUME FlowsOK, QueuesOK, P!IInv, TrailOK, [Next]_vars
  PROVE  TrailOK'
<1>1. CASE UNCHANGED <<engineVars, faults>>
  BY <1>1, ZenonT(60) DEF engineVars, TrailOK, P!TellOK, P!Told, P!Owing
<1>2. ASSUME NEW f \in DOMAIN flow, FlowStep(f)
      PROVE  TrailOK'
  <2>1. CASE CallEngine(f)
    <3>1. faults' = faults
      BY <2>1, ZenonT(60) DEF CallEngine
    <3>2. f \in Flows /\ P!CallStep(f)
      BY <2>1, CallGoesOn
    <3>3. P!TellOK => P!TellOK'
      BY <3>2, P!TellKept, ZenonT(60)
    <3> QED BY <3>1, <3>3, ZenonT(60) DEF TrailOK
  <2>2. CASE \/ SetTrade(f) \/ Allow(f) \/ Count(f) \/ Judge(f) \/ FindVouches(f)
             \/ BurnVouch(f) \/ PublishTradeEvent(f)
    BY ZenonT(60), <1>1, <2>2 DEF SetTrade, Allow, Count, Judge, FindVouches, BurnVouch, PublishTradeEvent
  <2> QED BY <1>2, <2>1, <2>2, ZenonT(60) DEF FlowStep
<1>3. ASSUME NEW fs, Abandoned(fs)
      PROVE  TrailOK'
  <2>1. faults \in Nat /\ faults' = faults + 1
    BY <1>3 DEF Abandoned, TrailOK
  <2>2. faults' \in Nat /\ faults' # 0
    BY <2>1
  <2> QED BY <2>2, ZenonT(60) DEF TrailOK
<1>4. ASSUME NEW f \in DOMAIN flow, RejectFlow(f)
      PROVE  TrailOK'
  BY <1>3, <1>4, ZenonT(60) DEF RejectFlow
<1>5. ASSUME NEW i \in Instances, Stop(i)
      PROVE  TrailOK'
  BY <1>3, <1>5, StopAbandons, ZenonT(60)
<1>6. ASSUME \/ \E i \in Instances, t \in Trades :
                   \/ \E to \in Statuses : EscrowMoves(i, t, to)
                   \/ \E r \in Calls : StartRequest(i, t, r)
             \/ \E t \in Trades : Unrule(t) \/ \E r \in Rulings : Rule(t, r)
             \/ \E p \in outbox : PublishEscrowEvent(p)
      PROVE  UNCHANGED <<engineVars, faults>>
  BY ZenonT(60), <1>6 DEF EscrowMoves, StartRequest, Unrule, Rule, PublishEscrowEvent
<1>7. CASE UNCHANGED vars
  BY <1>1, <1>7 DEF vars
<1> QED BY <1>1, <1>2, <1>4, <1>5, <1>6, <1>7, ZenonT(60) DEF Next

\* Both hold of every execution.
LEMMA OnceHolds == Spec => [](Inv /\ WInv /\ Once /\ TrailOK)
<1>1. Init => Once /\ TrailOK
  <2> SUFFICES ASSUME Init PROVE Once /\ TrailOK
    OBVIOUS
  <2>1. outbox = {} /\ DOMAIN flow = {} /\ DOMAIN move = {} /\ faults = 0
    BY DEF Init, Engine!EngineInit
  <2>2. Once
    BY <2>1, ZenonT(60) DEF Once, EscrowOnce, DisputeOnce, RequestOnce, CallsOK, ShapeOK
  <2>3. P!EngineInit
    BY DEF Init, Engine!EngineInit, P!EngineInit
  <2>4. P!TellOK
    BY <2>3, P!TellInit, ZenonT(60)
  <2>5. faults \in Nat
    BY <2>1
  <2> QED BY <2>2, <2>4, <2>5, ZenonT(60) DEF TrailOK
<1>2. Inv /\ WInv /\ Once /\ TrailOK /\ [Next]_vars => Once' /\ TrailOK'
  <2> SUFFICES ASSUME Inv, WInv, Once, TrailOK, [Next]_vars PROVE Once' /\ TrailOK'
    OBVIOUS
  <2>1. FlowsOK /\ P!IInv /\ QueuesOK
    BY ZenonT(60) DEF Inv, WInv
  <2> QED BY <2>1, OnceKept, TrailKept, ZenonT(60)
<1> QED BY <1>1, <1>2, WInvHolds, PTL DEF Spec

\* Once every handler and request has run undisturbed, the intent's events
\* account for its status and for every status it passed through, however the
\* calls of transition() overlapped at any number of instances.
THEOREM AuditCompleteHolds == Spec => []AuditComplete
<1>1. Once /\ TrailOK => AuditComplete
  <2> SUFFICES ASSUME Once, TrailOK, AtRest, faults = 0, intent # "none"
               PROVE  /\ \E k \in DOMAIN chain : chain[k].to = intent
                      /\ \A k \in DOMAIN chain :
                            \/ chain[k].from = "none"
                            \/ \E j \in DOMAIN chain : chain[j].to = chain[k].from
    BY DEF AuditComplete
  <2>1. DOMAIN flow = {}
    BY DEF AtRest
  <2>2. \A m : ~P!Owing(m)
    BY <2>1, ZenonT(60) DEF Once, CallsOK, P!Owing
  <2>3. P!TellOK
    BY DEF TrailOK
  <2> QED BY <2>2, <2>3, ZenonT(60) DEF P!TellOK, P!Told
<1> QED BY <1>1, OnceHolds, PTL

\* Where the settlement handlers of a trade run at one instance, each party's
\* trade, fee floor, dispute and outcome is counted at most once per trade,
\* whatever the order of settlement, ruling, handlers, requests and stops: the
\* handlers increment without looking, so this rests on each event being
\* raised once, and on no trade being told twice of its dispute.
THEOREM CountedOnceHolds ==
  ASSUME OneInstance PROVE Spec => []CountedOnce
<1>1. Init => TallyOK
  <2> SUFFICES ASSUME Init PROVE TallyOK
    OBVIOUS
  <2>1. outbox = {} /\ DOMAIN flow = {}
    BY DEF Init
  <2>2. \A t \in Trades, s \in Stats, p \in Parties : tally[<<t, s, p>>] = 0
    BY DEF Init
  <2>3. \A t \in Trades, k \in Classes, p \in Parties : Uncounted(t, k, p)
    BY <2>2, ZenonT(60) DEF Uncounted
  <2>4. {"trades", "fees", "outcome"} \subseteq Classes /\ "disputes" \in Classes /\ 0 \in {0, 1}
    BY DEF Classes
  <2> QED BY <2>1, <2>2, <2>3, <2>4, ZenonT(60) DEF TallyOK
<1>2. Inv /\ WInv /\ Once /\ TallyOK /\ [Next]_vars => TallyOK'
  <2> SUFFICES ASSUME Inv, WInv, Once, TallyOK, [Next]_vars PROVE TallyOK'
    OBVIOUS
  <2> QED BY TallyKept, ZenonT(60) DEF Inv
<1>3. TallyOK => CountedOnce
  <2> SUFFICES ASSUME TallyOK PROVE CountedOnce
    OBVIOUS
  <2>1. \A t \in Trades, s \in Stats, p \in Parties : tally[<<t, s, p>>] \in {0, 1}
    BY ZenonT(60) DEF TallyOK
  <2>2. ASSUME NEW t \in Trades, NEW p \in Parties
        PROVE  tally[<<t, "POSITIVE", p>>] + tally[<<t, "NEGATIVE", p>>]
                  + tally[<<t, "NEUTRAL", p>>] <= 1
    <3>1. \A s, u \in Verdicts : s \in Stats /\ u \in Stats /\ Class(s) = Class(u)
      BY DEF Class, Stats
    <3>2. \A s, u \in Verdicts : tally[<<t, s, p>>] # 0 /\ tally[<<t, u, p>>] # 0 => s = u
      BY <3>1, ZenonT(60) DEF TallyOK
    <3>3. \A s \in Verdicts : tally[<<t, s, p>>] \in {0, 1}
      BY <2>1, <3>1, ZenonT(60)
    <3> QED BY <3>2, <3>3 DEF Verdicts
  <2>3. \A t \in Trades, s \in Stats, p \in Parties : tally[<<t, s, p>>] <= 1
    <3>1. \A n \in {0, 1} : n <= 1
      OBVIOUS
    <3> QED BY <2>1, <3>1, ZenonT(60)
  <2> QED BY <2>2, <2>3, ZenonT(60) DEF CountedOnce
<1> QED BY <1>1, <1>2, <1>3, OnceHolds, PTL DEF Spec
=============================================================================
