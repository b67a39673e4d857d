--------------------------- MODULE TradeProjection --------------------------
(***************************************************************************)
(* How trades, intents and reputation follow the escrow: the handlers of   *)
(* common/events/handlers.ts, the requests that move the same rows, and    *)
(* the event store that delivers settlement events to every instance.      *)
(* All trades here were made against one offer and share its intent.  A    *)
(* request or handler is a flow: the queries it still has to run, one per  *)
(* await.  A flow ends early when a query is rejected or its instance      *)
(* stops; nothing runs the rest of it later.                               *)
(***************************************************************************)
EXTENDS EscrowStatus, Naturals, Sequences, FiniteSets

CONSTANTS
  Trades,
  Instances,  \* server processes sharing the database
  Calls,      \* the requests explored
  MaxOverlap, \* bound: flows running when a request arrives or a row moves
  MaxRulings, \* bound: different rulings made
  MaxFaults   \* bound: rejected queries, lost messages and stops

VARIABLES
  intent, chain, move,  \* see IntentEngine
  escrow,    \* per trade, the status its settlement requests acknowledged
  ruling,    \* per trade, Dispute.ruling while the dispute is RESOLVED
  ruled,     \* history: the rulings ever made
  trade,     \* per trade, Trade.status
  outbox,    \* <<instance, trade, event>> a request is about to publish
  flow,      \* per running flow, the steps still to run
  begun,     \* <<trade, request>> of the requests made
  tally,     \* how often each user statistic was incremented for a trade
  vouched,   \* the parties with an active vouch
  faults

rowVars == <<escrow, ruling, ruled, trade>>
userVars == <<tally, vouched>>
engineVars == <<intent, chain, move>>
vars == <<engineVars, rowVars, outbox, flow, begun, userVars, faults>>

Parties == {"buyer", "seller"}
Verdicts == {"POSITIVE", "NEGATIVE", "NEUTRAL"}
Stats == {"trades", "fees", "disputes"} \cup Verdicts
TradeStatuses == {"NONE", "PENDING", "ACTIVE", "DISPUTED", "COMPLETED", "CANCELLED"}
Rulings == {"RELEASE", "REFUND", "SPLIT"}

EscrowEvents == {"locked", "disputed", "released", "refunded", "split"}
Events == EscrowEvents \cup {"trade.disputed"}
Requests == {"create", "propose", "withdraw", "trade", "activate", "cancel"}

\* A handler runs at an instance for an event of an origin; a request where
\* it arrived.
Flows == Instances \X Instances \X Trades \X (Events \cup Requests)
FlowInstance(f) == f[1]
FlowTrade(f) == f[3]

ASSUME CallsAssumption == Calls \subseteq Requests

Engine == INSTANCE IntentEngine WITH Movers <- Flows

-----------------------------------------------------------------------------

Both(stat) == << <<"count", stat, "buyer">>, <<"count", stat, "seller">> >>
Fulfill == << <<"intent", "SETTLING">>, <<"intent", "FULFILLED">> >>

\* Mutant: the handler of the escrow's dispute counts it as well.
OnDisputedCounting ==
  << <<"set", "DISPUTED">> >> \o Both("disputes") \o << <<"publish">> >>
\* Mutant: the handler of a refund closes the trade like the one of a release.
OnRefundedClosing ==
  << <<"set", "COMPLETED">>, <<"judge", "REFUND">>, <<"intent", "FAILED">> >>

\* The queries of each handler, in order.
OnLocked == << <<"set", "ACTIVE">>, <<"intent", "COMMITTED">> >>
OnDisputed == << <<"set", "DISPUTED">>, <<"publish">> >>
OnReleased ==
  << <<"set", "COMPLETED">> >> \o Both("trades") \o Both("fees") \o << <<"judge", "RELEASE">> >> \o Fulfill
OnRefunded == << <<"set", "CANCELLED">>, <<"judge", "REFUND">>, <<"intent", "FAILED">> >>
OnSplit == << <<"set", "COMPLETED">> >> \o Both("trades") \o Both("NEUTRAL") \o Fulfill
OnTradeDisputed == Both("disputes")

\* The queries of each request: POST /intents, its proposal and its withdrawal,
\* the creation of a trade and its manual moves.
CreateIntent == << <<"insert">>, <<"intent", "VALIDATED">>, <<"intent", "COORDINATED">> >>
ProposeIntent == << <<"intent", "DISCOVERING">> >>
WithdrawIntent == << <<"intent", "CANCELLED">> >>
CreateTrade ==
  << <<"set", "PENDING">>, <<"intent", "DISCOVERING">>, <<"intent", "MATCHED">>, <<"intent", "NEGOTIATING">> >>
ActivateTrade == << <<"allow", {"PENDING"}>>, <<"set", "ACTIVE">> >>
CancelTrade ==
  << <<"allow", {"PENDING", "ACTIVE"}>>, <<"set", "CANCELLED">>, <<"intent", "CANCELLED">> >>

Script(ev) ==
  CASE ev = "locked"         -> OnLocked
    [] ev = "disputed"       -> OnDisputed
    [] ev = "released"       -> OnReleased
    [] ev = "refunded"       -> OnRefunded
    [] ev = "split"          -> OnSplit
    [] ev = "trade.disputed" -> OnTradeDisputed
    [] ev = "create"         -> CreateIntent
    [] ev = "propose"        -> ProposeIntent
    [] ev = "withdraw"       -> WithdrawIntent
    [] ev = "trade"          -> CreateTrade
    [] ev = "activate"       -> ActivateTrade
    [] ev = "cancel"         -> CancelTrade

\* Mutant: the winner of a ruling is recorded as its loser.
OutcomesSwapped(r, decided) ==
  LET loser == IF r = "RELEASE" THEN "buyer" ELSE "seller"
      winner == IF r = "RELEASE" THEN "seller" ELSE "buyer"
  IN  IF decided
      THEN << <<"count", "POSITIVE", winner>>, <<"count", "NEGATIVE", loser>>, <<"vouches", loser>> >>
      ELSE Both(IF r = "RELEASE" THEN "POSITIVE" ELSE "NEUTRAL")

\* applyReleaseOutcomes() and applyRefundOutcomes() after the dispute query.
Outcomes(r, decided) ==
  LET loser == IF r = "RELEASE" THEN "seller" ELSE "buyer"
      winner == IF r = "RELEASE" THEN "buyer" ELSE "seller"
  IN  IF decided
      THEN << <<"count", "POSITIVE", winner>>, <<"count", "NEGATIVE", loser>>, <<"vouches", loser>> >>
      ELSE Both(IF r = "RELEASE" THEN "POSITIVE" ELSE "NEUTRAL")

Init ==
  /\ Engine!EngineInit
  /\ escrow = [t \in Trades |-> "CREATED"]
  /\ ruling = [t \in Trades |-> "none"]
  /\ ruled = {}
  /\ trade = [t \in Trades |-> "NONE"]
  /\ outbox = {}
  /\ flow = <<>>
  /\ begun = {}
  /\ tally = [k \in Trades \X Stats \X Parties |-> 0]
  /\ vouched = Parties
  /\ faults = 0

Started(fs, fl) == [f \in DOMAIN fl \cup fs |-> IF f \in fs THEN Script(f[4]) ELSE fl[f]]
Without(fl, fs) == [g \in DOMAIN fl \ fs |-> fl[g]]
Step(f) == Head(flow[f])
Advanced(f) ==
  IF Len(flow[f]) = 1 THEN Without(flow, {f}) ELSE [flow EXCEPT ![f] = Tail(@)]
Room == Cardinality(DOMAIN flow) + Cardinality(outbox) < MaxOverlap

-----------------------------------------------------------------------------
(* The settlement side: what escrow and dispute services do to their rows. *)

\* Mutant: nothing is emitted for a split.
EventOfNoSplit(to) ==
  CASE to = "FUNDS_LOCKED" -> {"locked"}
    [] to = "DISPUTED"     -> {"disputed"}
    [] to = "COMPLETED"    -> {"released"}
    [] to = "REFUNDED"     -> {"refunded"}
    [] OTHER               -> {}

EventOf(to) ==
  CASE to = "FUNDS_LOCKED" -> {"locked"}
    [] to = "DISPUTED"     -> {"disputed"}
    [] to = "COMPLETED"    -> {"released"}
    [] to = "REFUNDED"     -> {"refunded"}
    [] to = "SPLIT"        -> {"split"}
    [] OTHER               -> {}

RulingFor == [COMPLETED |-> "RELEASE", REFUNDED |-> "REFUND", SPLIT |-> "SPLIT"]

\* A settlement request went through; its event is not yet published.  Out of
\* DISPUTED only the ruling that resolved the dispute moves the money.
EscrowMoves(i, t, to) ==
  /\ Room
  /\ trade[t] # "NONE"
  /\ to \in VALID_TRANSITIONS[escrow[t]]
  /\ escrow[t] = "DISPUTED" => ruling[t] = RulingFor[to]
  /\ escrow' = [escrow EXCEPT ![t] = to]
  /\ outbox' = outbox \cup ({i} \X {t} \X EventOf(to))
  /\ UNCHANGED <<engineVars, ruling, ruled, trade, flow, begun, userVars, faults>>

\* applyRuling() claims RESOLVED before it moves money ...
Rule(t, r) ==
  /\ escrow[t] = "DISPUTED"
  /\ ruling[t] = "none"
  /\ Cardinality(ruled) < MaxRulings
  /\ ruling' = [ruling EXCEPT ![t] = r]
  /\ ruled' = ruled \cup {<<t, r>>}
  /\ UNCHANGED <<engineVars, escrow, trade, outbox, flow, begun, userVars, faults>>

\* ... and hands the claim back when the money does not move; appeal() takes
\* it back at any time.
Unrule(t) ==
  /\ ruling[t] # "none"
  /\ ruling' = [ruling EXCEPT ![t] = "none"]
  /\ UNCHANGED <<engineVars, escrow, ruled, trade, outbox, flow, begun, userVars, faults>>

-----------------------------------------------------------------------------
(* The event bus. *)

\* publish() has committed the event: the handlers start here in the same turn,
\* and at the other instances when the message reaches them over Redis.  A
\* handler that has not run its first query stands for a message on its way.
Published(i, t, ev, fl) == Started(Instances \X {i} \X {t} \X {ev}, fl)

PublishEscrowEvent(p) ==
  /\ p \in outbox
  /\ outbox' = outbox \ {p}
  /\ flow' = Published(p[1], p[2], p[3], flow)
  /\ UNCHANGED <<engineVars, rowVars, begun, userVars, faults>>

-----------------------------------------------------------------------------
(* Flows. *)

\* Each request is made at most once per trade.  An offer, and with it a
\* trade, exists once create() has returned.
StartRequest(i, t, r) ==
  /\ Room
  /\ <<t, r>> \notin begun
  /\ IF r = "create"
     THEN begun = {}
     ELSE \E k \in DOMAIN chain : chain[k].to = "COORDINATED"
  /\ r = "trade" => trade[t] = "NONE"
  /\ r \in {"activate", "cancel"} => trade[t] # "NONE"
  /\ flow' = Started({<<i, i, t, r>>}, flow)
  /\ begun' = begun \cup {<<t, r>>}
  /\ UNCHANGED <<engineVars, rowVars, outbox, userVars, faults>>

\* prisma.trade.update() without a condition on the status it replaces.
SetTrade(f) ==
  /\ Step(f)[1] = "set"
  /\ trade' = [trade EXCEPT ![FlowTrade(f)] = Step(f)[2]]
  /\ flow' = Advanced(f)
  /\ UNCHANGED <<engineVars, escrow, ruling, ruled, outbox, begun, userVars, faults>>

\* updateStatus() checks MANUAL_TRADE_TRANSITIONS on a status it read before.
Allow(f) ==
  /\ Step(f)[1] = "allow"
  /\ flow' = IF trade[FlowTrade(f)] \in Step(f)[2]
             THEN Advanced(f) ELSE Without(flow, {f})
  /\ UNCHANGED <<engineVars, rowVars, outbox, begun, userVars, faults>>

Count(f) ==
  /\ Step(f)[1] = "count"
  /\ tally' = [tally EXCEPT ![<<FlowTrade(f), Step(f)[2], Step(f)[3]>>] = @ + 1]
  /\ flow' = Advanced(f)
  /\ UNCHANGED <<engineVars, rowVars, outbox, begun, vouched, faults>>

\* The dispute row decides which outcomes are recorded.
Judge(f) ==
  /\ Step(f)[1] = "judge"
  /\ flow' = [flow EXCEPT ![f] =
                 Outcomes(Step(f)[2], ruling[FlowTrade(f)] = Step(f)[2]) \o Tail(@)]
  /\ UNCHANGED <<engineVars, rowVars, outbox, begun, userVars, faults>>

\* burnVouchesFor() lists the active vouches, then burns each.
FindVouches(f) ==
  /\ Step(f)[1] = "vouches"
  /\ flow' = IF Step(f)[2] \in vouched
             THEN [flow EXCEPT ![f] = << <<"burn", Step(f)[2]>> >> \o Tail(@)]
             ELSE Advanced(f)
  /\ UNCHANGED <<engineVars, rowVars, outbox, begun, userVars, faults>>

BurnVouch(f) ==
  /\ Step(f)[1] = "burn"
  /\ vouched' = vouched \ {Step(f)[2]}
  /\ flow' = Advanced(f)
  /\ UNCHANGED <<engineVars, rowVars, outbox, begun, tally, faults>>

PublishTradeEvent(f) ==
  /\ Step(f)[1] = "publish"
  /\ flow' = Published(FlowInstance(f), FlowTrade(f), "trade.disputed", Advanced(f))
  /\ UNCHANGED <<engineVars, rowVars, outbox, begun, userVars, faults>>

\* A call of the intent engine, step by step; if it throws, the flow is over.
CallEngine(f) ==
  /\ \/ /\ \/ Step(f)[1] = "intent" /\ Engine!ReadIntent(f, Step(f)[2])
           \/ Step(f)[1] = "insert" /\ Engine!InsertIntent(f)
           \/ Engine!ClaimTransition(f)
           \/ Engine!FindLastEvent(f)
        /\ flow' = flow
     \/ /\ Engine!CreateEvent(f)
        /\ flow' = Advanced(f)
     \/ /\ \/ Step(f)[1] = "intent" /\ Engine!RefuseTransition(f, Step(f)[2])
           \/ Engine!LoseClaim(f)
        /\ flow' = Without(flow, {f})
  /\ UNCHANGED <<rowVars, outbox, begun, userVars, faults>>

FlowStep(f) ==
  /\ f \in DOMAIN flow
  /\ \/ SetTrade(f) \/ Allow(f) \/ Count(f) \/ Judge(f) \/ FindVouches(f)
     \/ BurnVouch(f) \/ PublishTradeEvent(f) \/ CallEngine(f)

\* What a stop or a rejected query leaves of the flows in fs.
Abandoned(fs) ==
  /\ faults < MaxFaults
  /\ flow' = Without(flow, fs)
  /\ Engine!Abandon(fs)
  /\ faults' = faults + 1
  /\ UNCHANGED <<rowVars, begun, userVars>>

\* A query is rejected, and subscribe() logs it, or a message to another
\* instance is lost: the flow is gone.
RejectFlow(f) ==
  /\ Abandoned({f})
  /\ UNCHANGED outbox

\* An instance stops, with what it was about to publish.  Messages still on
\* their way may arrive after it started again.
Stop(i) ==
  /\ \E late \in SUBSET {f \in DOMAIN flow : f[2] # i /\ flow[f] = Script(f[4])} :
        Abandoned({f \in DOMAIN flow : FlowInstance(f) = i} \ late)
  /\ outbox' = {p \in outbox : p[1] # i}

Next ==
  \/ \E i \in Instances, t \in Trades :
        \/ \E to \in Statuses : EscrowMoves(i, t, to)
        \/ \E r \in Calls : StartRequest(i, t, r)
  \/ \E t \in Trades : Unrule(t) \/ \E r \in Rulings : Rule(t, r)
  \/ \E p \in outbox : PublishEscrowEvent(p)
  \/ \E f \in DOMAIN flow : FlowStep(f) \/ RejectFlow(f)
  \/ \E i \in Instances : Stop(i)

\* Some started flow goes on, and requests publish what they acknowledged: the
\* event loop runs every continuation.
Fairness ==
  /\ WF_vars(\E f \in DOMAIN flow : FlowStep(f))
  /\ WF_vars(\E p \in outbox : PublishEscrowEvent(p))

Spec == Init /\ [][Next]_vars
FairSpec == Spec /\ Fairness

-----------------------------------------------------------------------------

\* Every row holds a status of its own table, every statistic is a count, and
\* a flow that is listed has something left to run.
TypeOK ==
  /\ Engine!EngineTypeOK
  /\ escrow \in [Trades -> Statuses]
  /\ ruling \in [Trades -> Rulings \cup {"none"}]
  /\ trade \in [Trades -> TradeStatuses]
  /\ outbox \subseteq Instances \X Trades \X EscrowEvents
  /\ DOMAIN flow \subseteq Flows
  /\ \A f \in DOMAIN flow : flow[f] # <<>>
  /\ begun \subseteq Trades \X Requests
  /\ \A t \in Trades, s \in Stats, p \in Parties : tally[<<t, s, p>>] \in Nat
  /\ vouched \subseteq Parties
  /\ faults \in 0..MaxFaults

\* The intent's audit trail names no status twice and no forbidden move,
\* whichever handlers and requests call the engine at the same time.
AuditOnce == Engine!AuditOnce

AtRest == flow = <<>> /\ outbox = {}

\* Once everything has run undisturbed, the intent's event chain accounts for
\* its status: there is an event for it, and every event but the first starts
\* where another one arrived, although calls that overlap write their events
\* in any order after they moved the row.
AuditComplete ==
  AtRest /\ faults = 0 /\ intent # "none" =>
    /\ \E k \in DOMAIN chain : chain[k].to = intent
    /\ \A k \in DOMAIN chain :
          chain[k].from = "none" \/ \E j \in DOMAIN chain : chain[j].to = chain[k].from

\* Neither the intent nor the trade claims a settlement that the escrow did not
\* reach, whatever handlers overlap or stop half way.
ClaimsAreBacked ==
  /\ intent \in {"COMMITTED", "SETTLING", "FULFILLED", "FAILED"} =>
       \E t \in Trades : escrow[t] # "CREATED"
  /\ intent \in {"SETTLING", "FULFILLED"} => \E t \in Trades : escrow[t] \in {"COMPLETED", "SPLIT"}
  /\ intent = "FAILED" => \E t \in Trades : escrow[t] = "REFUNDED"
  /\ \A t \in Trades : trade[t] = "COMPLETED" => escrow[t] \in {"COMPLETED", "SPLIT"}

\* A negative outcome is recorded, and a vouch burned, only against a party
\* that a ruling went against, even if the ruling is taken back meanwhile.
PenaltyNeedsRuling ==
  \A p \in Parties :
     p \notin vouched \/ (\E t \in Trades : tally[<<t, "NEGATIVE", p>>] > 0) =>
       \E t \in Trades : <<t, IF p = "seller" THEN "RELEASE" ELSE "REFUND">> \in ruled

\* Every statistic is counted once per trade: totalTrades, the fee floor, the
\* dispute count and each party's outcome.
CountedOnce ==
  /\ \A t \in Trades, s \in Stats, p \in Parties : tally[<<t, s, p>>] <= 1
  /\ \A t \in Trades, p \in Parties :
        tally[<<t, "POSITIVE", p>>] + tally[<<t, "NEGATIVE", p>>] + tally[<<t, "NEUTRAL", p>>] <= 1

\* The trade hears of its settlement, unless a handler was cut short.
SettlementIsProjected ==
  \A t \in Trades :
     /\ <>(escrow[t] \in {"COMPLETED", "SPLIT"}) => <>(trade[t] = "COMPLETED" \/ faults > 0)
     /\ <>(escrow[t] = "REFUNDED") => <>(trade[t] = "CANCELLED" \/ faults > 0)

\* A trade that is COMPLETED keeps saying so: neither a manual status change nor
\* a late event of the same escrow overwrites it.
\* The code does not keep this: README, section 4.
CompletedStays ==
  [][\A t \in Trades : trade[t] = "COMPLETED" => trade'[t] = "COMPLETED"]_vars

=============================================================================
