---------------------------- MODULE AlertPipeline ----------------------------
(***************************************************************************)
(* What becomes of an alert: DetectionEngine._record_alert                 *)
(* (detector/engine.py) with everything it calls, and the listener of      *)
(* api/state.py that feeds the dashboard.  Recording an alert may raise    *)
(* alerts of its own (the Bayesian engine confirms a case, the kill chain  *)
(* raises a campaign) which are recorded before the first is finished, so  *)
(* the calls in progress are a stack.  Engine and dashboard each have a    *)
(* campaign engine and an entity ledger; both are fed from here.           *)
(*                                                                         *)
(* A flow is analysed without an await: routes run between two flows, but  *)
(* time passes during one (webhook retries, the timeout of ClickHouse).    *)
(* An alert's id is its place in the order of recording.                   *)
(***************************************************************************)
EXTENDS CampaignCases, KillChain, SoarQueue

CONSTANTS FlowAlerts,    \* what the detectors find in one flow: sequences of alerts
          MaxHistory,    \* max_history
          HookIds,       \* ids of webhooks
          HookSettings,  \* the settings they are registered with
          Stamps,        \* the times that exporters write into flows
          MaxFlows,      \* bound: flows analysed
          MaxEvents      \* bound: flows, calls of the routes of webhooks, DLQ and
                         \* cases, and ticks of the clock, taken together

ASSUME FlowsAssumption ==
  /\ \A alerts \in FlowAlerts : /\ alerts \in Seq(ToSet(alerts))
                                /\ \A i \in DOMAIN alerts : alerts[i].src \in Sources
  /\ Stamps \subseteq Int

VARIABLES now,       \* the clock
          pending,   \* generated_alerts still to be recorded
          stack,     \* calls of _record_alert in progress, innermost last
          recorded,  \* history: every alert recorded
          history,   \* alerts_history, by id
          stats,     \* stats["by_severity"]
          returned,  \* final_emitted_alerts, by id
          engine,    \* campaign_engine of the engine
          dash,      \* campaign_engine of the dashboard
          chain,     \* kill_chain_correlator
          soar,      \* soar_dispatcher
          ledgers,   \* history: what the two entity ledgers were given
          chReachable, \* ch_reachable
          done       \* history: events, deliveries answered, campaigns raised, ...

vars == <<now, pending, stack, recorded, history, stats, returned, engine, dash,
          chain, soar, ledgers, chReachable, done>>

outside == <<soar, chReachable>>

Init == /\ now = 0 /\ pending = <<>> /\ stack = <<>> /\ recorded = <<>>
        /\ history = <<>> /\ stats = [s \in DOMAIN SeverityOrder |-> 0]
        /\ returned = <<>> /\ engine = NoEngine /\ dash = NoEngine
        /\ chain = NoKillChain /\ soar = NoSoar
        /\ ledgers = [engine |-> <<>>, dash |-> <<>>, cases |-> <<>>]
        /\ chReachable = TRUE
        /\ done = [events |-> 0, flows |-> 0, acked |-> <<>>, eligible |-> {},
                   confirmed |-> {}, campaigns |-> {}, ids |-> {}, steady |-> TRUE]

Top == stack[Len(stack)]
Idle == stack = <<>> /\ pending = <<>>
At(step) == stack # <<>> /\ Top.pc = step
Goto(step) == [stack EXCEPT ![Len(stack)].pc = step]
Call(calls, alert) == Append(calls, [alert |-> alert, id |-> 0, pc |-> "record", campaign |-> 0])
-----------------------------------------------------------------------------
(* analyze_flow *)

\* Some detectors give an alert the time that its flow carries, which may lie
\* far behind or before the clock; the others take the clock's.
TimeOf(alert, stamp) == IF alert.ofFlow THEN stamp ELSE now

AnalyzeFlow(alerts, stamp) ==
  /\ Idle /\ done.flows < MaxFlows /\ done.events < MaxEvents
  /\ pending' = [i \in DOMAIN alerts |->
       [category |-> alerts[i].category, severity |-> alerts[i].severity,
        src |-> alerts[i].src, dst |-> alerts[i].dst, sure |-> alerts[i].sure,
        time |-> TimeOf(alerts[i], stamp)]]
  /\ returned' = <<>>
  /\ done' = [done EXCEPT !.events = @ + 1, !.flows = @ + 1]
  /\ UNCHANGED <<now, stack, recorded, history, stats, engine, dash, chain,
                 ledgers, outside>>

\* The loop at the end of analyze_flow takes the next alert.
NextAlert ==
  /\ stack = <<>> /\ pending # <<>>
  /\ stack' = Call(<<>>, Head(pending))
  /\ pending' = Tail(pending)
  /\ returned' = Append(returned, Len(recorded) + 1)
  /\ UNCHANGED <<now, recorded, history, stats, engine, dash, chain, ledgers,
                 outside, done>>
-----------------------------------------------------------------------------
(* _record_alert *)

\* alerts_history after pop(0).
KeepNewest(h) == IF Len(h) > MaxHistory THEN Tail(h) ELSE h

CountSeverity(alert) == [stats EXCEPT ![alert.severity] = @ + 1]

\* Mutant: only alerts of detectors reach the observers.
NotifyDetectorsOnly(alert) == alert.category # "ATTACK_CAMPAIGN"
\* Every recorded alert reaches the listener.
Notifies(alert) == TRUE

\* Statistics, history, and the listener on_security_alert.
Record ==
  /\ At("record")
  /\ LET alert == Top.alert
         id    == Len(recorded) + 1
         d     == Ingest(dash, alert, now)
     IN  /\ recorded' = Append(recorded, alert)
         /\ history' = KeepNewest(Append(history, id))
         /\ stats' = CountSeverity(alert)
         /\ IF Notifies(alert)
            THEN /\ dash' = d.engine
                 /\ ledgers' = [ledgers EXCEPT !.dash = Append(@, id),
                      !.cases = IF d.escalated = <<>> THEN @ ELSE Append(@, id)]
            ELSE UNCHANGED <<dash, ledgers>>
         /\ stack' = [stack EXCEPT ![Len(stack)].pc = "dispatch", ![Len(stack)].id = id]
  /\ UNCHANGED <<now, pending, returned, engine, chain, outside, done>>

\* The attack graph and the webhooks; accepted: those that answer in time.
DispatchAlert(accepted) ==
  /\ At("dispatch")
  /\ LET to == Eligible(soar, Top.alert)
     IN  /\ accepted \subseteq to
         /\ soar' = Dispatch(soar, Top.alert, Top.id, accepted)
         /\ done' = [done EXCEPT
              !.eligible = @ \union {<<h, Top.id>> : h \in to},
              !.acked = @ \o [i \in 1..Cardinality(accepted) |->
                                <<SetToSeq(accepted)[i], Top.id>>]]
  /\ stack' = Goto("correlate")
  /\ UNCHANGED <<now, pending, recorded, history, stats, returned, engine, dash,
                 chain, ledgers, chReachable>>

\* The engine's entity ledger, then its campaign engine: a case that is
\* confirmed records its alert at once.
CorrelateCase ==
  /\ At("correlate")
  /\ LET r == Ingest(engine, Top.alert, now)
     IN  /\ engine' = r.engine
         /\ IF r.escalated = <<>> THEN stack' = Goto("persist") /\ UNCHANGED done
            ELSE /\ stack' = Call(Goto("persist"),
                      [category |-> "ATTACK_CAMPAIGN", severity |-> "CRITICAL",
                       src |-> r.escalated[1].src, dst |-> r.escalated[1].dst,
                       sure |-> r.engine.cases[r.case].prob >= 9000, time |-> now])
                 /\ done' = [done EXCEPT !.confirmed = @ \union {Len(recorded) + 1}]
  /\ ledgers' = [ledgers EXCEPT !.engine = Append(@, Top.id)]
  /\ UNCHANGED <<now, pending, recorded, history, stats, returned, dash, chain,
                 outside>>

\* _persist_alert_to_db; ok: ClickHouse answers in time.  A network error opens
\* the circuit breaker for good.
Persist(ok) ==
  /\ At("persist") /\ chReachable' = (chReachable /\ ok)
  /\ stack' = Goto("chain")
  /\ UNCHANGED <<now, pending, recorded, history, stats, returned, engine, dash,
                 chain, soar, ledgers, done>>

\* The kill chain: the campaign it raises is recorded before the call returns.
CorrelateChain ==
  /\ At("chain")
  /\ LET r == Correlate(chain, Top.alert, now)
     IN  /\ chain' = r.chain
         /\ IF r.campaign = <<>> THEN stack' = Goto("return") /\ UNCHANGED done
            ELSE /\ stack' = Call([Goto("return") EXCEPT
                                     ![Len(stack)].campaign = Len(recorded) + 1],
                                  r.campaign[1])
                 /\ done' = [done EXCEPT !.campaigns = @ \union {Len(recorded) + 1}]
  /\ UNCHANGED <<now, pending, recorded, history, stats, returned, engine, dash,
                 ledgers, outside>>

\* Mutant: the campaign that a call returns is not kept.
ResultDropped == returned
\* analyze_flow adds the campaign that its own call returned.
ResultOf == IF Len(stack) = 1 /\ Top.campaign # 0
            THEN Append(returned, Top.campaign) ELSE returned

\* A call returns.
Return ==
  /\ At("return")
  /\ stack' = Front(stack)
  /\ returned' = ResultOf
  /\ UNCHANGED <<now, pending, recorded, history, stats, engine, dash, chain,
                 ledgers, outside, done>>

\* Time passes between two flows, and where a call waits: in the retries of a
\* delivery and in the request to ClickHouse.
Tick == /\ Idle \/ At("correlate") \/ At("chain")
        /\ done.events < MaxEvents /\ now' = now + 1
        /\ done' = [done EXCEPT !.events = @ + 1, !.steady = @ /\ Idle]
        /\ UNCHANGED <<pending, stack, recorded, history, stats, returned, engine,
                       dash, chain, ledgers, outside>>
-----------------------------------------------------------------------------
(* Routes, between two flows *)

RouteCall == Idle /\ done.events < MaxEvents
Others == <<now, pending, stack, recorded, history, stats, returned, engine, chain,
            ledgers, chReachable>>

RegisterWebhook(h, s) ==
  /\ RouteCall /\ h \notin done.ids
  /\ soar' = Register(soar, h, s.level, s.enabled)
  /\ done' = [done EXCEPT !.events = @ + 1, !.ids = @ \union {h}]
  /\ UNCHANGED <<Others, dash>>

DeleteWebhook(h) ==
  /\ RouteCall /\ h \in DOMAIN soar.hooks
  /\ soar' = Delete(soar, h)
  /\ done' = [done EXCEPT !.events = @ + 1]
  /\ UNCHANGED <<Others, dash>>

\* All items or one; ok and broken: what their endpoints do.
RetryDlq(which, ok, broken) ==
  /\ RouteCall /\ ok \intersect broken = {}
  /\ soar' = RetryItems(soar, which, ok, broken)
  /\ done' = [done EXCEPT !.events = @ + 1,
       !.acked = @ \o [i \in 1..Cardinality(ok) |->
                         LET item == soar.dlq[SetToSeq(ok)[i]] IN <<item.hook, item.alert>>]]
  /\ UNCHANGED <<Others, dash>>

\* The analyst's status goes to the dashboard's case, not to the engine's.
UpdateCase(c) ==
  /\ RouteCall /\ c \in DOMAIN dash.cases
  /\ dash' = [dash EXCEPT !.cases[c].status = "CONTAINED"]
  /\ done' = [done EXCEPT !.events = @ + 1, !.steady = FALSE]
  /\ UNCHANGED <<Others, soar>>

Next == \/ \E alerts \in FlowAlerts, stamp \in Stamps : AnalyzeFlow(alerts, stamp)
        \/ NextAlert \/ Record \/ CorrelateCase \/ CorrelateChain \/ Return
        \/ \E accepted \in SUBSET HookIds : DispatchAlert(accepted)
        \/ \E ok \in BOOLEAN : Persist(ok)
        \/ Tick
        \/ \E h \in HookIds, s \in HookSettings : RegisterWebhook(h, s)
        \/ \E h \in HookIds : DeleteWebhook(h)
        \/ \E which \in {Pending(soar)} \union {{i} : i \in Pending(soar)} :
             \E ok, broken \in SUBSET which : which # {} /\ RetryDlq(which, ok, broken)
        \/ \E c \in DOMAIN dash.cases : UpdateCase(c)

Spec == Init /\ [][Next]_vars
-----------------------------------------------------------------------------
Ids == DOMAIN recorded
UpTo(n) == [i \in 1..n |-> i]
IsQueued(h, id) == \E i \in DOMAIN soar.dlq :
                     /\ soar.dlq[i].hook = h /\ soar.dlq[i].alert = id
                     /\ soar.dlq[i].status = "FAILED"
Processed(src) == {i \in Ids : /\ recorded[i].category # "ATTACK_CAMPAIGN"
                               /\ recorded[i].src = src}

\* Between two flows the dashboard shows the cases of the engine, and has
\* charged each confirmed case to its ledger once more (api/state.py lines
\* 126-131), provided that no case was given a status and that the clock stood
\* still inside the calls; and both entity ledgers were given every recorded
\* alert once and in one order (engine.py lines 353-368).
DashboardMirrorsEngine ==
  /\ Idle => /\ ledgers.dash = UpTo(Len(recorded))
             /\ ledgers.engine = UpTo(Len(recorded))
  /\ Idle /\ done.steady =>
       dash = engine /\ Len(ledgers.cases) = Cardinality(done.confirmed)

\* analyze_flow returns what the detectors found and the campaigns of the kill
\* chain, in the order of recording; what it records and does not return is the
\* alerts of confirmed cases (lines 204-218, 371-376).
ReturnedIsComplete ==
  /\ \A i, j \in DOMAIN returned : i < j => returned[i] < returned[j]
  /\ Idle /\ returned # <<>> =>
       returned[1]..Len(recorded)
         = ToSet(returned) \union (done.confirmed \intersect returned[1]..Len(recorded))
  /\ ToSet(returned) \intersect done.confirmed = {}

NoAlertLost ==
  \A p \in done.eligible : p \in ToSet(done.acked) \/ IsQueued(p[1], p[2])

AnsweredOnce ==
  /\ \A i, j \in DOMAIN done.acked : i # j => done.acked[i] # done.acked[j]
  /\ \A i \in DOMAIN done.acked : ~IsQueued(done.acked[i][1], done.acked[i][2])

\* docs/05_GRAFOS_PATIENT_ZERO_Y_SOAR.md line 95: an alert for a webhook was
\* answered by its endpoint or waits in the dead-letter queue (dispatcher.py
\* lines 249-315, 337-366), even when the webhook is gone; and no endpoint
\* that answered is sent it again, by retries of one item or of all.
AnsweredOrQueued == NoAlertLost /\ AnsweredOnce

\* An alert that its source's kill chain was given after a newer one.
Late(i) == \E j \in Processed(recorded[i].src) :
             j < i /\ recorded[j].time > recorded[i].time

ChainHistoryIsWindow ==
  \A s \in Sources :
    LET h == chain.history[s]
        p == Processed(s)
    IN  /\ \A x \in DOMAIN h : \E i \in p :
             /\ h[x] = recorded[i]
             /\ Late(i) \/ \A y \in DOMAIN h : h[y].time <= h[x].time + CorrelationWindow
        /\ Idle => \A i \in p :
             (\A j \in p : i < j => recorded[i].time >= recorded[j].time - CorrelationWindow)
               => recorded[i] \in ToSet(h)

CampaignsRestOnStages ==
  \A k \in done.campaigns \intersect Ids :
    LET before == {i \in 1..k - 1 : /\ recorded[i].src = recorded[k].src
                                    /\ KillStages(recorded[i].category) # {}}
    IN  /\ \E i, j \in before :
             /\ KillStages(recorded[i].category) # KillStages(recorded[j].category)
             /\ \/ recorded[i].time - recorded[j].time \in 0..CorrelationWindow
                \/ Late(i) \/ Late(j)
        /\ Idle => Cardinality({c \in done.campaigns : recorded[c].src = recorded[k].src})
             = Cardinality(chain.alerted[recorded[k].src])

\* The history of a source is its window (correlator.py lines 60-63), whatever
\* times the flows carry: an alert in it that some other one leaves behind by
\* more than the window is one that came late, after a newer alert, for the
\* loop looks at the head alone; and no alert that every later one still has
\* in its window is missing.  So a campaign of the kill chain rests on two
\* stages its source went through within the window (66-75), unless one of the
\* two alerts was late, and a source has no more campaigns than it has sets of
\* stages (78-82).
CampaignsAreEarned == ChainHistoryIsWindow /\ CampaignsRestOnStages
=============================================================================
