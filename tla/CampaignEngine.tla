--------------------------- MODULE CampaignEngine ---------------------------
(***************************************************************************)
(* BayesianCampaignEngine as the API and its callers drive it: alerts are  *)
(* ingested one by one, time passes, and an analyst sets the status of a   *)
(* case (api/routes/campaigns.py).                                         *)
(***************************************************************************)
EXTENDS CampaignCases

CONSTANTS Alerts,     \* the alerts that may come
          MaxAlerts,  \* bound: alerts ingested
          MaxTime,    \* bound: the clock
          MaxUpdates  \* bound: statuses set by analysts

ASSUME AlertsAssumption ==
  \A alert \in Alerts : /\ alert.severity \in DOMAIN SeverityWeight
                        /\ {alert.src, alert.dst} \subseteq Assets \union {NoAsset}

VARIABLES engine,   \* the engine
          now,      \* time.time()
          log,      \* history: the alerts, each with its case and time
          raised,   \* history: consolidated alerts of each case
          reopened  \* history: statuses set for each case

vars == <<engine, now, log, raised, reopened>>

Init == /\ engine = NoEngine /\ now = 0 /\ log = <<>>
        /\ raised = <<>> /\ reopened = <<>>

At(f, c) == IF c \in DOMAIN f THEN f[c] ELSE 0

IngestAlert(alert) ==
  /\ Len(log) < MaxAlerts
  /\ LET r == Ingest(engine, alert, now)
         n == Len(r.engine.cases)
     IN  /\ engine' = r.engine
         /\ log' = Append(log, [alert |-> alert, case |-> r.case, time |-> now])
         /\ raised' = [c \in 1..n |->
              At(raised, c) + IF c = r.case THEN Len(r.escalated) ELSE 0]
         /\ reopened' = [c \in 1..n |-> At(reopened, c)]
  /\ UNCHANGED now

Advance == now < MaxTime /\ now' = now + 1 /\ UNCHANGED <<engine, log, raised, reopened>>

\* update_campaign_status: any status, in upper case.
UpdateStatus(c, status) ==
  /\ FoldFunction(+, 0, reopened) < MaxUpdates
  /\ c \in DOMAIN engine.cases
  /\ engine' = [engine EXCEPT !.cases[c].status = status]
  /\ reopened' = [reopened EXCEPT ![c] = @ + 1]
  /\ UNCHANGED <<now, log, raised>>

Next == \/ \E alert \in Alerts : IngestAlert(alert)
        \/ Advance
        \/ \E c \in DOMAIN engine.cases, s \in {"CONTAINED", "ESCALATED"} :
             UpdateStatus(c, s)

Spec == Init /\ [][Next]_vars
-----------------------------------------------------------------------------
Cases == DOMAIN engine.cases
LogOf(c) == {i \in DOMAIN log : log[i].case = c}

\* No step makes a case less likely or lets it forget a stage or an asset
\* (lines 163-204): every alert is evidence for the intrusion.
EvidenceGrows ==
  [][\A c \in Cases : /\ engine'.cases[c].prob >= engine.cases[c].prob
                      /\ engine.cases[c].stages \subseteq engine'.cases[c].stages
                      /\ engine.cases[c].assets \subseteq engine'.cases[c].assets]_vars

EscalationNeedsEvidence ==
  \A c \in Cases :
    /\ raised[c] > 0 => /\ Cardinality(engine.cases[c].stages) >= 2
                        /\ engine.cases[c].size >= 2
                        /\ engine.cases[c].prob >= 8500
    /\ engine.cases[c].status = "ESCALATED" /\ reopened[c] = 0 => raised[c] = 1

CasesAreCoherent ==
  \A c \in Cases :
    /\ Cardinality(LogOf(c)) = engine.cases[c].size
    /\ \A i, j \in LogOf(c) :
         i < j /\ (\A k \in LogOf(c) : k <= i \/ j <= k)
           => log[j].time - log[i].time <= Window

AssetsFollowLastAlert ==
  \A a \in Assets :
    LET mine == {i \in DOMAIN log : a \in {log[i].alert.src, log[i].alert.dst}}
        last == CHOOSE i \in mine : \A j \in mine : j <= i
    IN  IF mine = {} THEN engine.caseOf[a] = 0
        ELSE /\ engine.caseOf[a] = log[last].case
             /\ a \in engine.cases[engine.caseOf[a]].assets

\* Cases tell the history of their alerts: a campaign is confirmed on two
\* alerts of two stages and a posterior of 0.85, and a confirmed case raised
\* its alert once unless an analyst set the status (lines 207-210); each alert
\* is in one case, no further from the one before than the window (154-158);
\* and an asset points to the case of the last alert that named it (164-170).
CasesMatchHistory ==
  EscalationNeedsEvidence /\ CasesAreCoherent /\ AssetsFollowLastAlert
=============================================================================
