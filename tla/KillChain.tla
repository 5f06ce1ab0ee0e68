------------------------------ MODULE KillChain ------------------------------
(***************************************************************************)
(* The computations of AttackKillChainCorrelator (detector/correlator.py): *)
(* the alerts of one source wait in a history, in the order they came, and *)
(* the set of stages among them raises a campaign once.  An alert carries  *)
(* the time of its flow, which may lie behind the clock.                   *)
(***************************************************************************)
EXTENDS Integers, Sequences, FiniteSets, SequencesExt

CONSTANTS Sources,       \* IP addresses that send alerts
          CorrelationWindow  \* correlation_window_seconds, in units of the clock

ASSUME WindowAssumption == CorrelationWindow \in Nat

\* KILL_CHAIN_STAGES: none for a category that is not listed.
KillStages(category) ==
  CASE category \in {"PORT_SCAN", "ANOMALY_ML"} -> {"RECONNAISSANCE"}
    [] category \in {"MALICIOUS_C2", "C2_BEACONING", "DNS_TUNNEL"} -> {"COMMAND_AND_CONTROL"}
    [] category = "LATERAL_MOVEMENT" -> {"LATERAL_MOVEMENT"}
    [] category \in {"EXFILTRATION", "SYN_FLOOD"} -> {"ACTIONS_ON_OBJECTIVES"}
    [] OTHER -> {}

\* history: the alerts of a source; alerted: the stage sets already raised.
NoKillChain == [history |-> [s \in Sources |-> <<>>],
                alerted |-> [s \in Sources |-> {}]]

\* Mutant: nothing is removed.
PruneNothing(history, cutoff) == history
\* The while loop: alerts leave from the head, up to the first one that is
\* still in the window.
Prune(history, cutoff) ==
  LET old == {i \in DOMAIN history : \A j \in 1..i : history[j].time < cutoff}
  IN  SubSeq(history, Cardinality(old) + 1, Len(history))

StagesIn(history) == UNION {KillStages(a.category) : a \in ToSet(history)}

\* The destination the campaign names: that of the last alert with an external
\* one, otherwise that of the present alert.
TargetOf(history, alert) ==
  LET external == {i \in DOMAIN history : history[i].category
                     \in {"MALICIOUS_C2", "C2_BEACONING", "EXFILTRATION"}}
  IN  IF external = {} THEN alert.dst
      ELSE history[CHOOSE i \in external : \A j \in external : j <= i].dst

\* process_alert: the correlator afterwards, and the campaign it raises (a
\* sequence of none or one).  The campaign is new, so it has the present time.
Correlate(k, alert, now) ==
  LET src     == alert.src
      history == Prune(Append(k.history[src], alert), alert.time - CorrelationWindow)
      stages  == StagesIn(history)
      raise   == Cardinality(stages) >= 2 /\ stages \notin k.alerted[src]
  IN  IF alert.category = "ATTACK_CAMPAIGN" THEN [chain |-> k, campaign |-> <<>>]
      ELSE [chain |-> [k EXCEPT !.history[src] = history,
                                !.alerted[src] = IF raise THEN @ \union {stages} ELSE @],
            campaign |-> IF raise
                         THEN <<[category |-> "ATTACK_CAMPAIGN", severity |-> "CRITICAL",
                                 src |-> src, dst |-> TargetOf(history, alert),
                                 sure |-> TRUE, time |-> now]>>
                         ELSE <<>>]
=============================================================================
