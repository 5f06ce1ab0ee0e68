---------------------------- MODULE CampaignCases ---------------------------
(***************************************************************************)
(* The computations of BayesianCampaignEngine                              *)
(* (detector/campaign_correlator.py): which stage an alert belongs to, how *)
(* an alert changes the odds of its case, and which case takes it.  An     *)
(* engine is a record: its cases in the order of their creation, and for   *)
(* each asset the number of its case, 0 for none.                          *)
(***************************************************************************)
EXTENDS Naturals, Sequences, FiniteSets, SequencesExt

CONSTANTS Assets,   \* IP addresses
          NoAsset,  \* 0.0.0.0
          Window    \* time_window_seconds, in units of the clock

ASSUME NoAssetIsNone == NoAsset \notin Assets

\* map_alert_to_stage.
StageOf(category) ==
  CASE category = "SYN_FLOOD"        -> "IMPACT"
    [] category = "LATERAL_MOVEMENT" -> "LATERAL_MOVEMENT"
    [] category = "IDENTITY_ATTACK"  -> "CREDENTIAL_ACCESS"
    [] category \in {"MALICIOUS_C2", "C2_BEACONING", "ANOMALOUS_TLS", "DGA_DOMAIN"}
         -> "COMMAND_AND_CONTROL"
    [] category \in {"EXFILTRATION", "DNS_TUNNEL"} -> "EXFILTRATION"
    [] OTHER -> "RECONNAISSANCE"

Stages == {"RECONNAISSANCE", "INITIAL_ACCESS", "LATERAL_MOVEMENT",
           "CREDENTIAL_ACCESS", "COMMAND_AND_CONTROL", "EXFILTRATION", "IMPACT"}

\* MARKOV_TRANSITIONS in twentieths; 8 where the matrix has no entry.
Transition(from, to) ==
  LET row == CASE from = "RECONNAISSANCE" ->
                    [INITIAL_ACCESS |-> 13, LATERAL_MOVEMENT |-> 14,
                     CREDENTIAL_ACCESS |-> 10]
               [] from = "INITIAL_ACCESS" ->
                    [LATERAL_MOVEMENT |-> 16, CREDENTIAL_ACCESS |-> 15,
                     COMMAND_AND_CONTROL |-> 17]
               [] from = "LATERAL_MOVEMENT" ->
                    [CREDENTIAL_ACCESS |-> 17, COMMAND_AND_CONTROL |-> 15,
                     EXFILTRATION |-> 13]
               [] from = "CREDENTIAL_ACCESS" ->
                    [LATERAL_MOVEMENT |-> 16, COMMAND_AND_CONTROL |-> 17,
                     EXFILTRATION |-> 18]
               [] from = "COMMAND_AND_CONTROL" ->
                    [LATERAL_MOVEMENT |-> 14, EXFILTRATION |-> 19, IMPACT |-> 16]
               [] from = "EXFILTRATION" -> [IMPACT |-> 12]
               [] OTHER -> <<>>
  IN  IF to \in DOMAIN row THEN row[to] ELSE 8

SeverityWeight == [LOW |-> 15, MEDIUM |-> 25, HIGH |-> 45, CRITICAL |-> 80]

\* round(n / d, 4) in ten-thousandths, for n < d: a long division, so that no
\* product outgrows 32 bits.
NextDigit(a, d) == [q |-> 10 * a.q + (10 * a.r) \div d, r |-> (10 * a.r) % d]
Ratio(n, d) ==
  LET one    == NextDigit([q |-> 0, r |-> n], d)
      two    == NextDigit(one, d)
      three  == NextDigit(two, d)
      digits == NextDigit(three, d)
  IN  digits.q + (IF 2 * digits.r >= d THEN 1 ELSE 0)

Clamp(lo, x, hi) == IF x < lo THEN lo ELSE IF x > hi THEN hi ELSE x

\* Mutant: the odds are divided by the likelihood ratio.
PosteriorInverted(prob, weight, bonus) ==
  LET p == Clamp(100, prob, 9990)
      n == p * 400
  IN  Clamp(0, Ratio(n, n + (10000 - p) * weight * (40 + bonus)), 9990)
\* The odds form of Bayes' rule, in ten-thousandths: weight is in tenths and
\* the bonus of the transition in fortieths.
Posterior(prob, weight, bonus) ==
  LET p == Clamp(100, prob, 9990)
      n == p * weight * (40 + bonus)
  IN  Clamp(0, Ratio(n, n + (10000 - p) * 400), 9990)
-----------------------------------------------------------------------------
NoEngine == [cases |-> <<>>, caseOf |-> [a \in Assets |-> 0]]

NewCase(src, now) == [primary |-> src, assets |-> {}, stages |-> {}, last |-> "none",
                      prob |-> 500, status |-> "ACTIVE", updated |-> now, size |-> 0]

\* A case that is still within its window.
Live(e, c, now) == c # 0 /\ now - e.cases[c].updated <= Window

CaseOf(e, a) == IF a = NoAsset THEN 0 ELSE e.caseOf[a]

\* The case an alert belongs to: that of the source, or of the destination
\* when the source has none; a new one when that case has left its window.
Resolve(e, alert, now) ==
  LET c == IF CaseOf(e, alert.src) # 0 THEN CaseOf(e, alert.src)
                                       ELSE CaseOf(e, alert.dst)
  IN  IF Live(e, c, now) THEN c ELSE Len(e.cases) + 1

\* Mutant: one stage is enough.
EscalatesAnyway(case) == case.prob >= 8500 /\ case.status # "ESCALATED"
Escalates(case) == /\ Cardinality(case.stages) >= 2 /\ case.prob >= 8500
                   /\ case.status # "ESCALATED"

\* The case c after an alert.
Grow(c, alert, now) ==
  LET stage == StageOf(alert.category)
      bonus == IF c.last \in {"none", stage} THEN 0 ELSE Transition(c.last, stage)
      grown == [c EXCEPT
                  !.assets = @ \union ({alert.src, alert.dst} \ {NoAsset}),
                  !.stages = @ \union {stage}, !.last = stage,
                  !.prob = Posterior(@, SeverityWeight[alert.severity], bonus),
                  !.updated = now, !.size = @ + 1]
  IN  IF Escalates(grown) THEN [grown EXCEPT !.status = "ESCALATED"] ELSE grown

\* Both ends of the alert now belong to its case.
MoveAssets(e, alert, c) ==
  [a \in Assets |-> IF a \in {alert.src, alert.dst} THEN c ELSE e.caseOf[a]]

\* ingest_alert: the engine afterwards, the case, and the consolidated alert
\* when the case has just escalated (a sequence of none or one).
Ingest(e, alert, now) ==
  LET c      == Resolve(e, alert, now)
      before == IF c > Len(e.cases) THEN NewCase(alert.src, now) ELSE e.cases[c]
      case   == Grow(before, alert, now)
      cases  == IF c > Len(e.cases) THEN Append(e.cases, case)
                                    ELSE [e.cases EXCEPT ![c] = case]
  IN  [engine |-> [cases |-> cases, caseOf |-> MoveAssets(e, alert, c)],
       case |-> c,
       escalated |->
         IF Escalates([case EXCEPT !.status = before.status])
         THEN <<[category |-> "ATTACK_CAMPAIGN", severity |-> "CRITICAL",
                 src |-> case.primary, dst |-> alert.dst]>>
         ELSE <<>>]
=============================================================================
