------------------------------ MODULE SoarQueue ------------------------------
(***************************************************************************)
(* The computations of SOARWebhookDispatcher (detector/dispatcher.py): an  *)
(* alert goes to every enabled webhook whose minimum severity it reaches,  *)
(* up to max_retries times, and what is not delivered waits in the         *)
(* dead-letter queue.  What an endpoint answers is a parameter.  A webhook *)
(* id is not used again after its subscription was deleted.                *)
(***************************************************************************)
EXTENDS Naturals, Sequences, FiniteSets, SequencesExt, Functions

CONSTANT MaxRetries   \* max_retries

\* SEVERITY_ORDER.
SeverityOrder == [INFO |-> 1, LOW |-> 2, MEDIUM |-> 3, HIGH |-> 4, CRITICAL |-> 5]

\* hooks: the subscriptions by id; dlq: the dead-letter queue; contained: the
\* alerts in containments_history.
NoSoar == [hooks |-> <<>>, dlq |-> <<>>, contained |-> <<>>]

\* evaluate_auto_containment; sure: the confidence reaches the threshold.
AutoContains(alert) ==
  /\ alert.sure
  /\ \/ alert.severity = "CRITICAL"
     \/ /\ alert.severity = "HIGH"
        /\ alert.category \in {"MALICIOUS_C2", "LATERAL_MOVEMENT", "EXFILTRATION"}

\* The webhooks an alert is for.
Eligible(soar, alert) ==
  {h \in DOMAIN soar.hooks :
     soar.hooks[h].enabled /\
     SeverityOrder[alert.severity] >= SeverityOrder[soar.hooks[h].level]}

DeadLetter(h, id) == [hook |-> h, alert |-> id, attempts |-> MaxRetries, status |-> "FAILED"]

\* Mutant: a delivery that failed is counted and not queued.
DispatchForgets(soar, alert, id, accepted) ==
  LET to == Eligible(soar, alert)
  IN  [hooks |-> [h \in DOMAIN soar.hooks |->
         IF h \in to \intersect accepted THEN [soar.hooks[h] EXCEPT !.deliveries = @ + 1]
         ELSE IF h \in to THEN [soar.hooks[h] EXCEPT !.failures = @ + 1]
         ELSE soar.hooks[h]],
       dlq |-> soar.dlq,
       contained |-> IF AutoContains(alert) THEN Append(soar.contained, id) ELSE soar.contained]
\* dispatch_alert of the alert with this id, when the webhooks accepted answer
\* one of the attempts.
Dispatch(soar, alert, id, accepted) ==
  LET to == Eligible(soar, alert)
  IN  [hooks |-> [h \in DOMAIN soar.hooks |->
         IF h \in to \intersect accepted THEN [soar.hooks[h] EXCEPT !.deliveries = @ + 1]
         ELSE IF h \in to THEN [soar.hooks[h] EXCEPT !.failures = @ + 1]
         ELSE soar.hooks[h]],
       dlq |-> soar.dlq \o [i \in 1..Cardinality(to \ accepted) |->
                              DeadLetter(SetToSeq(to \ accepted)[i], id)],
       contained |-> IF AutoContains(alert) THEN Append(soar.contained, id) ELSE soar.contained]

Pending(soar) == {i \in DOMAIN soar.dlq : soar.dlq[i].status = "FAILED"}

\* retry_dlq of the items in which: those in ok are answered, those in
\* broken raise, the others answer False and stay as they are.  An item is
\* sent whether or not its webhook is still registered.
RetryItems(soar, which, ok, broken) ==
  LET q == soar.dlq
  IN  [soar EXCEPT !.dlq = [i \in DOMAIN q |->
         IF i \in which \intersect ok THEN [q[i] EXCEPT !.status = "RESOLVED"]
         ELSE IF i \in which \intersect broken THEN [q[i] EXCEPT !.attempts = @ + 1]
         ELSE q[i]]]

Register(soar, h, level, enabled) ==
  [soar EXCEPT !.hooks = [x \in DOMAIN @ \union {h} |->
     IF x = h THEN [level |-> level, enabled |-> enabled, deliveries |-> 0, failures |-> 0]
     ELSE @[x]]]

Delete(soar, h) == [soar EXCEPT !.hooks = Restrict(@, DOMAIN @ \ {h})]
=============================================================================
