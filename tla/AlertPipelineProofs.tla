------------------------- MODULE AlertPipelineProofs -------------------------
(***************************************************************************)
(* What is proved of the recording of alerts, for every flow, every set of *)
(* webhooks and whatever their endpoints answer.  How the campaign engine  *)
(* judges an alert is of no account here: Ingest is a function of the      *)
(* engine, the alert and the clock.                                        *)
(***************************************************************************)
EXTENDS AlertPipeline, DataLemmas

Steps == {"record", "dispatch", "correlate", "persist", "chain", "return"}

IsFrame(f) == f \in [alert : {f.alert}, id : Nat, pc : Steps, campaign : Nat]

\* A call that is not the innermost waits in one of the two places where it
\* records another alert; those it records are campaigns, which raise none.
\* n: alerts recorded.
Calls(calls, n) ==
  /\ IsSequence(calls)
  /\ \A i \in 1..Len(calls) :
       /\ IsFrame(calls[i])
       /\ i < Len(calls) => calls[i].pc \in {"persist", "return"}
       /\ i > 1 => calls[i].alert.category = "ATTACK_CAMPAIGN" /\ calls[i].campaign = 0
       /\ calls[i].campaign # 0 => calls[i].pc = "return"
       /\ calls[i].pc \in {"dispatch", "correlate"} => calls[i].id = n /\ n > 0

IsDone(d) ==
  d \in [events : Nat, flows : Nat, acked : {d.acked}, eligible : {d.eligible},
         confirmed : {d.confirmed}, campaigns : {d.campaigns}, ids : {d.ids},
         steady : BOOLEAN]

TypeOK ==
  /\ IsSequence(recorded) /\ returned \in Seq(Nat)
  /\ Calls(stack, Len(recorded))
  /\ ledgers \in [engine : Seq(Nat), dash : Seq(Nat), cases : Seq(Nat)]
  /\ IsDone(done)

\* The innermost call has recorded its alert, which the engine has not yet seen.
Lagging == At("dispatch") \/ At("correlate")

\* The numbers given to alerts, the one about to be recorded included.
Reached == IF At("record") THEN Len(recorded) + 1 ELSE Len(recorded)

\* In the middle of a call the dashboard is ahead of the engine by one alert.
Mirrored ==
  /\ ledgers.dash = UpTo(Len(recorded))
  /\ ledgers.engine = UpTo(IF Lagging THEN Len(recorded) - 1 ELSE Len(recorded))
  /\ done.confirmed \subseteq 1..Reached
  /\ done.steady /\ ~Lagging =>
       dash = engine /\ Len(ledgers.cases) = Cardinality(done.confirmed)
  /\ done.steady /\ Lagging =>
       LET r == Ingest(engine, Top.alert, now)
       IN  /\ dash = r.engine
           /\ Len(ledgers.cases) = Cardinality(done.confirmed)
                                     + (IF r.escalated = <<>> THEN 0 ELSE 1)

\* The campaign that the outermost call is going to return.
Coming == IF stack = <<>> \/ stack[1].campaign = 0 THEN {} ELSE {stack[1].campaign}

Accounted == ToSet(returned) \union done.confirmed \union Coming

Collected ==
  /\ Increasing(returned) /\ ToSet(returned) \union Coming \subseteq 1..Reached
  /\ stack # <<>> => returned # <<>>
  /\ \A c \in Coming : c \notin done.confirmed /\ \A i \in DOMAIN returned : returned[i] < c
  /\ ToSet(returned) \intersect done.confirmed = {}
  /\ returned # <<>> => returned[1]..Reached \subseteq Accounted

\* Alerts that were dispatched.
Dispatched == IF At("dispatch") THEN Len(recorded) - 1 ELSE Len(recorded)

\* A dead-letter queue that holds no delivery twice, of alerts up to the m-th.
Letters(q, m) ==
  /\ IsSequence(q)
  /\ \A i \in 1..Len(q) :
       q[i] \in [hook : {q[i].hook}, alert : 1..m, attempts : {q[i].attempts},
                 status : {"FAILED", "RESOLVED"}]
  /\ \A i, j \in 1..Len(q) : q[i].hook = q[j].hook /\ q[i].alert = q[j].alert => i = j

\* Deliveries answered, of alerts up to the m-th.
Answers(a, m) ==
  /\ IsSequence(a)
  /\ \A i \in 1..Len(a) : a[i] = <<a[i][1], a[i][2]>> /\ a[i][2] \in 1..m

\* What an endpoint answered and what waits for it, of alerts that were dispatched.
Queueing ==
  /\ soar \in [hooks : {soar.hooks}, dlq : {soar.dlq}, contained : {soar.contained}]
  /\ IsFiniteSet(DOMAIN soar.hooks)
  /\ Letters(soar.dlq, Dispatched) /\ Answers(done.acked, Dispatched)
  /\ \A p \in done.eligible : p = <<p[1], p[2]>>

PipelineInv == TypeOK /\ Mirrored /\ Collected /\ Queueing /\ AnsweredOrQueued
-----------------------------------------------------------------------------
(* The calls in progress *)

LEMMA TopIs ==
  ASSUME TypeOK, stack # <<>>
  PROVE  /\ Len(stack) \in Nat \ {0} /\ Top = stack[Len(stack)] /\ IsFrame(Top)
         /\ \A i \in 1..Len(stack) - 1 : i \in 1..Len(stack) /\ stack[i].pc \in {"persist", "return"}
         /\ Len(stack) > 1 => Top.alert.category = "ATTACK_CAMPAIGN" /\ Top.campaign = 0
         /\ Top.pc # "return" => Top.campaign = 0
         /\ Top.pc \in {"dispatch", "correlate"} => Top.id = Len(recorded) /\ Len(recorded) > 0
         /\ Coming = IF stack[1].campaign = 0 THEN {} ELSE {stack[1].campaign}
<1>1. Calls(stack, Len(recorded))
  BY DEF TypeOK
<1>2. Len(stack) \in Nat \ {0}
  BY <1>1, LastReplaced DEF Calls
<1>3. Len(stack) \in 1..Len(stack)
  BY <1>2
<1>4. QED BY <1>1, <1>2, <1>3 DEF Calls, Top, Coming

\* The innermost call goes on.
LEMMA CallGoesOn ==
  ASSUME TypeOK, stack # <<>>, NEW f, IsFrame(f), NEW m,
         stack' = [stack EXCEPT ![Len(stack)] = f],
         f.alert = Top.alert, f.pc # "record",
         f.pc \in {"dispatch", "correlate"} => f.id = m /\ m > 0,
         f.campaign = Top.campaign, f.pc = "return" \/ f.campaign = 0
  PROVE  /\ Calls(stack', m) /\ stack' # <<>> /\ Top' = f /\ Coming' = Coming
         /\ \A step : At(step)' <=> step = f.pc
<1> DEFINE n == Len(stack)
<1>1. Calls(stack, Len(recorded))
  BY DEF TypeOK
<1>2. /\ IsSequence(stack') /\ stack' # <<>> /\ n \in Nat \ {0} /\ Len(stack') = n
      /\ stack'[n] = f /\ \A i \in 1..n : i # n => stack'[i] = stack[i]
  <2>1. IsSequence(stack)
    BY <1>1 DEF Calls
  <2> DEFINE t == [stack EXCEPT ![n] = f]
  <2>2. /\ IsSequence(t) /\ t # <<>> /\ n \in Nat \ {0} /\ Len(t) = n
        /\ t[n] = f /\ \A i \in 1..n : i # n => t[i] = stack[i]
    BY <2>1, LastReplaced, ZenonT(60)
  <2>3. stack' = t
    OBVIOUS
  <2> HIDE DEF t
  <2>4. QED BY <2>2, <2>3
<1>3. Top' = f /\ Top = stack[n]
  BY <1>2 DEF Top
<1> HIDE DEF n
<1>4. 1 \in 1..n /\ n \in 1..n /\ \A i \in 1..n : i < n \/ i = n
  <2>1. n \in Nat \ {0}
    BY <1>2
  <2> HIDE <1>2
  <2>2. QED BY <2>1
<1>5. Calls(stack', m)
  <2> SUFFICES ASSUME NEW i \in 1..n
               PROVE  /\ IsFrame(stack'[i])
                      /\ i < n => stack'[i].pc \in {"persist", "return"}
                      /\ i > 1 => /\ stack'[i].alert.category = "ATTACK_CAMPAIGN"
                                  /\ stack'[i].campaign = 0
                      /\ stack'[i].campaign # 0 => stack'[i].pc = "return"
                      /\ stack'[i].pc \in {"dispatch", "correlate"} => stack'[i].id = m /\ m > 0
    BY <1>2 DEF Calls
  <2>1. CASE i = n
    <3>1. stack'[i] = f /\ ~(i < n)
      BY <1>2, <1>4, <2>1
    <3>2. i > 1 => f.alert.category = "ATTACK_CAMPAIGN" /\ f.campaign = 0
      BY <1>1, <1>3, <1>4, <2>1 DEF Calls, n
    <3>3. QED BY <3>1, <3>2
  <2>2. CASE i < n
    <3>1. stack'[i] = stack[i]
      BY <1>2, <2>2
    <3>2. QED BY <1>1, <2>2, <3>1 DEF Calls, n
  <2>3. QED BY <1>4, <2>1, <2>2
<1>6. stack'[1].campaign = stack[1].campaign
  BY <1>2, <1>3, <1>4
<1>7. Coming' = Coming
  BY <1>2, <1>6 DEF Coming
<1>8. \A step : At(step)' <=> step = f.pc
  BY <1>2, <1>3 DEF At
<1>9. QED BY <1>2, <1>3, <1>5, <1>7, <1>8

\* The innermost call records another alert.
LEMMA CallIsMade ==
  ASSUME TypeOK, stack # <<>>, NEW f, IsFrame(f), NEW alert, NEW m,
         stack' = Call([stack EXCEPT ![Len(stack)] = f], alert),
         f.alert = Top.alert, f.pc \in {"persist", "return"},
         f.campaign # 0 => f.pc = "return" /\ Len(stack) = 1,
         alert.category = "ATTACK_CAMPAIGN"
  PROVE  /\ Calls(stack', m) /\ stack' # <<>> /\ Top'.alert = alert
         /\ \A step : At(step)' <=> step = "record"
         /\ Coming' = IF Len(stack) = 1
                      THEN IF f.campaign = 0 THEN {} ELSE {f.campaign}
                      ELSE Coming
<1> DEFINE n == Len(stack)
           t == [stack EXCEPT ![n] = f]
           new == [alert |-> alert, id |-> 0, pc |-> "record", campaign |-> 0]
<1>1. Calls(stack, Len(recorded))
  BY DEF TypeOK
<1>2. /\ IsSequence(t) /\ n \in Nat \ {0} /\ Len(t) = n
      /\ t[n] = f /\ \A i \in 1..n : i # n => t[i] = stack[i]
  BY <1>1, LastReplaced DEF Calls
<1>3. stack' = Append(t, new)
  BY DEF Call
<1> HIDE DEF t, new
<1>4. /\ IsSequence(stack') /\ stack' # <<>> /\ Len(stack') = n + 1
      /\ stack'[n + 1] = new /\ \A i \in 1..n : stack'[i] = t[i]
  <2>1. /\ IsSequence(Append(t, new)) /\ Append(t, new) # <<>>
        /\ Len(Append(t, new)) = Len(t) + 1 /\ Append(t, new)[Len(t) + 1] = new
        /\ \A i \in 1..Len(t) : Append(t, new)[i] = t[i]
    BY <1>2, SequenceGrows
  <2>2. QED BY <1>2, <1>3, <2>1
<1>5. /\ IsFrame(new) /\ new.alert = alert /\ new.pc = "record" /\ new.campaign = 0
  BY DEF new, IsFrame, Steps
<1>6. Top' = new
  BY <1>4 DEF Top
<1>7. 1 \in 1..n /\ n \in 1..n /\ (\A i \in 1..n + 1 : i < n \/ i = n \/ i = n + 1)
      /\ (\A i \in 1..n + 1 : i < n + 1 => i \in 1..n) /\ n + 1 > 1 /\ n < n + 1
  BY <1>2
<1>8. Calls(stack', m)
  <2> SUFFICES ASSUME NEW i \in 1..n + 1
               PROVE  /\ IsFrame(stack'[i])
                      /\ i < n + 1 => stack'[i].pc \in {"persist", "return"}
                      /\ i > 1 => /\ stack'[i].alert.category = "ATTACK_CAMPAIGN"
                                  /\ stack'[i].campaign = 0
                      /\ stack'[i].campaign # 0 => stack'[i].pc = "return"
                      /\ stack'[i].pc \in {"dispatch", "correlate"} => stack'[i].id = m /\ m > 0
    BY <1>4 DEF Calls
  <2>1. CASE i = n + 1
    BY <1>2, <1>4, <1>5, <2>1
  <2>2. CASE i = n
    <3>1. stack'[i] = f /\ i \in 1..n
      BY <1>2, <1>4, <1>7, <2>2
    <3>2. i > 1 => f.alert.category = "ATTACK_CAMPAIGN" /\ f.campaign = 0
      BY <1>1, <1>7, <2>2 DEF Calls, Top
    <3>3. QED BY <3>1, <3>2
  <2>3. CASE i < n
    <3>1. i \in 1..n /\ i # n
      BY <1>2, <2>3
    <3>2. stack'[i] = stack[i]
      BY <1>2, <1>4, <3>1
    <3>3. QED BY <1>1, <2>3, <3>1, <3>2 DEF Calls
  <2>4. QED BY <1>7, <2>1, <2>2, <2>3
<1>9. stack'[1].campaign = IF n = 1 THEN f.campaign ELSE stack[1].campaign
  BY <1>2, <1>4, <1>7
<1>10. Coming' = IF n = 1 THEN IF f.campaign = 0 THEN {} ELSE {f.campaign} ELSE Coming
  BY <1>4, <1>9 DEF Coming
<1>11. \A step : At(step)' <=> step = "record"
  BY <1>4, <1>5, <1>6 DEF At
<1>12. QED BY <1>4, <1>5, <1>6, <1>8, <1>10, <1>11

\* The innermost call returns.
LEMMA CallReturns ==
  ASSUME TypeOK, stack # <<>>, stack' = Front(stack)
  PROVE  /\ Calls(stack', Len(recorded))
         /\ \A step \in {"record", "dispatch", "correlate"} : ~At(step)'
         /\ Len(stack) = 1 => stack' = <<>> /\ Coming' = {}
         /\ Len(stack) # 1 => stack' # <<>> /\ Coming' = Coming
<1> DEFINE n == Len(stack)
<1>1. Calls(stack, Len(recorded))
  BY DEF TypeOK
<1>2. /\ IsSequence(stack') /\ n \in Nat \ {0} /\ Len(stack') = n - 1
      /\ \A i \in 1..n - 1 : stack'[i] = stack[i]
  BY <1>1, FrontOf DEF Calls
<1>3. Calls(stack', Len(recorded))
  BY <1>1, <1>2 DEF Calls
<1>4. n = 1 => stack' = <<>>
  <2> SUFFICES ASSUME n = 1 PROVE stack' = <<>>
    OBVIOUS
  <2>1. stack' \in Seq(ToSet(stack')) /\ Len(stack') = 0
    BY <1>2 DEF IsSequence
  <2> QED BY <2>1, EmptySeq
<1>5. n # 1 => /\ stack' # <<>> /\ stack'[1] = stack[1] /\ stack # <<>>
               /\ Top'.pc \in {"persist", "return"}
  <2> SUFFICES ASSUME n # 1
               PROVE  /\ stack' # <<>> /\ stack'[1] = stack[1]
                      /\ Top'.pc \in {"persist", "return"}
    OBVIOUS
  <2>1. 1 \in 1..n - 1 /\ n - 1 \in 1..n - 1 /\ n - 1 \in 1..n /\ n - 1 < n
    BY <1>2
  <2>2. stack'[1] = stack[1] /\ Top' = stack[n - 1]
    BY <1>2, <2>1 DEF Top
  <2>3. stack' # <<>>
    BY <1>2, <2>1
  <2>4. QED BY <1>1, <2>1, <2>2, <2>3 DEF Calls
<1>6. \A step \in {"record", "dispatch", "correlate"} : ~At(step)'
  BY <1>4, <1>5 DEF At
<1>7. QED BY <1>3, <1>4, <1>5, <1>6 DEF Coming
-----------------------------------------------------------------------------
(* What a step leaves alone *)

LEMMA StackStill ==
  ASSUME UNCHANGED stack
  PROVE  Top' = Top /\ Coming' = Coming /\ \A step : At(step)' <=> At(step)
BY DEF Top, Coming, At

LEMMA RecordedCounts ==
  ASSUME TypeOK
  PROVE  /\ Len(recorded) \in Nat /\ Reached \in Nat /\ Dispatched \in Nat
         /\ Len(recorded) <= Reached
         /\ At("dispatch") \/ At("correlate") => Len(recorded) = Top.id /\ Len(recorded) > 0
<1>1. Len(recorded) \in Nat
  BY DEF TypeOK, IsSequence
<1>2. At("dispatch") \/ At("correlate") => Len(recorded) = Top.id /\ Len(recorded) > 0
  BY TopIs DEF At
<1>3. Dispatched \in Nat
  BY <1>1, <1>2 DEF Dispatched
<1>4. QED BY <1>1, <1>2, <1>3 DEF Reached

LEMMA MirrorStill ==
  ASSUME TypeOK, Mirrored, UNCHANGED <<recorded, engine, dash, ledgers>>,
         done'.confirmed = done.confirmed, done'.steady => done.steady,
         Lagging' <=> Lagging, At("record") => At("record")',
         Lagging => Top'.alert = Top.alert, Lagging /\ done'.steady => now' = now
  PROVE  Mirrored'
<1>1. Len(recorded) \in Nat
  BY RecordedCounts
<1>2. done'.confirmed \subseteq 1..Reached'
  BY <1>1 DEF Mirrored, Reached
<1>3. ledgers'.engine = UpTo(IF Lagging' THEN Len(recorded') - 1 ELSE Len(recorded'))
  BY DEF Mirrored
<1>4. /\ done'.steady /\ ~Lagging' =>
           dash' = engine' /\ Len(ledgers'.cases) = Cardinality(done'.confirmed)
      /\ done'.steady /\ Lagging' =>
           /\ dash' = Ingest(engine', Top'.alert, now').engine
           /\ Len(ledgers'.cases) = Cardinality(done'.confirmed)
                + (IF Ingest(engine', Top'.alert, now').escalated = <<>> THEN 0 ELSE 1)
  BY DEF Mirrored
<1>5. QED BY <1>2, <1>3, <1>4 DEF Mirrored

LEMMA CollectStill ==
  ASSUME Collected, Reached' = Reached, UNCHANGED returned,
         done'.confirmed = done.confirmed, Coming' = Coming, stack' # <<>> => stack # <<>>
  PROVE  Collected'
BY DEF Collected, Accounted

LEMMA QueueStill ==
  ASSUME TypeOK, Queueing, AnsweredOrQueued,
         soar'.dlq = soar.dlq, IsFiniteSet(DOMAIN soar'.hooks),
         soar' \in [hooks : {soar'.hooks}, dlq : {soar'.dlq}, contained : {soar'.contained}],
         done'.acked = done.acked, done'.eligible = done.eligible,
         Dispatched' \in Nat, Dispatched <= Dispatched'
  PROVE  Queueing' /\ AnsweredOrQueued'
<1>1. Dispatched \in Nat
  BY RecordedCounts
<1>2. 1..Dispatched \subseteq 1..Dispatched'
  BY <1>1
<1>3. Queueing'
  <2>1. Letters(soar'.dlq, Dispatched')
    BY <1>2 DEF Queueing, Letters
  <2>2. Answers(done'.acked, Dispatched')
    BY <1>2 DEF Queueing, Answers
  <2>3. QED BY <2>1, <2>2 DEF Queueing
<1>4. AnsweredOrQueued'
  BY DEF AnsweredOrQueued, NoAlertLost, AnsweredOnce, IsQueued
<1>5. QED BY <1>3, <1>4
-----------------------------------------------------------------------------
(* The steps of analyze_flow and of _record_alert *)

LEMMA DoneCounts ==
  ASSUME NEW d, IsDone(d), NEW e,
         \/ e = [d EXCEPT !.events = @ + 1, !.flows = @ + 1]
         \/ e = [d EXCEPT !.events = @ + 1]
  PROVE  /\ IsDone(e) /\ e.confirmed = d.confirmed /\ e.steady = d.steady
         /\ e.acked = d.acked /\ e.eligible = d.eligible /\ e.campaigns = d.campaigns
<1>1. PICK m \in Nat, n \in Nat : e = [d EXCEPT !.events = m, !.flows = n]
  <2>1. d.events + 1 \in Nat /\ d.flows + 1 \in Nat /\ d.flows \in Nat
    BY DEF IsDone
  <2>2. [d EXCEPT !.events = @ + 1] = [d EXCEPT !.events = @ + 1, !.flows = d.flows]
    BY DEF IsDone
  <2>3. QED BY <2>1, <2>2
<1>2. /\ e.confirmed = d.confirmed /\ e.steady = d.steady /\ e.ids = d.ids
      /\ e.acked = d.acked /\ e.eligible = d.eligible /\ e.campaigns = d.campaigns
  BY <1>1 DEF IsDone
<1>3. IsDone(e)
  BY <1>1, <1>2 DEF IsDone
<1>4. QED BY <1>2, <1>3

LEMMA AnalyzeKeeps ==
  ASSUME PipelineInv, NEW alerts, NEW stamp, AnalyzeFlow(alerts, stamp)
  PROVE  PipelineInv'
<1>1. /\ UNCHANGED <<stack, recorded, engine, dash, ledgers, soar>> /\ returned' = <<>>
      /\ done' = [done EXCEPT !.events = @ + 1, !.flows = @ + 1] /\ stack = <<>>
  BY DEF AnalyzeFlow, Idle, outside
<1>2. TypeOK /\ Mirrored /\ Collected /\ Queueing /\ AnsweredOrQueued
  BY DEF PipelineInv
<1>3. /\ done'.confirmed = done.confirmed /\ done'.steady = done.steady
      /\ done'.acked = done.acked /\ done'.eligible = done.eligible /\ IsDone(done')
  BY <1>1, <1>2, DoneCounts DEF TypeOK
<1>4. Top' = Top /\ Coming' = Coming /\ \A step : At(step)' <=> At(step)
  BY <1>1, StackStill
<1>5. Reached' = Reached /\ Dispatched' = Dispatched /\ (Lagging' <=> Lagging) /\ ~Lagging
  BY <1>1, <1>4 DEF Reached, Dispatched, Lagging, At
<1>6. TypeOK'
  BY <1>1, <1>2, <1>3 DEF TypeOK
<1>7. Mirrored'
  BY <1>1, <1>2, <1>3, <1>4, <1>5, MirrorStill
<1>8. Collected'
  <2>1. Reached \in Nat /\ Coming = {}
    BY <1>1, <1>2, RecordedCounts DEF Coming
  <2>2. Len(<<>>) = 0 /\ ToSet(<<>>) = {} /\ Increasing(<<>>)
    BY DEF ToSet, Increasing
  <2>3. QED BY <1>1, <1>4, <2>1, <2>2 DEF Collected
<1>9. Queueing' /\ AnsweredOrQueued'
  BY <1>1, <1>2, <1>3, <1>5, RecordedCounts, QueueStill DEF Queueing
<1>10. QED BY <1>6, <1>7, <1>8, <1>9 DEF PipelineInv

LEMMA NextAlertKeeps ==
  ASSUME PipelineInv, NextAlert
  PROVE  PipelineInv'
<1>1. /\ UNCHANGED <<now, recorded, engine, dash, ledgers, soar, done>> /\ stack = <<>>
      /\ stack' = Append(<<>>, [alert |-> Head(pending), id |-> 0, pc |-> "record",
                                campaign |-> 0])
      /\ returned' = Append(returned, Len(recorded) + 1)
  BY DEF NextAlert, outside, Call
<1>2. TypeOK /\ Mirrored /\ Collected /\ Queueing /\ AnsweredOrQueued
  BY DEF PipelineInv
<1> DEFINE f == [alert |-> Head(pending), id |-> 0, pc |-> "record", campaign |-> 0]
<1>3. IsFrame(f) /\ f.pc = "record" /\ f.campaign = 0
  BY DEF IsFrame, Steps
<1> HIDE DEF f
<1>4. stack' = <<f>> /\ Len(stack') = 1 /\ stack'[1] = f /\ stack' # <<>> /\ IsSequence(stack')
  <2>1. stack' = <<f>>
    BY <1>1 DEF f
  <2>2. <<f>> \in Seq({f})
    OBVIOUS
  <2>3. QED BY <2>1, <2>2, SequenceIs
<1>5. /\ Calls(stack', Len(recorded)) /\ Coming' = {} /\ Coming = {}
      /\ \A step : At(step)' <=> step = "record"
      /\ \A step : ~At(step)
  BY <1>1, <1>3, <1>4 DEF Calls, Coming, At, Top
<1>6. Len(recorded) \in Nat /\ Len(recorded) + 1 \in Nat
  BY <1>2, RecordedCounts
<1>7. Reached = Len(recorded) /\ Reached' = Len(recorded) + 1 /\ Dispatched' = Dispatched
      /\ ~Lagging /\ ~Lagging'
  BY <1>1, <1>5 DEF Reached, Dispatched, Lagging
<1>8. TypeOK'
  BY <1>1, <1>2, <1>5, <1>6 DEF TypeOK
<1>9. Mirrored'
  BY <1>1, <1>2, <1>5, <1>7, MirrorStill
<1>10. Collected'
  <2> DEFINE n == Len(recorded)
  <2>1. /\ returned \in Seq(Nat) /\ Increasing(returned) /\ ToSet(returned) \subseteq 1..n
        /\ ToSet(returned) \intersect done.confirmed = {} /\ done.confirmed \subseteq 1..n
        /\ returned # <<>> => returned[1]..n \subseteq ToSet(returned) \union done.confirmed
    BY <1>2, <1>5, <1>7 DEF Collected, Accounted, TypeOK, Mirrored
  <2>2. ToSet(returned') = ToSet(returned) \union {n + 1}
    BY <1>1, <1>6, <2>1, ToSetOfAppend
  <2>3. /\ returned' # <<>>
        /\ returned'[1] = IF returned = <<>> THEN n + 1 ELSE returned[1]
    BY <1>1, <1>6, <2>1
  <2>4. Increasing(returned')
    <3>1. \A r \in ToSet(returned) : r < n + 1
      BY <1>6, <2>1
    <3>2. returned \in Seq(Nat) /\ Increasing(returned) /\ n + 1 \in Nat
      BY <1>6, <2>1
    <3> HIDE DEF n
    <3>4. \A r \in ToSet(returned) : r < n + 1
      BY <3>1
    <3>5. PICK x \in Nat : x = n + 1
      BY <3>2
    <3>6. Increasing(Append(returned, x))
      BY <3>2, <3>4, <3>5, AppendIsIncreasing
    <3>7. QED BY <1>1, <3>5, <3>6 DEF n
  <2>5. returned'[1]..n + 1 \subseteq ToSet(returned') \union done.confirmed
    <3>1. ASSUME NEW id \in returned'[1]..n + 1
          PROVE  id \in ToSet(returned') \union done.confirmed
      <4>1. CASE id = n + 1
        BY <2>2, <4>1
      <4>2. CASE id # n + 1
        <5>1. returned # <<>>
          BY <1>6, <2>3, <4>2
        <5>2. returned[1] \in Nat
          BY <2>1, <5>1
        <5>3. id \in returned[1]..n
          BY <1>6, <2>3, <4>2, <5>1, <5>2
        <5>4. QED BY <2>1, <2>2, <5>1, <5>3
      <4>3. QED BY <4>1, <4>2
    <3>2. QED BY <3>1
  <2>6. n + 1 \notin done.confirmed /\ ToSet(returned') \subseteq 1..n + 1
    BY <1>6, <2>1, <2>2
  <2> HIDE DEF n
  <2>7. ToSet(returned') \intersect done'.confirmed = {}
    BY <1>1, <2>1, <2>2, <2>6
  <2>8. Reached' = n + 1
    BY <1>7 DEF n
  <2>9. QED BY <1>1, <1>5, <2>3, <2>4, <2>5, <2>6, <2>7, <2>8 DEF Collected, Accounted
<1>11. Queueing' /\ AnsweredOrQueued'
  BY <1>1, <1>2, <1>7, RecordedCounts, QueueStill DEF Queueing
<1>12. QED BY <1>8, <1>9, <1>10, <1>11 DEF PipelineInv

LEMMA UpToGrows ==
  ASSUME NEW n \in Nat PROVE Append(UpTo(n), n + 1) = UpTo(n + 1)
BY DEF UpTo

LEMMA RecordKeeps ==
  ASSUME PipelineInv, Record
  PROVE  PipelineInv'
<1> DEFINE alert == Top.alert
           id == Len(recorded) + 1
           d == Ingest(dash, alert, now)
           f == [Top EXCEPT !.pc = "dispatch", !.id = id]
<1>1. /\ At("record") /\ recorded' = Append(recorded, alert)
      /\ dash' = d.engine
      /\ ledgers' = [ledgers EXCEPT !.dash = Append(@, id),
                       !.cases = IF d.escalated = <<>> THEN @ ELSE Append(@, id)]
      /\ UNCHANGED <<now, returned, engine, soar, done>>
  BY DEF Record, Notifies, outside
<1>2. stack # <<>> /\ Top.pc = "record"
  BY <1>1 DEF At
<1>3. stack' = [stack EXCEPT ![Len(stack)] = f]
  BY DEF Record, Top
<1>4. TypeOK /\ Mirrored /\ Collected /\ Queueing /\ AnsweredOrQueued
  BY DEF PipelineInv
<1>5. IsFrame(Top) /\ Top.campaign = 0 /\ Len(recorded) \in Nat /\ id \in Nat /\ id > 0
  BY <1>2, <1>4, TopIs, RecordedCounts
<1>6. IsFrame(f) /\ f.alert = alert /\ f.pc = "dispatch" /\ f.id = id /\ f.campaign = 0
  BY <1>5 DEF IsFrame, Steps
<1>7. IsSequence(recorded') /\ Len(recorded') = id
  <2> HIDE DEF alert
  <2>1. QED BY <1>1, <1>4, SequenceGrows DEF TypeOK
<1> HIDE DEF f, d
<1>8. /\ Calls(stack', id) /\ stack' # <<>> /\ Top' = f /\ Coming' = Coming
      /\ \A step : At(step)' <=> step = "dispatch"
  BY <1>2, <1>3, <1>4, <1>5, <1>6, CallGoesOn
<1>9. /\ id - 1 = Len(recorded) /\ Reached = id /\ Reached' = id /\ Dispatched = Len(recorded)
      /\ Dispatched' = Len(recorded) /\ ~Lagging /\ Lagging'
  BY <1>1, <1>2, <1>5, <1>7, <1>8 DEF Reached, Dispatched, Lagging, At
<1> HIDE DEF alert, id
<1>10. TypeOK'
  <2>1. ledgers' \in [engine : Seq(Nat), dash : Seq(Nat), cases : Seq(Nat)]
    <3> DEFINE given == Append(ledgers.dash, id)
               cases == IF d.escalated = <<>> THEN ledgers.cases
                        ELSE Append(ledgers.cases, id)
    <3>1. given \in Seq(Nat) /\ cases \in Seq(Nat)
      BY <1>4, <1>5 DEF TypeOK
    <3>2. ledgers' = [ledgers EXCEPT !.dash = given, !.cases = cases]
      BY <1>1
    <3> HIDE DEF given, cases
    <3>3. QED BY <1>4, <3>1, <3>2 DEF TypeOK
  <2>2. QED BY <1>1, <1>4, <1>7, <1>8, <2>1 DEF TypeOK
<1>11. Mirrored'
  <2>1. /\ ledgers.dash = UpTo(Len(recorded)) /\ ledgers.engine = UpTo(Len(recorded))
        /\ done.confirmed \subseteq 1..id
        /\ done.steady => dash = engine /\ Len(ledgers.cases) = Cardinality(done.confirmed)
    BY <1>4, <1>9 DEF Mirrored
  <2>2. ledgers'.dash = UpTo(id) /\ ledgers'.engine = UpTo(id - 1)
    <3>1. ledgers'.dash = Append(ledgers.dash, id) /\ ledgers'.engine = ledgers.engine
      BY <1>1, <1>4 DEF TypeOK
    <3>2. Append(UpTo(Len(recorded)), Len(recorded) + 1) = UpTo(Len(recorded) + 1)
      BY <1>5, UpToGrows
    <3>3. QED BY <1>9, <2>1, <3>1, <3>2 DEF id
  <2>3. ASSUME done.steady
        PROVE  /\ dash' = Ingest(engine, alert, now).engine
               /\ Len(ledgers'.cases) = Cardinality(done.confirmed)
                    + (IF Ingest(engine, alert, now).escalated = <<>> THEN 0 ELSE 1)
    <3>1. d = Ingest(engine, alert, now)
      BY <2>1, <2>3 DEF d, alert
    <3>2. ledgers'.cases = IF d.escalated = <<>> THEN ledgers.cases
                           ELSE Append(ledgers.cases, id)
      BY <1>1, <1>4 DEF TypeOK
    <3>3. ledgers.cases \in Seq(Nat)
      BY <1>4 DEF TypeOK
    <3>4. Len(ledgers'.cases) = Len(ledgers.cases) + (IF d.escalated = <<>> THEN 0 ELSE 1)
      <4>1. Len(Append(ledgers.cases, id)) = Len(ledgers.cases) + 1 /\ Len(ledgers.cases) \in Nat
        BY <1>5, <3>3
      <4>2. CASE d.escalated = <<>>
        BY <3>2, <4>1, <4>2
      <4>3. CASE d.escalated # <<>>
        BY <3>2, <4>1, <4>3
      <4>4. QED BY <4>2, <4>3
    <3>5. QED BY <1>1, <2>1, <2>3, <3>1, <3>4
  <2>4. Top'.alert = alert
    BY <1>6, <1>8
  <2>5. /\ ledgers'.dash = UpTo(Len(recorded'))
        /\ ledgers'.engine = UpTo(IF Lagging' THEN Len(recorded') - 1 ELSE Len(recorded'))
        /\ done'.confirmed \subseteq 1..Reached'
    BY <1>1, <1>7, <1>9, <2>1, <2>2
  <2>6. QED BY <1>1, <1>9, <2>3, <2>4, <2>5 DEF Mirrored
<1>12. Collected'
  BY <1>1, <1>2, <1>4, <1>8, <1>9, CollectStill
<1>13. Queueing' /\ AnsweredOrQueued'
  BY <1>1, <1>4, <1>5, <1>9, QueueStill DEF Queueing
<1>14. QED BY <1>10, <1>11, <1>12, <1>13 DEF PipelineInv
-----------------------------------------------------------------------------
(* Deliveries, answered and not *)

Waits(q, h, id) ==
  \E i \in DOMAIN q : q[i].hook = h /\ q[i].alert = id /\ q[i].status = "FAILED"

Settled(q, a, due) ==
  /\ \A p \in due : p \in ToSet(a) \/ Waits(q, p[1], p[2])
  /\ \A i, j \in DOMAIN a : i # j => a[i] # a[j]
  /\ \A i \in DOMAIN a : ~Waits(q, a[i][1], a[i][2])

LEMMA SettledIs ==
  AnsweredOrQueued <=> Settled(soar.dlq, done.acked, done.eligible)
BY DEF AnsweredOrQueued, NoAlertLost, AnsweredOnce, IsQueued, Settled, Waits

\* Queue and answers after an alert for the webhooks to, when those in ok answer.
Sent(q, id, left) ==
  q \o [i \in 1..Cardinality(left) |-> DeadLetter(SetToSeq(left)[i], id)]
Answered(a, id, ok) == a \o [i \in 1..Cardinality(ok) |-> <<SetToSeq(ok)[i], id>>]
Due(due, id, to) == due \union {<<h, id>> : h \in to}
Delivered(q, a, due, to, ok, id) ==
  /\ Letters(Sent(q, id, to \ ok), id) /\ Answers(Answered(a, id, ok), id)
  /\ Settled(Sent(q, id, to \ ok), Answered(a, id, ok), Due(due, id, to))

\* Every webhook an alert is for answers it, or its letter waits.
LEMMA DeliveriesSettle ==
  ASSUME NEW m \in Nat, NEW q, NEW a, NEW due, Letters(q, m), Answers(a, m),
         Settled(q, a, due), NEW to, IsFiniteSet(to), NEW ok \in SUBSET to
  PROVE  Delivered(q, a, due, to, ok, m + 1)
<1> DEFINE id   == m + 1
           left == to \ ok
           f == SetToSeq(left)
           g == SetToSeq(ok)
           new == [i \in 1..Cardinality(left) |-> DeadLetter(f[i], id)]
           got == [i \in 1..Cardinality(ok) |-> <<g[i], id>>]
           q2 == q \o new
           a2 == a \o got
           due2 == due \union {<<h, id>> : h \in to}
<1>1. IsFiniteSet(left) /\ IsFiniteSet(ok)
  BY FS_Subset
<1>2. PICK k \in Nat : k = Cardinality(left)
  BY <1>1, FS_CardinalityType
<1>3. PICK l \in Nat : l = Cardinality(ok)
  BY <1>1, FS_CardinalityType
<1>4. /\ \A i \in 1..k : f[i] \in left
      /\ \A i, j \in 1..k : f[i] = f[j] => i = j
      /\ \A x \in left : \E i \in 1..k : f[i] = x
  <2> HIDE DEF left
  <2>1. QED BY <1>1, <1>2, SetToSeqLists
<1>5. /\ \A i \in 1..l : g[i] \in ok
      /\ \A i, j \in 1..l : g[i] = g[j] => i = j
      /\ \A x \in ok : \E i \in 1..l : g[i] = x
  BY <1>1, <1>3, SetToSeqLists
<1> HIDE DEF f, g
<1>6. /\ IsSequence(new) /\ Len(new) = k
      /\ \A i \in 1..k : /\ new[i] = DeadLetter(f[i], id) /\ new[i].hook = f[i]
                         /\ new[i].alert = id /\ new[i].status = "FAILED"
  <2>1. new \in Seq({DeadLetter(f[i], id) : i \in 1..k})
    <3>1. \A i \in 1..k : DeadLetter(f[i], id) \in {DeadLetter(f[j], id) : j \in 1..k}
      OBVIOUS
    <3> DEFINE T == {DeadLetter(f[j], id) : j \in 1..k}
    <3> HIDE DEF T
    <3>2. \A i \in 1..k : DeadLetter(f[i], id) \in T
      BY <3>1 DEF T
    <3>3. new \in Seq(T)
      <4>1. new = [i \in 1..k |-> DeadLetter(f[i], id)]
        BY <1>2
      <4> HIDE DEF new, id
      <4>2. QED BY <3>2, <4>1
    <3>4. QED BY <3>3 DEF T
  <2>2. new = [i \in 1..k |-> DeadLetter(f[i], id)]
    BY <1>2
  <2> HIDE DEF new
  <2>3. IsSequence(new)
    BY <2>1, SequenceIs
  <2>4. QED BY <2>2, <2>3 DEF DeadLetter
<1>7. /\ IsSequence(got) /\ Len(got) = l
      /\ \A i \in 1..l : got[i] = <<g[i], id>> /\ got[i][1] = g[i] /\ got[i][2] = id
  <2>1. got \in Seq({<<g[i], id>> : i \in 1..l})
    BY <1>3
  <2>2. got = [i \in 1..l |-> <<g[i], id>>]
    BY <1>3
  <2> HIDE DEF got
  <2>3. IsSequence(got)
    BY <2>1, SequenceIs
  <2>4. QED BY <2>2, <2>3
<1> HIDE DEF new, got
<1>8. /\ IsSequence(q2) /\ Len(q) \in Nat
      /\ \A i \in 1..Len(q) : i \in 1..Len(q2) /\ q2[i] = q[i]
      /\ \A i \in 1..k : Len(q) + i \in 1..Len(q2) /\ q2[Len(q) + i] = new[i]
      /\ \A x \in 1..Len(q2) : x \in 1..Len(q) \/ \E i \in 1..k : x = Len(q) + i
  <2>1. IsSequence(q) /\ IsSequence(new)
    BY <1>6 DEF Letters
  <2> HIDE DEF q2
  <2>2. q2 = q \o new
    BY DEF q2
  <2>3. IsJoined(q2, q, new)
    BY <2>1, <2>2, SequencesJoined, Zenon
  <2>4. QED BY <1>6, <2>3 DEF IsJoined
<1>9. /\ IsSequence(a2) /\ Len(a) \in Nat
      /\ \A i \in 1..Len(a) : i \in 1..Len(a2) /\ a2[i] = a[i]
      /\ \A i \in 1..l : Len(a) + i \in 1..Len(a2) /\ a2[Len(a) + i] = got[i]
      /\ \A x \in 1..Len(a2) : x \in 1..Len(a) \/ \E i \in 1..l : x = Len(a) + i
  <2>1. IsSequence(a) /\ IsSequence(got)
    BY <1>7 DEF Answers
  <2> HIDE DEF a2
  <2>2. a2 = a \o got
    BY DEF a2
  <2>3. IsJoined(a2, a, got)
    BY <2>1, <2>2, SequencesJoined, Zenon
  <2>4. QED BY <1>7, <2>3 DEF IsJoined
<1> HIDE DEF q2, a2
<1>10. id \in Nat /\ id \in 1..id /\ id \notin 1..m /\ 1..m \subseteq 1..id
  OBVIOUS
<1>11. /\ DOMAIN q = 1..Len(q) /\ DOMAIN q2 = 1..Len(q2)
       /\ DOMAIN a = 1..Len(a) /\ DOMAIN a2 = 1..Len(a2)
  BY <1>8, <1>9 DEF Letters, Answers, IsSequence
<1> HIDE DEF id
<1>12. Letters(q2, id)
  <2>1. ASSUME NEW i \in 1..Len(q2)
        PROVE  q2[i] \in [hook : {q2[i].hook}, alert : 1..id, attempts : {q2[i].attempts},
                          status : {"FAILED", "RESOLVED"}]
    <3>1. CASE i \in 1..Len(q)
      <4>1. q[i] \in [hook : {q[i].hook}, alert : 1..m, attempts : {q[i].attempts},
                      status : {"FAILED", "RESOLVED"}]
        BY <3>1 DEF Letters
      <4>2. QED BY <1>8, <1>10, <3>1, <4>1
    <3>2. CASE \E x \in 1..k : i = Len(q) + x
      <4>1. PICK x \in 1..k : i = Len(q) + x
        BY <3>2
      <4>2. q2[i] = DeadLetter(f[x], id)
        BY <1>6, <1>8, <4>1
      <4>3. QED BY <1>10, <4>2 DEF DeadLetter
    <3>3. QED BY <1>8, <3>1, <3>2
  <2>2. ASSUME NEW i \in 1..Len(q2), NEW j \in 1..Len(q2),
               q2[i].hook = q2[j].hook, q2[i].alert = q2[j].alert
        PROVE  i = j
    <3>1. \A x \in 1..Len(q) : q2[x] = q[x] /\ q[x].alert # id
      BY <1>8, <1>10 DEF Letters
    <3>2. \A x \in 1..k : q2[Len(q) + x].alert = id /\ q2[Len(q) + x].hook = f[x]
      BY <1>6, <1>8
    <3>3. CASE i \in 1..Len(q) /\ j \in 1..Len(q)
      BY <2>2, <3>1, <3>3 DEF Letters
    <3>4. CASE i \notin 1..Len(q) /\ j \notin 1..Len(q)
      <4>1. PICK x \in 1..k, y \in 1..k : i = Len(q) + x /\ j = Len(q) + y
        BY <1>8, <3>4
      <4>2. f[x] = f[y]
        BY <2>2, <3>2, <4>1
      <4>3. QED BY <1>4, <4>1, <4>2
    <3>5. ASSUME NEW x \in 1..Len(q2) PROVE q2[x].alert # id <=> x \in 1..Len(q)
      <4>1. CASE x \in 1..Len(q)
        BY <3>1, <4>1
      <4>2. CASE x \notin 1..Len(q)
        <5>1. PICK y \in 1..k : x = Len(q) + y
          BY <1>8, <4>2
        <5>2. q2[x].alert = id
          BY <3>2, <5>1
        <5>3. QED BY <4>2, <5>2
      <4>3. QED BY <4>1, <4>2
    <3>6. QED BY <2>2, <3>3, <3>4, <3>5
  <2>3. QED BY <1>8, <2>1, <2>2 DEF Letters
<1>13. Answers(a2, id)
  <2>1. ASSUME NEW i \in 1..Len(a2)
        PROVE  a2[i] = <<a2[i][1], a2[i][2]>> /\ a2[i][2] \in 1..id
    <3>1. CASE i \in 1..Len(a)
      BY <1>9, <1>10, <3>1 DEF Answers
    <3>2. CASE \E x \in 1..l : i = Len(a) + x
      <4>1. PICK x \in 1..l : i = Len(a) + x
        BY <3>2
      <4>2. a2[i] = <<g[x], id>> /\ a2[i][1] = g[x] /\ a2[i][2] = id
        BY <1>7, <1>9, <4>1
      <4>3. QED BY <1>10, <4>2
    <3>3. QED BY <1>9, <3>1, <3>2
  <2>2. QED BY <1>9, <2>1 DEF Answers
<1>14. \A h, n : Waits(q, h, n) => Waits(q2, h, n)
  BY <1>8, <1>11 DEF Waits
<1>15. \A h, n : Waits(q2, h, n) => Waits(q, h, n) \/ (n = id /\ h \in left)
  <2> SUFFICES ASSUME NEW h, NEW n, NEW i \in 1..Len(q2),
                      q2[i].hook = h, q2[i].alert = n, q2[i].status = "FAILED"
               PROVE  Waits(q, h, n) \/ (n = id /\ h \in left)
    BY <1>11 DEF Waits
  <2>1. CASE i \in 1..Len(q)
    BY <1>8, <1>11, <2>1 DEF Waits
  <2>2. CASE \E x \in 1..k : i = Len(q) + x
    <3>1. PICK x \in 1..k : i = Len(q) + x
      BY <2>2
    <3>2. q2[i].hook = f[x] /\ q2[i].alert = id
      BY <1>6, <1>8, <3>1, ZenonT(60)
    <3>3. QED BY <1>4, <3>2
  <2>3. QED BY <1>8, <2>1, <2>2
<1>16. ASSUME NEW p \in due2 PROVE p \in ToSet(a2) \/ Waits(q2, p[1], p[2])
  <2>1. CASE p \in due
    <3>1. ToSet(a) \subseteq ToSet(a2)
      BY <1>9, <1>11 DEF ToSet
    <3>2. QED BY <1>14, <2>1, <3>1 DEF Settled
  <2>2. CASE \E h \in ok : p = <<h, id>>
    <3>1. PICK i \in 1..l : p = <<g[i], id>>
      BY <1>5, <2>2
    <3>2. Len(a) + i \in 1..Len(a2) /\ a2[Len(a) + i] = p
      BY <1>7, <1>9, <3>1
    <3>3. QED BY <1>11, <3>2 DEF ToSet
  <2>3. CASE \E h \in left : p = <<h, id>>
    <3>1. PICK i \in 1..k : p = <<f[i], id>>
      BY <1>4, <2>3
    <3>2. /\ Len(q) + i \in 1..Len(q2) /\ q2[Len(q) + i].hook = p[1]
          /\ q2[Len(q) + i].alert = p[2] /\ q2[Len(q) + i].status = "FAILED"
      BY <1>6, <1>8, <3>1
    <3>3. QED BY <1>11, <3>2 DEF Waits
  <2>4. QED BY <2>1, <2>2, <2>3
<1>17. \A i \in 1..Len(a) : a2[i] = a[i] /\ a[i][2] # id
  BY <1>9, <1>10 DEF Answers
<1>18. \A i \in 1..l : /\ a2[Len(a) + i] = <<g[i], id>> /\ a2[Len(a) + i][2] = id
                       /\ a2[Len(a) + i][1] = g[i]
  BY <1>7, <1>9, ZenonT(60)
<1>19. ASSUME NEW i \in 1..Len(a2), NEW j \in 1..Len(a2), a2[i] = a2[j] PROVE i = j
  <2>1. CASE i \in 1..Len(a) /\ j \in 1..Len(a)
    BY <1>11, <1>17, <1>19, <2>1 DEF Settled
  <2>2. CASE i \notin 1..Len(a) /\ j \notin 1..Len(a)
    <3>1. PICK x \in 1..l, y \in 1..l : i = Len(a) + x /\ j = Len(a) + y
      BY <1>9, <2>2
    <3>2. g[x] = g[y]
      BY <1>18, <1>19, <3>1
    <3>3. QED BY <1>5, <3>1, <3>2
  <2>3. ASSUME NEW x \in 1..Len(a2) PROVE a2[x][2] # id <=> x \in 1..Len(a)
    <3>1. CASE x \in 1..Len(a)
      BY <1>17, <3>1
    <3>2. CASE x \notin 1..Len(a)
      <4>1. PICK y \in 1..l : x = Len(a) + y
        BY <1>9, <3>2
      <4>2. a2[x][2] = id
        BY <1>18, <4>1
      <4>3. QED BY <3>2, <4>2
    <3>3. QED BY <3>1, <3>2
  <2>4. QED BY <1>19, <2>1, <2>2, <2>3
<1>20. ASSUME NEW i \in 1..Len(a2), Waits(q2, a2[i][1], a2[i][2]) PROVE FALSE
  <2>1. CASE i \in 1..Len(a)
    <3>1. ~Waits(q, a[i][1], a[i][2])
      BY <1>11, <2>1 DEF Settled
    <3>2. QED BY <1>15, <1>17, <1>20, <2>1, <3>1
  <2>2. CASE i \notin 1..Len(a)
    <3>1. PICK x \in 1..l : i = Len(a) + x
      BY <1>9, <2>2
    <3>2. ~Waits(q, g[x], id)
      BY <1>10, <1>11 DEF Waits, Letters
    <3>3. g[x] \notin left
      BY <1>5
    <3>4. QED BY <1>15, <1>18, <1>20, <3>1, <3>2, <3>3
  <2>3. QED BY <2>1, <2>2
<1>21. Settled(q2, a2, due2)
  <2> HIDE DEF due2
  <2>1. QED BY <1>11, <1>16, <1>19, <1>20 DEF Settled
<1>22. q2 = Sent(q, m + 1, to \ ok) /\ a2 = Answered(a, m + 1, ok) /\ due2 = Due(due, m + 1, to)
  BY DEF q2, a2, new, got, f, g, id, Sent, Answered, Due
<1>23. QED BY <1>12, <1>13, <1>21, <1>22 DEF Delivered, id

\* Queue q2 and answers after the items in ok were answered.
AnsweredItems(a, q, ok) ==
  a \o [i \in 1..Cardinality(ok) |->
          LET item == q[SetToSeq(ok)[i]] IN <<item.hook, item.alert>>]
Retried(q, a, q2, due, ok, m) ==
  Answers(AnsweredItems(a, q, ok), m) /\ Settled(q2, AnsweredItems(a, q, ok), due)

\* An item that is answered was waiting, and waits no more.
LEMMA RetriesSettle ==
  ASSUME NEW m \in Nat, NEW q, NEW a, NEW due, Letters(q, m), Answers(a, m),
         Settled(q, a, due), \A p \in due : p = <<p[1], p[2]>>,
         NEW ok, ok \subseteq {i \in DOMAIN q : q[i].status = "FAILED"},
         NEW q2, DOMAIN q2 = DOMAIN q,
         \A i \in DOMAIN q :
           /\ q2[i].hook = q[i].hook /\ q2[i].alert = q[i].alert
           /\ q2[i].status = IF i \in ok THEN "RESOLVED" ELSE q[i].status
  PROVE  Retried(q, a, q2, due, ok, m)
<1> DEFINE f == SetToSeq(ok)
           Of(i) == <<q[f[i]].hook, q[f[i]].alert>>
           got == [i \in 1..Cardinality(ok) |-> Of(i)]
           a2 == a \o got
<1>1. DOMAIN q = 1..Len(q) /\ Len(q) \in Nat /\ DOMAIN a = 1..Len(a) /\ Len(a) \in Nat
  BY DEF Letters, Answers, IsSequence
<1>2. IsFiniteSet(ok)
  <2>1. IsFiniteSet(1..Len(q)) /\ ok \subseteq 1..Len(q)
    <3>1. 1 \in Int /\ Len(q) \in Int
      BY <1>1
    <3>2. IsFiniteSet(1..Len(q))
      BY <3>1, FS_Interval
    <3>3. ok \subseteq DOMAIN q
      OBVIOUS
    <3>4. QED BY <1>1, <3>2, <3>3
  <2>2. QED BY <2>1, FS_Subset
<1>3. PICK l \in Nat : l = Cardinality(ok)
  BY <1>2, FS_CardinalityType
<1>4. /\ \A i \in 1..l : f[i] \in ok /\ f[i] \in 1..Len(q) /\ q[f[i]].status = "FAILED"
      /\ \A i, j \in 1..l : f[i] = f[j] => i = j
      /\ \A x \in ok : \E i \in 1..l : f[i] = x
  BY <1>1, <1>2, <1>3, SetToSeqLists
<1> HIDE DEF f
<1>5. \A i \in 1..l : Of(i) = <<Of(i)[1], Of(i)[2]>> /\ Of(i)[2] \in 1..m
  BY <1>4 DEF Letters
<1>6. \A i, j \in 1..l : Of(i) = Of(j) => i = j
  <2> SUFFICES ASSUME NEW i \in 1..l, NEW j \in 1..l, Of(i) = Of(j) PROVE i = j
    OBVIOUS
  <2>1. q[f[i]].hook = q[f[j]].hook /\ q[f[i]].alert = q[f[j]].alert
    OBVIOUS
  <2>2. f[i] = f[j]
    BY <1>4, <2>1 DEF Letters
  <2>3. QED BY <1>4, <2>2
<1>7. \A i \in 1..l : Waits(q, Of(i)[1], Of(i)[2])
  BY <1>1, <1>4 DEF Waits
<1>8. \A h, n : Waits(q2, h, n) => /\ Waits(q, h, n)
                                   /\ \A i \in 1..l : Of(i)[1] = h => Of(i)[2] # n
  <2> SUFFICES ASSUME NEW h, NEW n, NEW x \in DOMAIN q,
                      q2[x].hook = h, q2[x].alert = n, q2[x].status = "FAILED"
               PROVE  Waits(q, h, n) /\ \A i \in 1..l : Of(i)[1] = h => Of(i)[2] # n
    BY DEF Waits
  <2>1. q[x].hook = h /\ q[x].alert = n /\ q[x].status = "FAILED" /\ x \notin ok
    OBVIOUS
  <2>2. Waits(q, h, n)
    BY <2>1 DEF Waits
  <2>3. ASSUME NEW i \in 1..l, Of(i)[1] = h, Of(i)[2] = n PROVE FALSE
    <3>1. q[f[i]].hook = q[x].hook /\ q[f[i]].alert = q[x].alert
      BY <2>1, <2>3
    <3>2. f[i] = x
      BY <1>1, <1>4, <3>1 DEF Letters
    <3>3. QED BY <1>4, <2>1, <3>2
  <2>4. QED BY <2>2, <2>3
<1>9. \A h, n : Waits(q, h, n) => Waits(q2, h, n) \/ \E i \in 1..l : Of(i) = <<h, n>>
  <2> SUFFICES ASSUME NEW h, NEW n, NEW x \in DOMAIN q,
                      q[x].hook = h, q[x].alert = n, q[x].status = "FAILED"
               PROVE  Waits(q2, h, n) \/ \E i \in 1..l : Of(i) = <<h, n>>
    BY DEF Waits
  <2>1. CASE x \in ok
    <3>1. PICK i \in 1..l : f[i] = x
      BY <1>4, <2>1
    <3>2. Of(i) = <<h, n>>
      BY <3>1
    <3>3. QED BY <3>2
  <2>2. CASE x \notin ok
    BY <2>2 DEF Waits
  <2>3. QED BY <2>1, <2>2
<1>10. IsSequence(got) /\ Len(got) = l /\ \A i \in 1..l : got[i] = Of(i)
  <2> HIDE DEF Of
  <2>1. got = [i \in 1..l |-> Of(i)]
    BY <1>3
  <2> DEFINE T == {Of(i) : i \in 1..l}
  <2>2. \A i \in 1..l : Of(i) \in T
    OBVIOUS
  <2> HIDE DEF got, T
  <2>3. got \in Seq(T)
    BY <2>1, <2>2
  <2>4. IsSequence(got)
    BY <2>3, SequenceIs
  <2>5. QED BY <2>1, <2>4
<1> HIDE DEF got, Of
<1>11. IsJoined(a2, a, got)
  <2> HIDE DEF a2
  <2>1. a2 = a \o got
    BY DEF a2
  <2>2. IsSequence(a) /\ IsSequence(got)
    BY <1>10 DEF Answers
  <2>3. QED BY <2>1, <2>2, SequencesJoined, Zenon
<1> HIDE DEF a2
<1>12. /\ IsSequence(a2) /\ DOMAIN a2 = 1..Len(a2)
       /\ \A i \in 1..Len(a) : i \in 1..Len(a2) /\ a2[i] = a[i]
       /\ \A i \in 1..l : Len(a) + i \in 1..Len(a2) /\ a2[Len(a) + i] = Of(i)
       /\ \A x \in 1..Len(a2) : x \in 1..Len(a) \/ \E i \in 1..l : x = Len(a) + i
  <2>1. IsSequence(a2) /\ DOMAIN a2 = 1..Len(a2)
    BY <1>11 DEF IsJoined, IsSequence
  <2>2. QED BY <1>10, <1>11, <2>1 DEF IsJoined
<1>13. \A x \in 1..Len(a2) : \/ x \in 1..Len(a) /\ a2[x] = a[x]
                             \/ \E i \in 1..l : x = Len(a) + i /\ a2[x] = Of(i)
  <2> SUFFICES ASSUME NEW x \in 1..Len(a2), x \notin 1..Len(a)
               PROVE  \E i \in 1..l : x = Len(a) + i /\ a2[x] = Of(i)
    BY <1>12
  <2>1. PICK i \in 1..l : x = Len(a) + i
    BY <1>12
  <2>2. a2[x] = Of(i)
    BY <1>12, <2>1
  <2>3. QED BY <2>1, <2>2
<1>14. Answers(a2, m)
  <2>1. ASSUME NEW x \in 1..Len(a2)
        PROVE  a2[x] = <<a2[x][1], a2[x][2]>> /\ a2[x][2] \in 1..m
    <3>1. CASE x \in 1..Len(a) /\ a2[x] = a[x]
      BY <3>1 DEF Answers
    <3>2. CASE \E i \in 1..l : x = Len(a) + i /\ a2[x] = Of(i)
      BY <1>5, <3>2
    <3>3. QED BY <1>13, <3>1, <3>2
  <2>2. QED BY <1>12, <2>1 DEF Answers
<1>15. ASSUME NEW p \in due PROVE p \in ToSet(a2) \/ Waits(q2, p[1], p[2])
  <2>1. CASE p \in ToSet(a)
    BY <1>1, <1>12, <2>1 DEF ToSet
  <2>2. CASE \E i \in 1..l : Of(i) = <<p[1], p[2]>> /\ p = <<p[1], p[2]>>
    BY <1>12, <2>2 DEF ToSet
  <2>3. CASE Waits(q2, p[1], p[2])
    BY <2>3
  <2>4. p \in ToSet(a) \/ Waits(q, p[1], p[2])
    BY DEF Settled
  <2>5. p = <<p[1], p[2]>>
    OBVIOUS
  <2>6. QED BY <1>9, <2>1, <2>2, <2>3, <2>4, <2>5
<1>16. ASSUME NEW x \in 1..Len(a2), NEW y \in 1..Len(a2), a2[x] = a2[y] PROVE x = y
  <2>1. \A v \in 1..Len(a) : ~Waits(q, a[v][1], a[v][2])
    BY <1>1 DEF Settled
  <2>2. \A v \in 1..Len(a), i \in 1..l : a[v] # Of(i)
    BY <1>7, <2>1
  <2>3. \A v, w \in 1..Len(a) : a[v] = a[w] => v = w
    BY <1>1 DEF Settled
  <2>4. CASE x \in 1..Len(a) /\ a2[x] = a[x]
    BY <1>13, <1>16, <2>2, <2>3, <2>4
  <2>5. CASE \E i \in 1..l : x = Len(a) + i /\ a2[x] = Of(i)
    <3>1. PICK i \in 1..l : x = Len(a) + i /\ a2[x] = Of(i)
      BY <2>5
    <3>2. PICK k \in 1..l : y = Len(a) + k /\ a2[y] = Of(k)
      BY <1>13, <1>16, <2>2, <3>1
    <3>3. QED BY <1>6, <1>16, <3>1, <3>2
  <2>6. QED BY <1>13, <2>4, <2>5
<1>17. ASSUME NEW x \in 1..Len(a2) PROVE ~Waits(q2, a2[x][1], a2[x][2])
  <2>1. CASE x \in 1..Len(a) /\ a2[x] = a[x]
    <3>1. ~Waits(q, a[x][1], a[x][2])
      BY <1>1, <2>1 DEF Settled
    <3>2. QED BY <1>8, <2>1, <3>1
  <2>2. CASE \E i \in 1..l : x = Len(a) + i /\ a2[x] = Of(i)
    BY <1>8, <2>2
  <2>3. QED BY <1>13, <2>1, <2>2
<1>18. Settled(q2, a2, due)
  BY <1>12, <1>15, <1>16, <1>17 DEF Settled
<1>19. a2 = AnsweredItems(a, q, ok)
  BY DEF a2, got, Of, f, AnsweredItems
<1>20. QED BY <1>14, <1>18, <1>19 DEF Retried
-----------------------------------------------------------------------------

\* What each webhook is owed: the alert becomes one that was dispatched.
LEMMA DispatchKeeps ==
  ASSUME PipelineInv, NEW accepted, DispatchAlert(accepted)
  PROVE  PipelineInv'
<1> DEFINE alert == Top.alert
           id == Top.id
           to == Eligible(soar, alert)
           f == [Top EXCEPT !.pc = "correlate"]
           a2 == Answered(done.acked, id, accepted)
           q2 == Sent(soar.dlq, id, to \ accepted)
           due2 == Due(done.eligible, id, to)
<1>1. /\ At("dispatch") /\ accepted \subseteq to /\ soar' = Dispatch(soar, alert, id, accepted)
      /\ done' = [done EXCEPT !.eligible = due2, !.acked = a2]
      /\ UNCHANGED <<now, recorded, returned, engine, dash, ledgers>>
  BY DEF DispatchAlert, Answered, Due
<1>2. stack # <<>> /\ Top.pc = "dispatch"
  BY <1>1 DEF At
<1>3. stack' = [stack EXCEPT ![Len(stack)] = f]
  BY DEF DispatchAlert, Goto, Top
<1>4. TypeOK /\ Mirrored /\ Collected /\ Queueing /\ AnsweredOrQueued
  BY DEF PipelineInv
<1>5. /\ IsFrame(Top) /\ Top.campaign = 0 /\ id = Len(recorded) /\ Len(recorded) > 0
      /\ Len(recorded) \in Nat
  BY <1>2, <1>4, TopIs, RecordedCounts
<1>6. IsFrame(f) /\ f.alert = alert /\ f.pc = "correlate" /\ f.id = id /\ f.campaign = 0
  BY <1>5 DEF IsFrame, Steps
<1> HIDE DEF f
<1>7. /\ Calls(stack', Len(recorded)) /\ stack' # <<>> /\ Top' = f /\ Coming' = Coming
      /\ \A step : At(step)' <=> step = "correlate"
  BY <1>2, <1>3, <1>4, <1>5, <1>6, CallGoesOn
<1>8. PICK m \in Nat : id = m + 1 /\ m = Len(recorded) - 1
  BY <1>5
<1>9. /\ Reached' = Reached /\ Dispatched = m /\ Dispatched' = m + 1 /\ Lagging /\ Lagging'
  BY <1>1, <1>2, <1>5, <1>7, <1>8 DEF Reached, Dispatched, Lagging, At
<1>10. /\ soar'.dlq = q2 /\ DOMAIN soar'.hooks = DOMAIN soar.hooks
       /\ soar' \in [hooks : {soar'.hooks}, dlq : {soar'.dlq}, contained : {soar'.contained}]
  BY <1>1 DEF Dispatch, Sent
<1> HIDE DEF alert, a2, q2, due2, to
<1>11. /\ IsDone(done') /\ done'.acked = a2 /\ done'.eligible = due2
       /\ done'.confirmed = done.confirmed /\ done'.steady = done.steady
  BY <1>1, <1>4 DEF TypeOK, IsDone
<1>12. TypeOK'
  BY <1>1, <1>4, <1>7, <1>11 DEF TypeOK
<1>13. Mirrored'
  BY <1>1, <1>2, <1>4, <1>6, <1>7, <1>9, <1>11, MirrorStill DEF At, alert
<1>14. Collected'
  BY <1>1, <1>2, <1>4, <1>7, <1>9, <1>11, CollectStill
<1>15. Letters(q2, id) /\ Answers(a2, id) /\ Settled(q2, a2, due2)
  <2>1. /\ Letters(soar.dlq, m) /\ Answers(done.acked, m)
        /\ Settled(soar.dlq, done.acked, done.eligible)
    BY <1>4, <1>9, SettledIs DEF Queueing
  <2>2. IsFiniteSet(to) /\ accepted \in SUBSET to
    <3>1. to \subseteq DOMAIN soar.hooks
      BY DEF to, Eligible
    <3>2. IsFiniteSet(DOMAIN soar.hooks)
      BY <1>4 DEF Queueing
    <3>3. QED BY <1>1, <3>1, <3>2, FS_Subset
  <2>3. Delivered(soar.dlq, done.acked, done.eligible, to, accepted, m + 1)
    BY <2>1, <2>2, DeliveriesSettle, Zenon
  <2>4. QED BY <1>8, <2>3 DEF Delivered, q2, a2, due2
<1>16. Queueing' /\ AnsweredOrQueued'
  <2>1. \A p \in due2 : p = <<p[1], p[2]>>
    BY <1>4 DEF Queueing, due2, Due
  <2>2. IsFiniteSet(DOMAIN soar'.hooks)
    BY <1>4, <1>10 DEF Queueing
  <2>3. Queueing'
    BY <1>8, <1>9, <1>10, <1>11, <1>15, <2>1, <2>2 DEF Queueing
  <2>4. AnsweredOrQueued' <=> Settled(soar'.dlq, done'.acked, done'.eligible)
    BY DEF AnsweredOrQueued, NoAlertLost, AnsweredOnce, IsQueued, Settled, Waits
  <2>5. QED BY <1>10, <1>11, <1>15, <2>3, <2>4
<1>17. QED BY <1>12, <1>13, <1>14, <1>16 DEF PipelineInv

\* The engine sees the alert that the dashboard has seen, and a case that is
\* confirmed is the next to be recorded.
LEMMA CorrelateCaseKeeps ==
  ASSUME PipelineInv, CorrelateCase
  PROVE  PipelineInv'
<1> DEFINE alert == Top.alert
           n == Len(recorded)
           r == Ingest(engine, alert, now)
           raised == [category |-> "ATTACK_CAMPAIGN", severity |-> "CRITICAL",
                      src |-> r.escalated[1].src, dst |-> r.escalated[1].dst,
                      sure |-> r.engine.cases[r.case].prob >= 9000, time |-> now]
           f == [Top EXCEPT !.pc = "persist"]
           t == [stack EXCEPT ![Len(stack)] = f]
           given == Append(ledgers.engine, Top.id)
           confirmed2 == IF r.escalated = <<>> THEN done.confirmed
                         ELSE done.confirmed \union {n + 1}
<1>1. /\ At("correlate") /\ engine' = r.engine
      /\ ledgers' = [ledgers EXCEPT !.engine = given]
      /\ UNCHANGED <<now, recorded, returned, dash, soar>>
      /\ r.escalated = <<>> => stack' = t /\ done' = done
      /\ r.escalated # <<>> => /\ stack' = Call(t, raised)
                               /\ done' = [done EXCEPT !.confirmed = @ \union {n + 1}]
  BY SMTT(30) DEF CorrelateCase, outside, Goto, Top
<1>2. stack # <<>> /\ Top.pc = "correlate"
  BY <1>1 DEF At
<1>3. TypeOK /\ Mirrored /\ Collected /\ Queueing /\ AnsweredOrQueued
  BY DEF PipelineInv
<1>4. /\ IsFrame(Top) /\ Top.campaign = 0 /\ Top.id = n /\ n > 0 /\ n \in Nat
  BY <1>2, <1>3, TopIs, RecordedCounts
<1>5. IsFrame(f) /\ f.alert = alert /\ f.pc = "persist" /\ f.campaign = 0
  BY <1>4 DEF IsFrame, Steps
<1>6. raised.category = "ATTACK_CAMPAIGN"
  OBVIOUS
<1> HIDE DEF raised, f, r
<1>7. /\ Calls(stack', n) /\ stack' # <<>> /\ Coming' = Coming
      /\ \A step : At(step)' <=> step = IF r.escalated = <<>> THEN "persist" ELSE "record"
  <2>1. CASE r.escalated = <<>>
    <3>1. /\ Calls(stack', n) /\ stack' # <<>> /\ Coming' = Coming
          /\ \A step : At(step)' <=> step = f.pc
      BY <1>1, <1>2, <1>3, <1>4, <1>5, <2>1, CallGoesOn
    <3>2. QED BY <1>5, <2>1, <3>1
  <2>2. CASE r.escalated # <<>>
    <3>1. /\ Calls(stack', n) /\ stack' # <<>>
          /\ \A step : At(step)' <=> step = "record"
          /\ Coming' = IF Len(stack) = 1 THEN IF f.campaign = 0 THEN {} ELSE {f.campaign}
                       ELSE Coming
      BY <1>1, <1>2, <1>3, <1>4, <1>5, <1>6, <2>2, CallIsMade
    <3>2. Len(stack) = 1 => Coming = {}
      BY <1>2, <1>3, <1>4, TopIs
    <3>3. Coming' = Coming
      BY <1>5, <3>1, <3>2
    <3>4. QED BY <2>2, <3>1, <3>3
  <2>3. QED BY <2>1, <2>2
<1>8. /\ Reached = n /\ Dispatched = n /\ Dispatched' = n /\ Lagging /\ ~Lagging'
      /\ Reached' = IF r.escalated = <<>> THEN n ELSE n + 1
  BY <1>1, <1>2, <1>7 DEF Reached, Dispatched, Lagging, At
<1>9. /\ IsDone(done') /\ done'.confirmed = confirmed2 /\ done'.steady = done.steady
      /\ done'.acked = done.acked /\ done'.eligible = done.eligible
  BY <1>1, <1>3 DEF TypeOK, IsDone
<1>10. TypeOK'
  <2>1. ledgers' \in [engine : Seq(Nat), dash : Seq(Nat), cases : Seq(Nat)]
    <3>1. given \in Seq(Nat)
      BY <1>3, <1>4 DEF TypeOK
    <3> HIDE DEF given
    <3>2. QED BY <1>1, <1>3, <3>1 DEF TypeOK
  <2>2. QED BY <1>1, <1>3, <1>7, <1>9, <2>1 DEF TypeOK
<1> HIDE DEF alert, n
<1>11. Mirrored'
  <2>1. /\ ledgers.dash = UpTo(n) /\ ledgers.engine = UpTo(n - 1)
        /\ done.confirmed \subseteq 1..n
        /\ done.steady => /\ dash = r.engine
                          /\ Len(ledgers.cases) = Cardinality(done.confirmed)
                               + (IF r.escalated = <<>> THEN 0 ELSE 1)
    BY <1>3, <1>8 DEF Mirrored, r, n, alert
  <2>2. ledgers'.dash = UpTo(n) /\ ledgers'.engine = UpTo(n) /\ ledgers'.cases = ledgers.cases
    <3>1. PICK k \in Nat : k = n - 1 /\ k + 1 = n
      BY <1>4
    <3>2. Append(UpTo(k), k + 1) = UpTo(k + 1)
      BY UpToGrows
    <3>3. ledgers'.engine = Append(ledgers.engine, n)
      BY <1>1, <1>3, <1>4 DEF TypeOK
    <3>4. ledgers'.dash = ledgers.dash /\ ledgers'.cases = ledgers.cases
      BY <1>1, <1>3 DEF TypeOK
    <3>5. Append(UpTo(n - 1), n) = UpTo(n)
      BY <3>1, <3>2
    <3>6. QED BY <2>1, <3>3, <3>4, <3>5
  <2>3. confirmed2 \subseteq 1..Reached'
    BY <1>4, <1>8, <2>1
  <2>4. Cardinality(confirmed2) = Cardinality(done.confirmed)
                                    + (IF r.escalated = <<>> THEN 0 ELSE 1)
    <3>1. IsFiniteSet(done.confirmed)
      <4>1. 1 \in Int /\ n \in Int
        BY <1>4
      <4>2. IsFiniteSet(1..n)
        BY <4>1, FS_Interval
      <4>3. QED BY <2>1, <4>2, FS_Subset
    <3>2. n + 1 \notin done.confirmed /\ Cardinality(done.confirmed) \in Nat
      BY <1>4, <2>1, <3>1, FS_CardinalityType
    <3>3. Cardinality(done.confirmed \union {n + 1}) = Cardinality(done.confirmed) + 1
      BY <3>1, <3>2, FS_AddElement
    <3>4. CASE r.escalated = <<>>
      BY <3>2, <3>4
    <3>5. CASE r.escalated # <<>>
      BY <3>3, <3>5
    <3>6. QED BY <3>4, <3>5
  <2>5. /\ ledgers'.dash = UpTo(Len(recorded'))
        /\ ledgers'.engine = UpTo(IF Lagging' THEN Len(recorded') - 1 ELSE Len(recorded'))
    BY <1>1, <1>8, <2>2 DEF n
  <2> HIDE DEF confirmed2
  <2>6. done'.steady => dash' = engine' /\ Len(ledgers'.cases) = Cardinality(done'.confirmed)
    BY <1>1, <1>9, <2>1, <2>2, <2>4
  <2>7. QED BY <1>8, <1>9, <2>3, <2>5, <2>6 DEF Mirrored
<1>12. Collected'
  <2>1. /\ Increasing(returned) /\ ToSet(returned) \union Coming \subseteq 1..n
        /\ returned # <<>> /\ \A c \in Coming : c \notin done.confirmed
                              /\ \A i \in DOMAIN returned : returned[i] < c
        /\ ToSet(returned) \intersect done.confirmed = {}
        /\ returned[1]..n \subseteq Accounted
    BY <1>2, <1>3, <1>8 DEF Collected
  <2>2. 1..n \subseteq 1..Reached' /\ n + 1 \notin 1..n
    BY <1>4, <1>8
  <2>3. ToSet(returned') \union Coming' \subseteq 1..Reached'
    BY <1>1, <1>7, <2>1, <2>2
  <2>4. /\ \A c \in Coming' : c \notin done'.confirmed
        /\ ToSet(returned') \intersect done'.confirmed = {}
    BY <1>1, <1>7, <1>9, <2>1, <2>2
  <2>5. returned'[1]..Reached' \subseteq Accounted'
    <3>1. Accounted \subseteq Accounted'
      BY <1>1, <1>7, <1>9 DEF Accounted
    <3>2. \A x \in returned[1]..Reached' : x \in returned[1]..n \/ (r.escalated # <<>> /\ x = n + 1)
      <4>1. returned[1] \in Nat
        BY <1>3, <2>1 DEF TypeOK
      <4>2. QED BY <1>4, <1>8, <4>1
    <3>3. r.escalated # <<>> => n + 1 \in Accounted'
      BY <1>9 DEF Accounted
    <3>4. QED BY <1>1, <2>1, <3>1, <3>2, <3>3
  <2>6. QED BY <1>1, <1>7, <2>1, <2>3, <2>4, <2>5 DEF Collected
<1>13. Queueing' /\ AnsweredOrQueued'
  BY <1>1, <1>3, <1>4, <1>8, <1>9, QueueStill DEF Queueing
<1>14. QED BY <1>10, <1>11, <1>12, <1>13 DEF PipelineInv

LEMMA PersistKeeps ==
  ASSUME PipelineInv, NEW ok, Persist(ok)
  PROVE  PipelineInv'
<1> DEFINE f == [Top EXCEPT !.pc = "chain"]
<1>1. /\ At("persist") /\ UNCHANGED <<now, recorded, returned, engine, dash, soar, ledgers, done>>
      /\ stack' = [stack EXCEPT ![Len(stack)] = f]
  BY DEF Persist, Goto, Top
<1>2. stack # <<>> /\ Top.pc = "persist"
  BY <1>1 DEF At
<1>3. TypeOK /\ Mirrored /\ Collected /\ Queueing /\ AnsweredOrQueued
  BY DEF PipelineInv
<1>4. IsFrame(Top) /\ Top.campaign = 0
  BY <1>2, <1>3, TopIs
<1>5. IsFrame(f) /\ f.alert = Top.alert /\ f.pc = "chain" /\ f.campaign = 0
  BY <1>4 DEF IsFrame, Steps
<1> HIDE DEF f
<1>6. /\ Calls(stack', Len(recorded)) /\ stack' # <<>> /\ Coming' = Coming
      /\ \A step : At(step)' <=> step = f.pc
  BY <1>1, <1>2, <1>3, <1>4, <1>5, CallGoesOn
<1>7. Reached' = Reached /\ Dispatched' = Dispatched /\ ~Lagging /\ ~Lagging' /\ ~At("record")
  BY <1>1, <1>2, <1>5, <1>6 DEF Reached, Dispatched, Lagging, At
<1>8. TypeOK'
  BY <1>1, <1>3, <1>6 DEF TypeOK
<1>9. Mirrored'
  BY <1>1, <1>3, <1>7, MirrorStill
<1>10. Collected'
  BY <1>1, <1>2, <1>3, <1>6, <1>7, CollectStill
<1>11. Queueing' /\ AnsweredOrQueued'
  BY <1>1, <1>3, <1>7, RecordedCounts, QueueStill DEF Queueing
<1>12. QED BY <1>8, <1>9, <1>10, <1>11 DEF PipelineInv

\* Only the outermost call raises a campaign: the others are about campaigns.
LEMMA CampaignOfCorrelate ==
  ASSUME NEW k, NEW alert, NEW t, Correlate(k, alert, t).campaign # <<>>
  PROVE  /\ alert.category # "ATTACK_CAMPAIGN"
         /\ Correlate(k, alert, t).campaign[1].category = "ATTACK_CAMPAIGN"
<1>1. alert.category # "ATTACK_CAMPAIGN"
  BY DEF Correlate
<1>2. QED BY <1>1 DEF Correlate

LEMMA CorrelateChainKeeps ==
  ASSUME PipelineInv, CorrelateChain
  PROVE  PipelineInv'
<1> DEFINE n == Len(recorded)
           r == Correlate(chain, Top.alert, now)
           g == [Top EXCEPT !.pc = "return"]
           f == [Top EXCEPT !.pc = "return", !.campaign = n + 1]
<1>1. /\ At("chain") /\ UNCHANGED <<now, recorded, returned, engine, dash, soar, ledgers>>
      /\ r.campaign = <<>> => stack' = [stack EXCEPT ![Len(stack)] = g] /\ done' = done
      /\ r.campaign # <<>> => /\ stack' = Call([stack EXCEPT ![Len(stack)] = f], r.campaign[1])
                              /\ done' = [done EXCEPT !.campaigns = @ \union {n + 1}]
  <2>1. At("chain") /\ UNCHANGED <<now, recorded, returned, engine, dash, soar, ledgers>>
    BY DEF CorrelateChain, outside
  <2>2. r.campaign = <<>> => stack' = [stack EXCEPT ![Len(stack)] = g] /\ done' = done
    BY DEF CorrelateChain, Goto, Top
  <2>3. IsSequence(stack) /\ stack # <<>> /\ Len(stack) \in DOMAIN stack
    <3>1. IsSequence(stack) /\ stack # <<>>
      BY <2>1 DEF At, PipelineInv, TypeOK, Calls
    <3>2. stack \in Seq(ToSet(stack)) /\ Len(stack) \in Nat \ {0}
      BY <3>1, LastReplaced DEF IsSequence
    <3>3. QED BY <3>1, <3>2
  <2>4. [Goto("return") EXCEPT ![Len(stack)].campaign = n + 1] = [stack EXCEPT ![Len(stack)] = f]
    <3> DEFINE l == Len(stack)
    <3>1. [[stack EXCEPT ![l].pc = "return"] EXCEPT ![l].campaign = n + 1]
             = [stack EXCEPT ![l] = [[stack[l] EXCEPT !.pc = "return"] EXCEPT !.campaign = n + 1]]
      BY <2>3
    <3>2. [[stack[l] EXCEPT !.pc = "return"] EXCEPT !.campaign = n + 1] = f
      BY DEF Top
    <3>3. QED BY <3>1, <3>2 DEF Goto
  <2>5. r.campaign # <<>> =>
          /\ stack' = Call([stack EXCEPT ![Len(stack)] = f], r.campaign[1])
          /\ done' = [done EXCEPT !.campaigns = @ \union {n + 1}]
    <3> HIDE DEF f
    <3>1. QED BY <2>4 DEF CorrelateChain
  <2>6. QED BY <2>1, <2>2, <2>5
<1>2. stack # <<>> /\ Top.pc = "chain"
  BY <1>1 DEF At
<1>3. TypeOK /\ Mirrored /\ Collected /\ Queueing /\ AnsweredOrQueued
  BY DEF PipelineInv
<1>4. IsFrame(Top) /\ Top.campaign = 0 /\ n \in Nat /\ Len(stack) \in Nat \ {0}
  BY <1>2, <1>3, TopIs, RecordedCounts
<1>5. /\ IsFrame(g) /\ g.alert = Top.alert /\ g.pc = "return" /\ g.campaign = 0
      /\ IsFrame(f) /\ f.alert = Top.alert /\ f.pc = "return" /\ f.campaign = n + 1
  <2>1. IsFrame(g) /\ g.alert = Top.alert /\ g.pc = "return" /\ g.campaign = 0
    BY <1>4 DEF IsFrame, Steps
  <2>2. PICK c \in Nat : c = n + 1
    BY <1>4
  <2>3. f = [Top EXCEPT !.pc = "return", !.campaign = c]
    BY <2>2
  <2> HIDE DEF f, g, n
  <2>4. IsFrame(f) /\ f.alert = Top.alert /\ f.pc = "return" /\ f.campaign = c
    BY <1>4, <2>3 DEF IsFrame, Steps
  <2>5. QED BY <2>1, <2>2, <2>4
<1>6. r.campaign # <<>> => /\ Len(stack) = 1 /\ r.campaign[1].category = "ATTACK_CAMPAIGN"
                           /\ Coming = {}
  <2>1. Len(stack) > 1 => Top.alert.category = "ATTACK_CAMPAIGN"
    BY <1>2, <1>3, TopIs
  <2>2. r.campaign # <<>> => /\ Top.alert.category # "ATTACK_CAMPAIGN"
                             /\ r.campaign[1].category = "ATTACK_CAMPAIGN"
    BY CampaignOfCorrelate
  <2>3. r.campaign # <<>> => Len(stack) = 1
    <3>1. PICK l \in Nat \ {0} : l = Len(stack)
      BY <1>4
    <3>2. l = 1 \/ l > 1
      OBVIOUS
    <3> HIDE DEF r
    <3>3. QED BY <2>1, <2>2, <3>1, <3>2
  <2>4. Len(stack) = 1 => Coming = {}
    BY <1>2, <1>3, <1>4, TopIs
  <2>5. QED BY <2>2, <2>3, <2>4
<1> HIDE DEF f, g, r
<1>7. /\ Calls(stack', n) /\ stack' # <<>>
      /\ Coming' = IF r.campaign = <<>> THEN Coming ELSE {n + 1}
      /\ \A step : At(step)' <=> step = IF r.campaign = <<>> THEN "return" ELSE "record"
  <2>1. CASE r.campaign = <<>>
    <3>1. /\ Calls(stack', n) /\ stack' # <<>> /\ Coming' = Coming
          /\ \A step : At(step)' <=> step = g.pc
      BY <1>1, <1>2, <1>3, <1>4, <1>5, <2>1, CallGoesOn
    <3>2. QED BY <1>5, <2>1, <3>1
  <2>2. CASE r.campaign # <<>>
    <3>1. /\ Calls(stack', n) /\ stack' # <<>>
          /\ \A step : At(step)' <=> step = "record"
          /\ Coming' = IF Len(stack) = 1 THEN IF f.campaign = 0 THEN {} ELSE {f.campaign}
                       ELSE Coming
      BY <1>1, <1>2, <1>3, <1>5, <1>6, <2>2, CallIsMade
    <3>2. QED BY <1>4, <1>5, <1>6, <2>2, <3>1
  <2>3. QED BY <2>1, <2>2
<1>8. /\ Reached = n /\ Dispatched = n /\ Dispatched' = n /\ ~Lagging /\ ~Lagging' /\ ~At("record")
      /\ Reached' = IF r.campaign = <<>> THEN n ELSE n + 1
  BY <1>1, <1>2, <1>7 DEF Reached, Dispatched, Lagging, At
<1>9. /\ IsDone(done') /\ done'.confirmed = done.confirmed /\ done'.steady = done.steady
      /\ done'.acked = done.acked /\ done'.eligible = done.eligible
  BY <1>1, <1>3 DEF TypeOK, IsDone
<1>10. TypeOK'
  BY <1>1, <1>3, <1>7, <1>9 DEF TypeOK
<1>11. Mirrored'
  BY <1>1, <1>3, <1>8, <1>9, MirrorStill
<1>12. Collected'
  <2>1. CASE r.campaign = <<>>
    BY <1>1, <1>2, <1>3, <1>7, <1>8, <1>9, <2>1, CollectStill
  <2>2. CASE r.campaign # <<>>
    <3>1. /\ Increasing(returned) /\ ToSet(returned) \subseteq 1..n /\ returned # <<>>
          /\ ToSet(returned) \intersect done.confirmed = {} /\ done.confirmed \subseteq 1..n
          /\ returned[1]..n \subseteq ToSet(returned) \union done.confirmed
          /\ returned \in Seq(Nat)
      BY <1>2, <1>3, <1>6, <1>8, <2>2 DEF Collected, Accounted, Mirrored, TypeOK
    <3>2. Coming' = {n + 1} /\ Reached' = n + 1 /\ UNCHANGED returned
      BY <1>1, <1>7, <1>8, <2>2
    <3>3. n + 1 \notin 1..n /\ 1..n \subseteq 1..n + 1 /\ n + 1 \in 1..n + 1
      BY <1>4
    <3>4. \A i \in DOMAIN returned : returned[i] < n + 1
      <4>1. \A i \in DOMAIN returned : returned[i] \in 1..n
        BY <3>1 DEF ToSet
      <4>2. QED BY <1>4, <4>1
    <3>5. returned[1]..n + 1 \subseteq (returned[1]..n) \union {n + 1}
      <4>1. returned[1] \in Nat
        BY <3>1
      <4>2. QED BY <1>4, <4>1
    <3>6. returned'[1]..Reached' \subseteq Accounted'
      BY <1>9, <3>1, <3>2, <3>5 DEF Accounted
    <3>7. ToSet(returned') \union Coming' \subseteq 1..Reached'
      BY <3>1, <3>2, <3>3
    <3> HIDE DEF n
    <3>8. \A c \in Coming' : c \notin done'.confirmed /\ \A i \in DOMAIN returned' : returned'[i] < c
      BY <1>9, <3>1, <3>2, <3>3, <3>4
    <3>9. QED BY <1>9, <3>1, <3>2, <3>6, <3>7, <3>8 DEF Collected
  <2>3. QED BY <2>1, <2>2
<1>13. Queueing' /\ AnsweredOrQueued'
  BY <1>1, <1>3, <1>4, <1>8, <1>9, QueueStill DEF Queueing
<1>14. QED BY <1>10, <1>11, <1>12, <1>13 DEF PipelineInv

\* The campaign is returned with the alert that raised it, after all others.
LEMMA ReturnKeeps ==
  ASSUME PipelineInv, Return
  PROVE  PipelineInv'
<1> DEFINE n == Len(recorded)
<1>1. /\ At("return") /\ UNCHANGED <<now, recorded, engine, dash, soar, ledgers, done>>
      /\ stack' = Front(stack)
      /\ returned' = IF Len(stack) = 1 /\ Top.campaign # 0
                     THEN Append(returned, Top.campaign) ELSE returned
  BY DEF Return, ResultOf, outside
<1>2. stack # <<>> /\ Top.pc = "return"
  BY <1>1 DEF At
<1>3. TypeOK /\ Mirrored /\ Collected /\ Queueing /\ AnsweredOrQueued
  BY DEF PipelineInv
<1>4. /\ IsFrame(Top) /\ n \in Nat /\ Len(stack) \in Nat \ {0} /\ Top = stack[Len(stack)]
      /\ Coming = IF stack[1].campaign = 0 THEN {} ELSE {stack[1].campaign}
  BY <1>2, <1>3, TopIs, RecordedCounts
<1>5. /\ Calls(stack', n)
      /\ \A step \in {"record", "dispatch", "correlate"} : ~At(step)'
      /\ Len(stack) = 1 => stack' = <<>> /\ Coming' = {}
      /\ Len(stack) # 1 => stack' # <<>> /\ Coming' = Coming
  BY <1>1, <1>2, <1>3, CallReturns
<1>6. /\ Reached = n /\ Reached' = n /\ Dispatched = n /\ Dispatched' = n
      /\ ~Lagging /\ ~Lagging' /\ ~At("record")
  BY <1>1, <1>2, <1>5 DEF Reached, Dispatched, Lagging, At
<1>7. /\ Increasing(returned) /\ ToSet(returned) \union Coming \subseteq 1..n
      /\ returned # <<>> /\ returned \in Seq(Nat)
      /\ \A c \in Coming : c \notin done.confirmed /\ \A i \in DOMAIN returned : returned[i] < c
      /\ ToSet(returned) \intersect done.confirmed = {}
      /\ returned[1]..n \subseteq Accounted
  BY <1>2, <1>3, <1>6 DEF Collected, TypeOK
<1>8. \/ Len(stack) = 1 /\ Top.campaign # 0
      \/ UNCHANGED <<returned, Coming>>
  <2>1. CASE Len(stack) = 1 /\ Top.campaign = 0
    BY <1>1, <1>4, <1>5, <2>1
  <2>2. CASE Len(stack) # 1
    BY <1>1, <1>5, <2>2
  <2>3. QED BY <2>1, <2>2
<1>9. returned' \in Seq(Nat) /\ Collected'
  <2>1. CASE UNCHANGED <<returned, Coming>>
    BY <1>1, <1>2, <1>3, <1>6, <1>7, <2>1, CollectStill
  <2>2. CASE Len(stack) = 1 /\ Top.campaign # 0
    <3> DEFINE c == Top.campaign
    <3>1. Coming = {c} /\ Coming' = {} /\ c \in Nat /\ returned' = Append(returned, c)
      BY <1>1, <1>4, <1>5, <2>2 DEF IsFrame
    <3> HIDE DEF c
    <3>2. \A x \in ToSet(returned) : x < c
      BY <1>7, <3>1 DEF ToSet
    <3>3. Increasing(returned') /\ returned' \in Seq(Nat) /\ returned' # <<>>
      BY <1>7, <3>1, <3>2, AppendIsIncreasing
    <3>4. ToSet(returned') = ToSet(returned) \union {c} /\ returned'[1] = returned[1]
      BY <1>7, <3>1, ToSetOfAppend
    <3>5. Accounted' = Accounted
      BY <1>1, <3>1, <3>4 DEF Accounted
    <3>6. ToSet(returned') \intersect done'.confirmed = {}
      BY <1>1, <1>7, <3>1, <3>4
    <3>7. QED BY <1>6, <1>7, <3>1, <3>3, <3>4, <3>5, <3>6 DEF Collected
  <2>3. QED BY <1>8, <2>1, <2>2
<1>10. TypeOK'
  BY <1>1, <1>3, <1>5, <1>9 DEF TypeOK
<1>11. Mirrored'
  BY <1>1, <1>3, <1>6, MirrorStill
<1>12. Queueing' /\ AnsweredOrQueued'
  BY <1>1, <1>3, <1>4, <1>6, QueueStill DEF Queueing
<1>13. QED BY <1>9, <1>10, <1>11, <1>12 DEF PipelineInv
-----------------------------------------------------------------------------
(* The clock and the routes *)

\* A step that counts an event and leaves the alerts alone.
LEMMA EventKeeps ==
  ASSUME PipelineInv, UNCHANGED <<stack, recorded, returned, ledgers, engine>>,
         NEW d, IsDone(d), done' = [d EXCEPT !.events = @ + 1],
         d.confirmed = done.confirmed, d.steady => done.steady,
         Lagging /\ d.steady => UNCHANGED now, d.steady => UNCHANGED dash
  PROVE  /\ TypeOK' /\ Mirrored' /\ Collected' /\ Dispatched' = Dispatched
         /\ done'.acked = d.acked /\ done'.eligible = d.eligible
<1>1. TypeOK /\ Mirrored /\ Collected
  BY DEF PipelineInv
<1>2. /\ IsDone(done') /\ done'.confirmed = done.confirmed /\ done'.steady = d.steady
      /\ done'.acked = d.acked /\ done'.eligible = d.eligible
  BY DoneCounts
<1>3. Top' = Top /\ Coming' = Coming /\ \A step : At(step)' <=> At(step)
  BY StackStill
<1>4. Reached' = Reached /\ Dispatched' = Dispatched /\ (Lagging' <=> Lagging)
  BY <1>3 DEF Reached, Dispatched, Lagging
<1>5. TypeOK'
  BY <1>1, <1>2 DEF TypeOK
<1>6. Mirrored'
  <2>1. CASE d.steady
    <3>1. UNCHANGED dash /\ (Lagging => UNCHANGED now)
      BY <2>1
    <3>2. QED BY <1>1, <1>2, <1>3, <1>4, <3>1, MirrorStill
  <2>2. CASE ~d.steady
    BY <1>1, <1>2, <1>4, <2>2 DEF Mirrored
  <2>3. QED BY <2>1, <2>2
<1>7. Collected'
  BY <1>1, <1>2, <1>3, <1>4, CollectStill
<1>8. QED BY <1>2, <1>4, <1>5, <1>6, <1>7

LEMMA TickKeeps ==
  ASSUME PipelineInv, Tick
  PROVE  PipelineInv'
<1> DEFINE d == [done EXCEPT !.steady = @ /\ Idle]
<1>1. /\ UNCHANGED <<stack, recorded, returned, ledgers, engine, dash, soar>>
      /\ done' = [done EXCEPT !.events = @ + 1, !.steady = @ /\ Idle]
  BY DEF Tick, outside
<1>2. TypeOK /\ Queueing /\ AnsweredOrQueued
  BY DEF PipelineInv
<1>3. /\ d.confirmed = done.confirmed /\ d.acked = done.acked /\ d.eligible = done.eligible
      /\ (d.steady <=> done.steady /\ Idle) /\ IsDone(d) /\ done' = [d EXCEPT !.events = @ + 1]
  <2>1. PICK b \in BOOLEAN : b = (done.steady /\ Idle)
    OBVIOUS
  <2>2. d = [done EXCEPT !.steady = b]
    BY <1>2, <2>1 DEF TypeOK, IsDone
  <2>3. done' = [d EXCEPT !.events = @ + 1]
    BY <1>1, <1>2 DEF TypeOK, IsDone
  <2> HIDE DEF d
  <2>4. QED BY <1>2, <2>1, <2>2, <2>3 DEF TypeOK, IsDone
<1> HIDE DEF d
<1>4. ~(Lagging /\ d.steady)
  BY <1>3 DEF Lagging, At, Idle
<1>5. /\ TypeOK' /\ Mirrored' /\ Collected' /\ Dispatched' = Dispatched
      /\ done'.acked = done.acked /\ done'.eligible = done.eligible
  BY <1>1, <1>3, <1>4, EventKeeps
<1>6. Queueing' /\ AnsweredOrQueued'
  BY <1>1, <1>2, <1>5, RecordedCounts, QueueStill DEF Queueing
<1>7. QED BY <1>5, <1>6 DEF PipelineInv

LEMMA RegisterWebhookKeeps ==
  ASSUME PipelineInv, NEW h, NEW s, RegisterWebhook(h, s)
  PROVE  PipelineInv'
<1> DEFINE d == [done EXCEPT !.ids = @ \union {h}]
           hooks == [x \in DOMAIN soar.hooks \union {h} |->
                       IF x = h THEN [level |-> s.level, enabled |-> s.enabled,
                                      deliveries |-> 0, failures |-> 0]
                       ELSE soar.hooks[x]]
<1>1. /\ UNCHANGED <<stack, recorded, returned, ledgers, engine, dash, now>>
      /\ done' = [done EXCEPT !.events = @ + 1, !.ids = @ \union {h}]
      /\ soar' = [soar EXCEPT !.hooks = hooks]
  BY DEF RegisterWebhook, Others, Register
<1>2. TypeOK /\ Queueing /\ AnsweredOrQueued
  BY DEF PipelineInv
<1>3. /\ d.confirmed = done.confirmed /\ d.acked = done.acked /\ d.eligible = done.eligible
      /\ d.steady = done.steady /\ IsDone(d) /\ done' = [d EXCEPT !.events = @ + 1]
  BY <1>1, <1>2 DEF TypeOK, IsDone
<1> HIDE DEF d
<1>4. /\ TypeOK' /\ Mirrored' /\ Collected' /\ Dispatched' = Dispatched
      /\ done'.acked = done.acked /\ done'.eligible = done.eligible
  BY <1>1, <1>3, EventKeeps
<1>5. IsFiniteSet(DOMAIN hooks)
  <2>1. DOMAIN hooks = {h} \union DOMAIN soar.hooks
    OBVIOUS
  <2>2. IsFiniteSet(DOMAIN soar.hooks)
    BY <1>2 DEF Queueing
  <2>3. QED BY <2>1, <2>2, FS_AddElement
<1> HIDE DEF hooks
<1>6. Queueing' /\ AnsweredOrQueued'
  <2>1. /\ soar'.hooks = hooks /\ soar'.dlq = soar.dlq
        /\ soar' \in [hooks : {soar'.hooks}, dlq : {soar'.dlq}, contained : {soar'.contained}]
    BY <1>1, <1>2 DEF Queueing
  <2>2. QED BY <1>2, <1>4, <1>5, <2>1, RecordedCounts, QueueStill
<1>7. QED BY <1>4, <1>6 DEF PipelineInv

LEMMA DeleteWebhookKeeps ==
  ASSUME PipelineInv, NEW h, DeleteWebhook(h)
  PROVE  PipelineInv'
<1> DEFINE hooks == Restrict(soar.hooks, DOMAIN soar.hooks \ {h})
<1>1. /\ UNCHANGED <<stack, recorded, returned, ledgers, engine, dash, now>>
      /\ done' = [done EXCEPT !.events = @ + 1]
      /\ soar' = [soar EXCEPT !.hooks = hooks]
  BY DEF DeleteWebhook, Others, Delete
<1>2. TypeOK /\ Queueing /\ AnsweredOrQueued
  BY DEF PipelineInv
<1>3. /\ TypeOK' /\ Mirrored' /\ Collected' /\ Dispatched' = Dispatched
      /\ done'.acked = done.acked /\ done'.eligible = done.eligible
  BY <1>1, <1>2, EventKeeps DEF TypeOK
<1>4. IsFiniteSet(DOMAIN hooks)
  <2>1. DOMAIN hooks \subseteq DOMAIN soar.hooks
    BY DEF Restrict
  <2>2. IsFiniteSet(DOMAIN soar.hooks)
    BY <1>2 DEF Queueing
  <2>3. QED BY <2>1, <2>2, FS_Subset
<1> HIDE DEF hooks
<1>5. Queueing' /\ AnsweredOrQueued'
  <2>1. /\ soar'.hooks = hooks /\ soar'.dlq = soar.dlq
        /\ soar' \in [hooks : {soar'.hooks}, dlq : {soar'.dlq}, contained : {soar'.contained}]
    BY <1>1, <1>2 DEF Queueing
  <2>2. QED BY <1>2, <1>3, <1>4, <2>1, RecordedCounts, QueueStill
<1>6. QED BY <1>3, <1>5 DEF PipelineInv

LEMMA UpdateCaseKeeps ==
  ASSUME PipelineInv, NEW c, UpdateCase(c)
  PROVE  PipelineInv'
<1> DEFINE d == [done EXCEPT !.steady = FALSE]
<1>1. /\ UNCHANGED <<stack, recorded, returned, ledgers, engine, now, soar>>
      /\ done' = [done EXCEPT !.events = @ + 1, !.steady = FALSE]
  BY DEF UpdateCase, Others
<1>2. TypeOK /\ Queueing /\ AnsweredOrQueued
  BY DEF PipelineInv
<1>3. /\ d.confirmed = done.confirmed /\ d.acked = done.acked /\ d.eligible = done.eligible
      /\ ~d.steady /\ IsDone(d) /\ done' = [d EXCEPT !.events = @ + 1]
  BY <1>1, <1>2 DEF TypeOK, IsDone
<1> HIDE DEF d
<1>4. /\ TypeOK' /\ Mirrored' /\ Collected' /\ Dispatched' = Dispatched
      /\ done'.acked = done.acked /\ done'.eligible = done.eligible
  BY <1>1, <1>3, EventKeeps
<1>5. Queueing' /\ AnsweredOrQueued'
  BY <1>1, <1>2, <1>4, RecordedCounts, QueueStill DEF Queueing
<1>6. QED BY <1>4, <1>5 DEF PipelineInv

LEMMA RetryDlqKeeps ==
  ASSUME PipelineInv, NEW which, NEW ok, NEW broken, ok \subseteq which,
         which \subseteq Pending(soar), RetryDlq(which, ok, broken)
  PROVE  PipelineInv'
<1> DEFINE q == soar.dlq
           q2 == [i \in DOMAIN q |->
                    IF i \in which \intersect ok THEN [q[i] EXCEPT !.status = "RESOLVED"]
                    ELSE IF i \in which \intersect broken THEN [q[i] EXCEPT !.attempts = @ + 1]
                    ELSE q[i]]
           a2 == AnsweredItems(done.acked, q, ok)
           d == [done EXCEPT !.acked = a2]
<1>1. /\ UNCHANGED <<stack, recorded, returned, ledgers, engine, dash, now>>
      /\ done' = [done EXCEPT !.events = @ + 1, !.acked = a2]
      /\ soar' = [soar EXCEPT !.dlq = q2]
  <2>1. UNCHANGED <<stack, recorded, returned, ledgers, engine, dash, now>>
    BY DEF RetryDlq, Others
  <2>2. soar' = [soar EXCEPT !.dlq = q2]
    BY DEF RetryDlq, RetryItems
  <2>3. done' = [done EXCEPT !.events = @ + 1, !.acked = a2]
    BY Zenon DEF RetryDlq, AnsweredItems
  <2>4. QED BY <2>1, <2>2, <2>3
<1>2. TypeOK /\ Queueing /\ AnsweredOrQueued
  BY DEF PipelineInv
<1>3. /\ soar'.dlq = q2 /\ soar'.hooks = soar.hooks
      /\ soar' \in [hooks : {soar'.hooks}, dlq : {soar'.dlq}, contained : {soar'.contained}]
  BY <1>1, <1>2 DEF Queueing
<1> HIDE DEF a2
<1>4. /\ d.confirmed = done.confirmed /\ d.acked = a2 /\ d.eligible = done.eligible
      /\ d.steady = done.steady /\ IsDone(d) /\ done' = [d EXCEPT !.events = @ + 1]
  BY <1>1, <1>2 DEF TypeOK, IsDone
<1> HIDE DEF d
<1>5. /\ TypeOK' /\ Mirrored' /\ Collected' /\ Dispatched' = Dispatched
      /\ done'.acked = a2 /\ done'.eligible = done.eligible
  BY <1>1, <1>4, EventKeeps
<1>6. PICK m \in Nat : m = Dispatched
  BY <1>2, RecordedCounts
<1>7. Letters(q, m) /\ Answers(done.acked, m) /\ Settled(q, done.acked, done.eligible)
  BY <1>2, <1>6, SettledIs DEF Queueing
<1>8. DOMAIN q = 1..Len(q) /\ IsSequence(q)
  BY <1>7 DEF Letters, IsSequence
<1>9. ASSUME NEW i \in DOMAIN q
      PROVE  /\ q2[i].hook = q[i].hook /\ q2[i].alert = q[i].alert
             /\ q2[i].status = IF i \in ok THEN "RESOLVED" ELSE q[i].status
             /\ q2[i] \in [hook : {q2[i].hook}, alert : 1..m, attempts : {q2[i].attempts},
                            status : {"FAILED", "RESOLVED"}]
  <2>1. q[i] \in [hook : {q[i].hook}, alert : 1..m, attempts : {q[i].attempts},
                  status : {"FAILED", "RESOLVED"}]
    BY <1>7, <1>8 DEF Letters
  <2>2. CASE i \in ok
    <3>1. q2[i] = [q[i] EXCEPT !.status = "RESOLVED"]
      BY <2>2
    <3> HIDE DEF q2
    <3>2. QED BY <2>1, <2>2, <3>1
  <2>3. CASE i \notin ok /\ i \in which \intersect broken
    <3>1. q2[i] = [q[i] EXCEPT !.attempts = @ + 1]
      BY <2>3
    <3> HIDE DEF q2
    <3>2. QED BY <2>1, <2>3, <3>1
  <2>4. CASE i \notin ok /\ i \notin which \intersect broken
    <3>1. q2[i] = q[i]
      BY <2>4
    <3> HIDE DEF q2
    <3>2. QED BY <2>1, <2>4, <3>1
  <2>5. QED BY <2>2, <2>3, <2>4
<1>10. IsSequence(q2) /\ Len(q2) = Len(q) /\ DOMAIN q2 = DOMAIN q
  <2>1. Len(q) \in Nat
    BY <1>8 DEF IsSequence
  <2>2. DOMAIN q2 = 1..Len(q)
    BY <1>8
  <2>3. q2 = [i \in 1..Len(q) |-> q2[i]]
    BY <1>8
  <2> DEFINE T == {q2[i] : i \in 1..Len(q)}
  <2> HIDE DEF q2
  <2>4. \A i \in 1..Len(q) : q2[i] \in T
    OBVIOUS
  <2> HIDE DEF T
  <2>5. q2 \in Seq(T)
    BY <2>1, <2>3, <2>4
  <2>6. IsSequence(q2) /\ Len(q2) = Len(q)
    BY <2>1, <2>2, <2>5, SequenceIs
  <2>7. QED BY <1>8, <2>2, <2>6
<1> HIDE DEF q2
<1>11. Letters(q2, m)
  <2>1. ASSUME NEW i \in 1..Len(q2), NEW j \in 1..Len(q2),
               q2[i].hook = q2[j].hook, q2[i].alert = q2[j].alert
        PROVE  i = j
    <3>1. i \in 1..Len(q) /\ j \in 1..Len(q)
      BY <1>10
    <3>2. q[i].hook = q[j].hook /\ q[i].alert = q[j].alert
      BY <1>8, <1>9, <2>1, <3>1
    <3>3. QED BY <1>7, <3>1, <3>2 DEF Letters
  <2>2. QED BY <1>8, <1>9, <1>10, <2>1 DEF Letters
<1>12. Retried(q, done.acked, q2, done.eligible, ok, m)
  <2>1. ok \subseteq {i \in DOMAIN q : q[i].status = "FAILED"}
    BY DEF Pending
  <2>2. \A p \in done.eligible : p = <<p[1], p[2]>>
    BY <1>2 DEF Queueing
  <2>3. \A i \in DOMAIN q :
          /\ q2[i].hook = q[i].hook /\ q2[i].alert = q[i].alert
          /\ q2[i].status = IF i \in ok THEN "RESOLVED" ELSE q[i].status
    BY <1>9
  <2> HIDE DEF q
  <2>4. QED BY <1>7, <1>10, <2>1, <2>2, <2>3, RetriesSettle
<1>13. Queueing' /\ AnsweredOrQueued'
  <2>1. Answers(a2, m) /\ Settled(q2, a2, done.eligible)
    BY <1>12 DEF Retried, a2
  <2>2. Queueing'
    BY <1>2, <1>3, <1>5, <1>6, <1>11, <2>1 DEF Queueing
  <2>3. AnsweredOrQueued' <=> Settled(soar'.dlq, done'.acked, done'.eligible)
    BY DEF AnsweredOrQueued, NoAlertLost, AnsweredOnce, IsQueued, Settled, Waits
  <2>4. QED BY <1>3, <1>5, <2>1, <2>2, <2>3
<1>14. QED BY <1>5, <1>13 DEF PipelineInv
-----------------------------------------------------------------------------
(* All behaviours *)

LEMMA InitPipeline ==
  ASSUME Init PROVE PipelineInv
<1>1. /\ recorded = <<>> /\ stack = <<>> /\ returned = <<>> /\ dash = engine
      /\ soar = [hooks |-> <<>>, dlq |-> <<>>, contained |-> <<>>]
      /\ ledgers = [engine |-> <<>>, dash |-> <<>>, cases |-> <<>>]
      /\ done = [events |-> 0, flows |-> 0, acked |-> <<>>, eligible |-> {},
                 confirmed |-> {}, campaigns |-> {}, ids |-> {}, steady |-> TRUE]
  BY DEF Init, NoSoar
<1>2. IsSequence(<<>>) /\ Len(<<>>) = 0 /\ DOMAIN <<>> = {} /\ <<>> \in Seq(Nat)
  <2>1. <<>> \in Seq(Nat)
    OBVIOUS
  <2>2. IsSequence(<<>>)
    BY <2>1, SequenceIs
  <2>3. QED BY <2>1, <2>2
<1>3. (\A step : ~At(step)) /\ Coming = {}
  BY <1>1 DEF At, Coming
<1>4. Reached = 0 /\ Dispatched = 0 /\ ~Lagging
  BY <1>1, <1>2, <1>3 DEF Reached, Dispatched, Lagging
<1>5. IsDone(done)
  BY <1>1 DEF IsDone
<1>6. TypeOK
  <2>1. Calls(stack, Len(recorded))
    BY <1>1, <1>2 DEF Calls
  <2>2. QED BY <1>1, <1>2, <1>5, <2>1 DEF TypeOK
<1>7. Mirrored
  <2>1. UpTo(0) = <<>>
    BY DEF UpTo
  <2>2. Cardinality(done.confirmed) = 0
    BY <1>1, FS_EmptySet
  <2>3. ledgers.dash = <<>> /\ ledgers.engine = <<>> /\ ledgers.cases = <<>> /\ done.confirmed = {}
    BY <1>1
  <2>4. QED BY <1>1, <1>2, <1>4, <2>1, <2>2, <2>3 DEF Mirrored
<1>8. Collected
  <2>1. ToSet(<<>>) = {} /\ Increasing(<<>>)
    BY <1>2 DEF ToSet, Increasing
  <2>2. QED BY <1>1, <1>2, <1>3, <2>1 DEF Collected
<1>9. Queueing
  <2>1. DOMAIN soar.hooks = {} /\ IsFiniteSet({})
    BY <1>1, <1>2, FS_EmptySet
  <2>2. Letters(soar.dlq, Dispatched) /\ Answers(done.acked, Dispatched)
    BY <1>1, <1>2 DEF Letters, Answers
  <2>3. QED BY <1>1, <2>1, <2>2 DEF Queueing
<1>10. AnsweredOrQueued
  BY <1>1, <1>2 DEF AnsweredOrQueued, NoAlertLost, AnsweredOnce
<1>11. QED BY <1>6, <1>7, <1>8, <1>9, <1>10 DEF PipelineInv

LEMMA StutterKeeps ==
  ASSUME PipelineInv, UNCHANGED vars PROVE PipelineInv'
<1>1. UNCHANGED <<now, stack, recorded, returned, engine, dash, soar, ledgers, done>>
  BY DEF vars
<1>2. TypeOK /\ Mirrored /\ Collected /\ Queueing /\ AnsweredOrQueued
  BY DEF PipelineInv
<1>3. Top' = Top /\ Coming' = Coming /\ \A step : At(step)' <=> At(step)
  BY <1>1, StackStill
<1>4. Reached' = Reached /\ Dispatched' = Dispatched /\ (Lagging' <=> Lagging)
  BY <1>1, <1>3 DEF Reached, Dispatched, Lagging
<1>5. TypeOK'
  BY <1>1, <1>2 DEF TypeOK
<1>6. Mirrored'
  BY <1>1, <1>2, <1>3, <1>4, MirrorStill
<1>7. Collected'
  BY <1>1, <1>2, <1>3, <1>4, CollectStill
<1>8. Queueing' /\ AnsweredOrQueued'
  BY <1>1, <1>2, <1>4, RecordedCounts, QueueStill DEF Queueing
<1>9. QED BY <1>5, <1>6, <1>7, <1>8 DEF PipelineInv

LEMMA PipelineStep ==
  ASSUME PipelineInv, [Next]_vars PROVE PipelineInv'
<1>1. ASSUME NEW alerts \in FlowAlerts, NEW stamp \in Stamps, AnalyzeFlow(alerts, stamp)
      PROVE  PipelineInv'
  BY <1>1, AnalyzeKeeps
<1>2. CASE NextAlert
  BY <1>2, NextAlertKeeps
<1>3. CASE Record
  BY <1>3, RecordKeeps
<1>4. CASE CorrelateCase
  BY <1>4, CorrelateCaseKeeps
<1>5. CASE CorrelateChain
  BY <1>5, CorrelateChainKeeps
<1>6. CASE Return
  BY <1>6, ReturnKeeps
<1>7. ASSUME NEW accepted \in SUBSET HookIds, DispatchAlert(accepted)
      PROVE  PipelineInv'
  BY <1>7, DispatchKeeps
<1>8. ASSUME NEW ok \in BOOLEAN, Persist(ok)
      PROVE  PipelineInv'
  BY <1>8, PersistKeeps
<1>9. CASE Tick
  BY <1>9, TickKeeps
<1>10. ASSUME NEW h \in HookIds, NEW s \in HookSettings, RegisterWebhook(h, s)
       PROVE  PipelineInv'
  BY <1>10, RegisterWebhookKeeps
<1>11. ASSUME NEW h \in HookIds, DeleteWebhook(h)
       PROVE  PipelineInv'
  BY <1>11, DeleteWebhookKeeps
<1>12. ASSUME NEW which \in {Pending(soar)} \union {{i} : i \in Pending(soar)},
              NEW ok \in SUBSET which, NEW broken \in SUBSET which,
              RetryDlq(which, ok, broken)
       PROVE  PipelineInv'
  BY <1>12, RetryDlqKeeps
<1>13. ASSUME NEW c \in DOMAIN dash.cases, UpdateCase(c)
       PROVE  PipelineInv'
  BY <1>13, UpdateCaseKeeps
<1>14. CASE UNCHANGED vars
  BY <1>14, StutterKeeps
<1>15. QED BY <1>1, <1>2, <1>3, <1>4, <1>5, <1>6, <1>7, <1>8, <1>9, <1>10, <1>11, <1>12, <1>13,
              <1>14 DEF Next

\* The invariant of the recording of alerts: the calls in progress, what the
\* dashboard is ahead of the engine, what analyze_flow has still to return and
\* where every delivery is, in the middle of a call (detector/engine.py lines
\* 204-218 and 337-376).
THEOREM PipelineInvariant == Spec => []PipelineInv
<1>1. Init => PipelineInv
  BY InitPipeline
<1>2. PipelineInv /\ [Next]_vars => PipelineInv'
  BY PipelineStep
<1>3. QED BY <1>1, <1>2, PTL DEF Spec

\* Between two flows the dashboard shows the engine's cases and both ledgers
\* were given every alert once and in order, whatever alerts the flows raise
\* and however deep recording one records others (api/state.py lines 126-131,
\* detector/engine.py lines 353-368).
THEOREM DashboardAlwaysMirrors == Spec => []DashboardMirrorsEngine
<1>1. PipelineInv => DashboardMirrorsEngine
  <2> SUFFICES ASSUME PipelineInv, Idle PROVE DashboardMirrorsEngine
    BY DEF DashboardMirrorsEngine
  <2>1. Mirrored /\ ~Lagging
    BY DEF PipelineInv, Idle, Lagging, At
  <2>2. QED BY <2>1 DEF Mirrored, DashboardMirrorsEngine
<1>2. QED BY <1>1, PipelineInvariant, PTL

\* analyze_flow returns every alert recorded since its first, in order, the
\* alerts of confirmed cases excepted (detector/engine.py lines 204-218,
\* 371-376).
THEOREM ReturnedAlwaysComplete == Spec => []ReturnedIsComplete
<1>1. PipelineInv => ReturnedIsComplete
  <2> SUFFICES ASSUME PipelineInv PROVE ReturnedIsComplete
    OBVIOUS
  <2>1. TypeOK /\ Collected
    BY DEF PipelineInv
  <2>2. \A i, j \in DOMAIN returned : i < j => returned[i] < returned[j]
    BY <2>1 DEF Collected, Increasing
  <2>3. ASSUME Idle, returned # <<>>
        PROVE  returned[1]..Len(recorded)
                 = ToSet(returned) \union (done.confirmed \intersect returned[1]..Len(recorded))
    <3>1. Reached = Len(recorded) /\ Coming = {}
      BY <2>3 DEF Idle, Reached, At, Coming
    <3>2. returned[1]..Len(recorded) \subseteq ToSet(returned) \union done.confirmed
      BY <2>1, <2>3, <3>1 DEF Collected, Accounted
    <3>3. ToSet(returned) \subseteq returned[1]..Len(recorded)
      <4> SUFFICES ASSUME NEW i \in DOMAIN returned
                   PROVE  returned[i] \in returned[1]..Len(recorded)
        BY DEF ToSet
      <4>1. returned \in Seq(Nat) /\ 1 \in DOMAIN returned /\ (i = 1 \/ 1 < i)
        BY <2>1, <2>3 DEF TypeOK
      <4>2. returned[1] \in Nat /\ returned[i] \in Nat
        BY <4>1
      <4>3. returned[i] \in 1..Len(recorded)
        BY <2>1, <3>1 DEF Collected, ToSet
      <4>4. i = 1 \/ returned[1] < returned[i]
        BY <2>2, <4>1
      <4>5. Len(recorded) \in Nat
        BY <2>1, RecordedCounts
      <4>6. QED BY <4>2, <4>3, <4>4, <4>5
    <3>4. QED BY <3>2, <3>3
  <2>4. ToSet(returned) \intersect done.confirmed = {}
    BY <2>1 DEF Collected
  <2>5. QED BY <2>2, <2>3, <2>4 DEF ReturnedIsComplete
<1>2. QED BY <1>1, PipelineInvariant, PTL

\* No alert for a webhook is lost and none that was answered is sent again,
\* however many webhooks there are, whatever they answer and however often
\* the queue is retried (detector/dispatcher.py lines 249-315, 337-366).
THEOREM AnsweredOrQueuedAlways == Spec => []AnsweredOrQueued
<1>1. PipelineInv => AnsweredOrQueued
  BY DEF PipelineInv
<1>2. QED BY <1>1, PipelineInvariant, PTL
-----------------------------------------------------------------------------
(* The window of the kill chain *)

\* What leaves a history: all of its head that is older than cutoff.
Pruned(h, g, p, cutoff) ==
  /\ p \in 0..Len(h) - 1 /\ IsSequence(g) /\ Len(g) = Len(h) - p
  /\ \A x \in 1..Len(h) - p : g[x] = h[p + x]
  /\ \A x \in 1..p : h[x].time < cutoff
  /\ h[p + 1].time >= cutoff

LEMMA PruneIs ==
  ASSUME NEW h, IsSequence(h), NEW cutoff \in Int, Len(h) \in Nat \ {0},
         \A x \in 1..Len(h) : h[x].time \in Int, h[Len(h)].time >= cutoff
  PROVE  \E p : Pruned(h, Prune(h, cutoff), p, cutoff)
<1> DEFINE n == Len(h)
           old == {i \in DOMAIN h : \A j \in 1..i : h[j].time < cutoff}
           g == Prune(h, cutoff)
<1>1. n \in Nat \ {0} /\ DOMAIN h = 1..n
  BY DEF IsSequence
<1>2. old \in SUBSET (1..n)
  BY <1>1
<1>3. \A i \in old : \A j \in 1..i : j \in old
  <2> SUFFICES ASSUME NEW i \in old, NEW j \in 1..i PROVE j \in old
    OBVIOUS
  <2>1. i \in 1..n /\ j \in 1..n /\ \A x \in 1..j : x \in 1..i
    BY <1>1
  <2>2. QED BY <1>1, <2>1
<1>4. \E k \in 0..n : old = 1..k
  <2> HIDE DEF old, n
  <2>1. QED BY <1>1, <1>2, <1>3, InitialSegments
<1>5. PICK p \in 0..n : old = 1..p
  BY <1>4
<1>6. Cardinality(old) = p
  <2>1. 1 \in Int /\ p \in Int
    OBVIOUS
  <2>2. Cardinality(1..p) = p
    BY <2>1, FS_Interval
  <2>3. QED BY <1>5, <2>2
<1>7. \A x \in 1..p : h[x].time < cutoff
  <2> SUFFICES ASSUME NEW x \in 1..p PROVE h[x].time < cutoff
    OBVIOUS
  <2>1. x \in old /\ x \in 1..x
    BY <1>5
  <2>2. QED BY <2>1
<1>8. p # n
  <2> SUFFICES ASSUME p = n PROVE FALSE
    OBVIOUS
  <2>1. n \in 1..n /\ n \in 1..p
    BY <1>1
  <2>2. PICK t \in Int : t = h[n].time
    BY <2>1
  <2>3. t < cutoff /\ t >= cutoff
    BY <1>7, <2>1, <2>2
  <2>4. QED BY <2>3
<1>9. p + 1 \in 1..n /\ p + 1 \notin old
  BY <1>5, <1>8
<1>10. h[p + 1].time >= cutoff
  <2>1. PICK j \in 1..p + 1 : ~(h[j].time < cutoff)
    BY <1>1, <1>9
  <2>2. j \in 1..n /\ (j \in 1..p \/ j = p + 1)
    BY <1>9
  <2>3. j = p + 1
    BY <1>7, <2>1, <2>2
  <2>4. QED BY <2>1, <2>2, <2>3
<1>11. g = SubSeq(h, p + 1, n)
  BY <1>6 DEF Prune
<1> HIDE DEF g, old
<1>12. /\ g \in Seq(ToSet(h)) /\ Len(g) = n - p
       /\ \A x \in 1..n - p : g[x] = h[p + x]
  <2>1. \A x \in p + 1..n : h[x] \in ToSet(h)
    BY <1>1 DEF ToSet
  <2>2. p + 1 \in Int /\ n \in Int /\ p + 1 <= n
    BY <1>9
  <2> DEFINE S == ToSet(h)
  <2> HIDE DEF S, n
  <2>3. /\ SubSeq(h, p + 1, n) \in Seq(S)
        /\ Len(SubSeq(h, p + 1, n)) = IF p + 1 <= n THEN n - (p + 1) + 1 ELSE 0
        /\ \A x \in 1..n - (p + 1) + 1 : SubSeq(h, p + 1, n)[x] = h[p + 1 + x - 1]
    <3>1. \A x \in p + 1..n : h[x] \in S
      BY <2>1 DEF S
    <3>2. QED BY <2>2, <3>1, SubSeqProperties
  <2>4. n - (p + 1) + 1 = n - p /\ \A x \in 1..n - p : p + 1 + x - 1 = p + x
    BY <2>2
  <2>5. QED BY <1>11, <2>2, <2>3, <2>4 DEF S
<1>13. IsSequence(g)
  BY <1>12, SequenceIs
<1>14. Pruned(h, g, p, cutoff)
  BY <1>7, <1>8, <1>10, <1>12, <1>13 DEF Pruned
<1>15. QED BY <1>14 DEF g

\* An alert that was given after a newer one.
Behind(k, ids, rec) == \E j \in ids : j < k /\ rec[j].time > rec[k].time

\* No alert of h that came before the x-th is newer, none at all by more than
\* the window.
InWindow(h, x) ==
  \A y \in 1..Len(h) : /\ y < x => h[y].time <= h[x].time
                       /\ h[y].time <= h[x].time + CorrelationWindow

\* h is the window of the alerts of rec that ids names, given in that order.
IsWindow(h, ids, rec) ==
  /\ IsSequence(h)
  /\ \A x \in 1..Len(h) : \E k \in ids :
       h[x] = rec[k] /\ (Behind(k, ids, rec) \/ InWindow(h, x))
  /\ \A k \in ids :
       (\A j \in ids : k < j => rec[k].time >= rec[j].time - CorrelationWindow)
         => \E x \in 1..Len(h) : h[x] = rec[k]

\* The loop of process_alert keeps the window (correlator.py lines 57-63).
LEMMA WindowMoves ==
  ASSUME NEW rec, NEW ids \in SUBSET Nat, NEW o \in Nat, NEW h, IsWindow(h, ids, rec),
         \A k \in ids : k < o /\ rec[k].time \in Int,
         rec[o].time \in Int
  PROVE  IsWindow(Prune(Append(h, rec[o]), rec[o].time - CorrelationWindow),
                  ids \union {o}, rec)
<1> DEFINE a == Append(h, rec[o])
           cutoff == rec[o].time - CorrelationWindow
           g == Prune(a, cutoff)
           all == ids \union {o}
<1>1. PICK w \in Nat : w = CorrelationWindow
  BY WindowAssumption
<1>2. PICK t \in Int : t = rec[o].time
  OBVIOUS
<1>3. PICK n \in Nat : n = Len(h)
  BY DEF IsWindow, IsSequence
<1>4. /\ IsSequence(a) /\ Len(a) = n + 1 /\ a[n + 1] = rec[o]
      /\ \A x \in 1..n : a[x] = h[x]
  BY <1>3, SequenceGrows DEF IsWindow
<1> HIDE DEF a
<1>5. \A x \in 1..n : h[x].time \in Int
  BY <1>3 DEF IsWindow
<1>6. \A x \in 1..n + 1 : a[x].time \in Int
  BY <1>2, <1>4, <1>5
<1>7. cutoff \in Int /\ cutoff = t - w /\ t >= cutoff
  BY <1>1, <1>2
<1> HIDE DEF cutoff
<1>8. PICK p : Pruned(a, g, p, cutoff)
  <2>1. Len(a) \in Nat \ {0} /\ a[Len(a)].time >= cutoff
    BY <1>2, <1>4, <1>7
  <2>2. \A x \in 1..Len(a) : a[x].time \in Int
    BY <1>4, <1>6
  <2>3. QED BY <1>4, <1>7, <2>1, <2>2, PruneIs
<1> HIDE DEF g
<1>9. /\ p \in 0..n /\ IsSequence(g) /\ Len(g) = n + 1 - p
      /\ \A x \in 1..n + 1 - p : g[x] = a[p + x] /\ p + x \in 1..n + 1
      /\ \A x \in 1..p : a[x].time < cutoff /\ x \in 1..n
      /\ a[p + 1].time >= cutoff /\ 1 \in 1..n + 1 - p
  BY <1>4, <1>8 DEF Pruned
<1>10. \A x \in 1..n + 1 : x \in 1..n \/ x = n + 1
  OBVIOUS
<1>11. ASSUME NEW x \in 1..n, NEW k \in ids, h[x] = rec[k], InWindow(h, x),
              NEW y \in 1..n + 1, p < x
       PROVE  /\ y < x => a[y].time <= a[x].time
              /\ a[y].time <= a[x].time + w
  <2>1. PICK u \in Int : u = a[x].time /\ a[x] = h[x] /\ x \in 1..n + 1
    BY <1>4, <1>6
  <2>2. PICK v \in Int : v = a[y].time
    BY <1>6
  <2>3. CASE y \in 1..n
    <3>1. a[y] = h[y]
      BY <1>4, <2>3
    <3>2. (y < x => v <= u) /\ v <= u + w
      BY <1>1, <1>3, <1>11, <2>1, <2>2, <2>3, <3>1 DEF InWindow
    <3>3. QED BY <2>1, <2>2, <3>2
  <2>4. CASE y = n + 1
    <3>1. v = t /\ ~(y < x)
      BY <1>2, <1>4, <2>2, <2>4
    <3>2. PICK z \in Int : z = a[p + 1].time /\ z >= t - w
      BY <1>6, <1>7, <1>9
    <3>3. CASE p + 1 = x
      BY <2>1, <2>2, <3>1, <3>2, <3>3
    <3>4. CASE p + 1 # x
      <4>1. p + 1 \in 1..n /\ p + 1 < x
        BY <1>9, <1>11, <3>4
      <4>2. a[p + 1] = h[p + 1]
        BY <1>4, <4>1
      <4>3. z <= u
        BY <1>3, <1>11, <2>1, <3>2, <4>1, <4>2 DEF InWindow
      <4>4. QED BY <2>1, <2>2, <3>1, <3>2, <4>3
    <3>5. QED BY <3>3, <3>4
  <2>5. QED BY <1>10, <2>3, <2>4
<1>12. ASSUME NEW y \in 1..n + 1, ~Behind(o, all, rec)
       PROVE  a[y].time <= t
  <2>1. CASE y = n + 1
    BY <1>2, <1>4, <2>1
  <2>2. CASE y \in 1..n
    <3>1. PICK j \in ids : h[y] = rec[j]
      BY <1>3, <2>2 DEF IsWindow
    <3>2. a[y] = rec[j] /\ j \in all /\ j < o /\ rec[j].time \in Int
      BY <1>4, <2>2, <3>1
    <3>3. ~(rec[j].time > rec[o].time)
      BY <1>12, <3>2 DEF Behind
    <3>4. QED BY <1>2, <3>2, <3>3
  <2>3. QED BY <1>10, <2>1, <2>2
<1>13. ASSUME NEW k \in ids, Behind(k, ids, rec) PROVE Behind(k, all, rec)
  BY <1>13 DEF Behind
<1>14. ASSUME NEW x \in 1..Len(g)
       PROVE  \E k \in all : g[x] = rec[k] /\ (Behind(k, all, rec) \/ InWindow(g, x))
  <2>1. p + x \in 1..n + 1 /\ g[x] = a[p + x] /\ p < p + x
    BY <1>9
  <2>2. \A y \in 1..Len(g) : p + y \in 1..n + 1 /\ g[y] = a[p + y] /\ (y < x => p + y < p + x)
    BY <1>9
  <2>3. CASE p + x \in 1..n
    <3>1. g[x] = h[p + x]
      BY <1>4, <2>1, <2>3
    <3>2. PICK k \in ids : h[p + x] = rec[k] /\ (Behind(k, ids, rec) \/ InWindow(h, p + x))
      BY <1>3, <2>3 DEF IsWindow
    <3>3. CASE Behind(k, ids, rec)
      BY <1>13, <3>1, <3>2, <3>3
    <3>4. CASE InWindow(h, p + x)
      <4>1. ASSUME NEW y \in 1..Len(g)
            PROVE  /\ y < x => g[y].time <= g[x].time
                   /\ g[y].time <= g[x].time + CorrelationWindow
        BY <1>1, <1>11, <2>1, <2>2, <2>3, <3>2, <3>4
      <4>2. QED BY <3>1, <3>2, <4>1 DEF InWindow
    <3>5. QED BY <3>2, <3>3, <3>4
  <2>4. CASE p + x = n + 1
    <3>1. g[x] = rec[o] /\ o \in all
      BY <1>4, <2>1, <2>4
    <3>2. ASSUME ~Behind(o, all, rec), NEW y \in 1..Len(g)
          PROVE  /\ y < x => g[y].time <= g[x].time
                 /\ g[y].time <= g[x].time + CorrelationWindow
      <4>1. p + y \in 1..n + 1 /\ g[y] = a[p + y]
        BY <2>2
      <4>2. PICK v \in Int : v = g[y].time /\ v <= t
        BY <1>6, <1>12, <3>2, <4>1
      <4>3. QED BY <1>1, <1>2, <3>1, <4>2
    <3>3. QED BY <3>1, <3>2 DEF InWindow
  <2>5. QED BY <1>10, <2>1, <2>3, <2>4
<1>15. \A x \in 1..n + 1 : a[x].time >= cutoff => \E y \in 1..Len(g) : g[y] = a[x]
  <2> SUFFICES ASSUME NEW x \in 1..n + 1, a[x].time >= cutoff
               PROVE  \E y \in 1..Len(g) : g[y] = a[x]
    OBVIOUS
  <2>1. x \notin 1..p
    BY <1>6, <1>7, <1>9
  <2>2. x - p \in 1..n + 1 - p /\ p + (x - p) = x
    BY <1>9, <2>1
  <2>3. g[x - p] = a[x]
    BY <1>9, <2>2
  <2>4. QED BY <1>9, <2>2, <2>3
<1>16. ASSUME NEW k \in all,
              \A j \in all : k < j => rec[k].time >= rec[j].time - CorrelationWindow
       PROVE  \E x \in 1..Len(g) : g[x] = rec[k]
  <2>1. CASE k = o
    <3>1. a[n + 1] = rec[k] /\ a[n + 1].time >= cutoff /\ n + 1 \in 1..n + 1
      BY <1>2, <1>4, <1>7, <2>1
    <3>2. QED BY <1>15, <3>1
  <2>2. CASE k \in ids
    <3>1. \A j \in ids : k < j => rec[k].time >= rec[j].time - CorrelationWindow
      BY <1>16
    <3>2. PICK x \in 1..n : h[x] = rec[k]
      BY <1>3, <2>2, <3>1 DEF IsWindow
    <3>3. rec[k].time >= cutoff
      BY <1>16, <2>2 DEF cutoff
    <3>4. x \in 1..n + 1 /\ a[x] = rec[k]
      BY <1>4, <3>2
    <3>5. QED BY <1>15, <3>3, <3>4
  <2>3. QED BY <2>1, <2>2
<1> HIDE DEF all
<1>17. IsWindow(g, all, rec)
  BY <1>9, <1>14, <1>16 DEF IsWindow
<1>18. QED BY <1>17 DEF g, all, cutoff, a

\* Two stages, two alerts.
LEMMA StagesDiffer ==
  ASSUME NEW h, Cardinality(StagesIn(h)) >= 2
  PROVE  \E b, c \in ToSet(h) : /\ KillStages(b.category) # {} /\ KillStages(c.category) # {}
                                /\ KillStages(b.category) # KillStages(c.category)
<1> DEFINE S == StagesIn(h)
<1>1. \E x, y \in S : x # y
  <2> SUFFICES ASSUME \A x, y \in S : x = y PROVE FALSE
    OBVIOUS
  <2>1. S = {} \/ \E x : S = {x}
    OBVIOUS
  <2>2. Cardinality(S) = 0 \/ Cardinality(S) = 1
    BY <2>1, FS_EmptySet, FS_Singleton
  <2>3. QED BY <2>2
<1>2. PICK x \in S, y \in S : x # y
  BY <1>1
<1>3. PICK b \in ToSet(h), c \in ToSet(h) :
        x \in KillStages(b.category) /\ y \in KillStages(c.category)
  BY DEF StagesIn
<1>4. ASSUME NEW cat PROVE \A u, v \in KillStages(cat) : u = v
  <2>1. CASE cat \in {"PORT_SCAN", "ANOMALY_ML"}
    BY <2>1 DEF KillStages
  <2>2. CASE cat \in {"MALICIOUS_C2", "C2_BEACONING", "DNS_TUNNEL"}
    BY <2>2 DEF KillStages
  <2>3. CASE cat = "LATERAL_MOVEMENT"
    BY <2>3 DEF KillStages
  <2>4. CASE cat \in {"EXFILTRATION", "SYN_FLOOD"}
    BY <2>4 DEF KillStages
  <2>5. QED BY <2>1, <2>2, <2>3, <2>4 DEF KillStages
<1>5. KillStages(b.category) # KillStages(c.category)
  BY <1>2, <1>3, <1>4
<1>6. QED BY <1>3, <1>5

-----------------------------------------------------------------------------
(* What the kill chain was given, in the middle of a flow *)

\* Alerts of detectors: campaigns are not given to the kill chain.
Detected == {i \in Ids : recorded[i].category # "ATTACK_CAMPAIGN"}

\* The alert of the flow that is recorded and on its way to the kill chain.
Unchained == IF stack # <<>> /\ stack[1].pc \in {"dispatch", "correlate", "persist", "chain"}
             THEN {stack[1].id} ELSE {}

Chained(s) == {i \in Detected \ Unchained : recorded[i].src = s}

\* Alerts of the flow that are still to be recorded.
Awaited == ToSet(pending) \union
             (IF stack # <<>> /\ stack[1].pc = "record" THEN {stack[1].alert} ELSE {})

\* Of the alerts of detectors, that of the outermost call is the newest.
OuterIsNewest ==
  stack # <<>> /\ stack[1].pc # "record" =>
    /\ stack[1].id \in Ids /\ recorded[stack[1].id] = stack[1].alert
    /\ \A i \in Detected : i <= stack[1].id

\* An alert has a time and a source.
InTime ==
  /\ now \in Nat /\ IsSequence(pending)
  /\ \A a \in Awaited : a.time \in Int /\ a.src \in Sources
  /\ \A i \in Detected : recorded[i].time \in Int /\ recorded[i].src \in Sources

HistoriesAreWindows ==
  /\ chain \in [history : {chain.history}, alerted : {chain.alerted}]
  /\ chain.history \in [Sources -> {chain.history[s] : s \in Sources}]
  /\ chain.alerted \in [Sources -> {chain.alerted[s] : s \in Sources}]
  /\ \A s \in Sources : IsWindow(chain.history[s], Chained(s), recorded)

\* A campaign that was raised is recorded, or is the next to be.
SrcOf(k) == IF k \in Ids THEN recorded[k].src ELSE Top.alert.src
CampaignsOf(s) == {k \in done.campaigns : SrcOf(k) = s}

\* Two stages that src went through before the k-th alert, within the window or
\* one of them late.
Staged(k, src) ==
  \E i, j \in Ids :
    /\ i < k /\ j < k /\ recorded[i].src = src /\ recorded[j].src = src
    /\ KillStages(recorded[i].category) # {} /\ KillStages(recorded[j].category) # {}
    /\ KillStages(recorded[i].category) # KillStages(recorded[j].category)
    /\ \/ recorded[i].time - recorded[j].time \in 0..CorrelationWindow
       \/ Late(i) \/ Late(j)

CampaignsFit ==
  /\ done.campaigns \subseteq 1..Reached
  /\ \A k \in done.campaigns : SrcOf(k) \in Sources /\ Staged(k, SrcOf(k))
  /\ \A s \in Sources : /\ IsFiniteSet(chain.alerted[s])
                        /\ Cardinality(chain.alerted[s]) = Cardinality(CampaignsOf(s))

ChainInv == OuterIsNewest /\ InTime /\ HistoriesAreWindows /\ CampaignsFit

LEMMA IdsAre ==
  ASSUME TypeOK
  PROVE  Ids = 1..Len(recorded) /\ Len(recorded) \in Nat
BY DEF TypeOK, IsSequence, Ids

\* The flow goes on, and neither history nor chain change.
LEMMA ChainStill ==
  ASSUME TypeOK, ChainInv, UNCHANGED <<recorded, chain>>,
         done'.campaigns = done.campaigns, ~At("record"), now' \in Nat,
         IsSequence(pending'), Awaited' \subseteq Awaited, OuterIsNewest',
         Detected \ Unchained' = Detected \ Unchained
  PROVE  ChainInv'
<1>1. OuterIsNewest /\ InTime /\ HistoriesAreWindows /\ CampaignsFit
  BY DEF ChainInv
<1>2. Ids = 1..Len(recorded) /\ Len(recorded) \in Nat /\ Reached = Len(recorded)
  BY IdsAre DEF Reached
<1>3. Ids' = Ids /\ Detected' = Detected
  BY DEF Ids, Detected
<1>4. InTime'
  BY <1>1, <1>3 DEF InTime
<1>5. HistoriesAreWindows'
  <2>1. \A s : Chained(s)' = Chained(s)
    BY <1>3 DEF Chained
  <2>2. QED BY <1>1, <2>1 DEF HistoriesAreWindows
<1>6. CampaignsFit'
  <2>1. done.campaigns \subseteq Ids
    BY <1>1, <1>2 DEF CampaignsFit
  <2>2. \A k \in done.campaigns : SrcOf(k)' = SrcOf(k)
    BY <1>3, <2>1 DEF SrcOf
  <2>3. \A k, s : Staged(k, s)' <=> Staged(k, s)
    BY <1>3 DEF Staged, Late, Processed
  <2>4. \A s : CampaignsOf(s)' = CampaignsOf(s)
    BY <2>2 DEF CampaignsOf
  <2>5. done'.campaigns \subseteq 1..Reached'
    BY <1>2, <2>1 DEF Reached
  <2>6. QED BY <1>1, <2>2, <2>3, <2>4, <2>5 DEF CampaignsFit
<1>7. QED BY <1>4, <1>5, <1>6 DEF ChainInv

\* The outermost call after a step of the innermost.
LEMMA OuterIs ==
  ASSUME TypeOK, stack # <<>>, NEW f, NEW alert,
         \/ stack' = [stack EXCEPT ![Len(stack)] = f]
         \/ stack' = Call([stack EXCEPT ![Len(stack)] = f], alert)
  PROVE  /\ stack' # <<>> /\ Len(stack) \in Nat \ {0}
         /\ stack'[1] = IF Len(stack) = 1 THEN f ELSE stack[1]
         /\ Len(stack) = 1 => stack[1] = Top
         /\ Len(stack) # 1 => stack[1].pc \in {"persist", "return"}
<1> DEFINE n == Len(stack)
           t == [stack EXCEPT ![n] = f]
           new == [alert |-> alert, id |-> 0, pc |-> "record", campaign |-> 0]
<1>1. Calls(stack, Len(recorded)) /\ IsSequence(stack)
  BY DEF TypeOK, Calls
<1>2. /\ IsSequence(t) /\ t # <<>> /\ n \in Nat \ {0} /\ Len(t) = n
      /\ t[n] = f /\ \A i \in 1..n : i # n => t[i] = stack[i]
  BY <1>1, LastReplaced
<1> HIDE DEF t
<1>3. 1 \in 1..n /\ n \in 1..n /\ (n # 1 => 1 < n)
  <2>1. PICK m \in Nat \ {0} : m = n
    BY <1>2
  <2>2. 1 \in 1..m /\ m \in 1..m /\ (m # 1 => 1 < m)
    OBVIOUS
  <2>3. QED BY <2>1, <2>2
<1>4. n # 1 => stack[1].pc \in {"persist", "return"}
  BY <1>1, <1>3 DEF Calls
<1>5. t[1] = IF n = 1 THEN f ELSE stack[1]
  BY <1>2, <1>3
<1>6. n = 1 => stack[1] = Top
  BY DEF Top
<1>7. stack' = t \/ stack' = Append(t, new)
  BY DEF Call, t
<1> HIDE DEF new
<1>8. /\ Append(t, new) # <<>> /\ \A i \in 1..n : Append(t, new)[i] = t[i]
  BY <1>2, SequenceGrows
<1>9. stack' # <<>> /\ stack'[1] = t[1]
  BY <1>2, <1>3, <1>7, <1>8
<1> HIDE DEF n
<1>10. QED BY <1>2, <1>4, <1>5, <1>6, <1>9 DEF n

\* A call goes on to a place before the kill chain, or had a campaign, which is
\* not for the kill chain; it may record another alert.
LEMMA QuietCall ==
  ASSUME TypeOK, ChainInv, stack # <<>>, Top.pc # "record",
         NEW f, f.alert = Top.alert, f.id = Top.id, f.pc # "record", NEW alert,
         \/ stack' = [stack EXCEPT ![Len(stack)] = f]
         \/ stack' = Call([stack EXCEPT ![Len(stack)] = f], alert),
         \/ /\ Top.pc \in {"dispatch", "correlate", "persist"}
            /\ f.pc \in {"correlate", "persist", "chain"}
         \/ Top.alert.category = "ATTACK_CAMPAIGN" /\ f.pc = "return",
         UNCHANGED <<now, pending, recorded, chain>>, done'.campaigns = done.campaigns
  PROVE  ChainInv'
<1>1. /\ stack' # <<>> /\ Len(stack) \in Nat \ {0}
      /\ stack'[1] = IF Len(stack) = 1 THEN f ELSE stack[1]
      /\ Len(stack) = 1 => stack[1] = Top
  <2>1. \/ stack' = [stack EXCEPT ![Len(stack)] = f]
        \/ stack' = Call([stack EXCEPT ![Len(stack)] = f], alert)
    OBVIOUS
  <2>2. QED BY <2>1, OuterIs, Zenon
<1>2. OuterIsNewest /\ InTime
  BY DEF ChainInv
<1>3. ~At("record")
  BY DEF At
<1>4. /\ stack'[1].alert = stack[1].alert /\ stack'[1].id = stack[1].id
      /\ stack'[1].pc = "record" <=> stack[1].pc = "record"
  BY <1>1
<1>5. Ids' = Ids /\ Detected' = Detected
  BY DEF Ids, Detected
<1>6. OuterIsNewest'
  BY <1>1, <1>2, <1>4, <1>5 DEF OuterIsNewest
<1>7. Awaited' = Awaited
  BY <1>1, <1>4 DEF Awaited
<1>8. Detected \ Unchained' = Detected \ Unchained
  <2>1. CASE Len(stack) # 1
    BY <1>1, <2>1 DEF Unchained
  <2>2. CASE Len(stack) = 1 /\ f.pc # "return"
    BY <1>1, <1>4, <2>2 DEF Unchained
  <2>3. CASE Len(stack) = 1 /\ Top.alert.category = "ATTACK_CAMPAIGN" /\ f.pc = "return"
    <3>1. recorded[stack[1].id].category = "ATTACK_CAMPAIGN"
      BY <1>1, <1>2, <2>3 DEF OuterIsNewest
    <3>2. stack[1].id \notin Detected
      BY <3>1 DEF Detected
    <3>3. Unchained \subseteq {stack[1].id} /\ Unchained' = {}
      BY <1>1, <2>3 DEF Unchained
    <3>4. QED BY <3>2, <3>3
  <2>4. QED BY <2>1, <2>2, <2>3
<1>9. now' \in Nat /\ IsSequence(pending')
  BY <1>2 DEF InTime
<1>10. QED BY <1>3, <1>6, <1>7, <1>8, <1>9, ChainStill
-----------------------------------------------------------------------------
LEMMA InitChain == Init => ChainInv
<1> SUFFICES ASSUME Init PROVE ChainInv
  OBVIOUS
<1>1. /\ recorded = <<>> /\ stack = <<>> /\ pending = <<>> /\ now = 0
      /\ done.campaigns = {} /\ chain = NoKillChain
  BY DEF Init
<1>2. Ids = {} /\ Detected = {} /\ Awaited = {} /\ ~At("record")
  BY <1>1 DEF Ids, Detected, Awaited, ToSet, At
<1>3. OuterIsNewest
  BY <1>1 DEF OuterIsNewest
<1>4. IsSequence(<<>>) /\ Len(<<>>) = 0
  BY DEF IsSequence, ToSet
<1>5. InTime
  BY <1>1, <1>2, <1>4 DEF InTime
<1>6. HistoriesAreWindows
  <2>1. /\ chain \in [history : {chain.history}, alerted : {chain.alerted}]
        /\ \A s \in Sources : chain.history[s] = <<>>
        /\ chain.history \in [Sources -> {chain.history[s] : s \in Sources}]
        /\ chain.alerted \in [Sources -> {chain.alerted[s] : s \in Sources}]
    BY <1>1 DEF NoKillChain
  <2>2. \A s : Chained(s) = {}
    BY <1>2 DEF Chained
  <2>3. IsWindow(<<>>, {}, recorded)
    BY <1>4 DEF IsWindow
  <2>4. QED BY <2>1, <2>2, <2>3 DEF HistoriesAreWindows
<1>7. CampaignsFit
  <2>1. \A s \in Sources : chain.alerted[s] = {} /\ CampaignsOf(s) = {}
    BY <1>1 DEF NoKillChain, CampaignsOf
  <2>2. QED BY <1>1, <2>1, FS_EmptySet DEF CampaignsFit
<1>8. QED BY <1>3, <1>5, <1>6, <1>7 DEF ChainInv

\* The alerts of a flow have a time, whichever it carries.
LEMMA AnalyzeKeepsChain ==
  ASSUME TypeOK, ChainInv, NEW alerts \in FlowAlerts, NEW stamp \in Stamps,
         AnalyzeFlow(alerts, stamp)
  PROVE  ChainInv'
<1>1. /\ UNCHANGED <<now, stack, recorded, chain>> /\ stack = <<>>
      /\ done' = [done EXCEPT !.events = @ + 1, !.flows = @ + 1]
      /\ pending' = [i \in DOMAIN alerts |->
           [category |-> alerts[i].category, severity |-> alerts[i].severity,
            src |-> alerts[i].src, dst |-> alerts[i].dst, sure |-> alerts[i].sure,
            time |-> TimeOf(alerts[i], stamp)]]
  BY DEF AnalyzeFlow, Idle
<1>2. OuterIsNewest /\ InTime /\ HistoriesAreWindows /\ CampaignsFit
  BY DEF ChainInv
<1>3. done'.campaigns = done.campaigns
  BY <1>1, DoneCounts DEF TypeOK
<1>4. Ids' = Ids /\ Detected' = Detected /\ Unchained' = Unchained
  BY <1>1 DEF Ids, Detected, Unchained
<1>5. now \in Nat /\ stamp \in Int
  BY <1>2, FlowsAssumption DEF InTime
<1>6. alerts \in Seq(ToSet(alerts)) /\ \A i \in DOMAIN alerts : alerts[i].src \in Sources
  BY FlowsAssumption
<1>7. /\ IsSequence(pending')
      /\ \A a \in ToSet(pending') : a.time \in Int /\ a.src \in Sources
  <2> DEFINE p(i) == [category |-> alerts[i].category, severity |-> alerts[i].severity,
                      src |-> alerts[i].src, dst |-> alerts[i].dst, sure |-> alerts[i].sure,
                      time |-> TimeOf(alerts[i], stamp)]
  <2>1. PICK n \in Nat : DOMAIN alerts = 1..n
    BY <1>6
  <2>2. \A i \in 1..n : p(i).time \in Int /\ p(i).src \in Sources
    BY <1>5, <1>6, <2>1 DEF TimeOf
  <2>3. pending' = [i \in 1..n |-> p(i)]
    BY <1>1, <2>1
  <2> HIDE DEF p
  <2> DEFINE T == {p(i) : i \in 1..n}
  <2>4. \A i \in 1..n : p(i) \in T
    OBVIOUS
  <2>5. \A a \in T : a.time \in Int /\ a.src \in Sources
    BY <2>2
  <2> HIDE DEF T
  <2>6. pending' \in Seq(T)
    BY <2>3, <2>4
  <2>7. ToSet(pending') \subseteq T
    BY <2>3, <2>4 DEF ToSet
  <2>8. QED BY <2>5, <2>6, <2>7, SequenceIs
<1>8. Awaited' = ToSet(pending')
  BY <1>1 DEF Awaited
<1>9. InTime'
  BY <1>1, <1>2, <1>4, <1>7, <1>8 DEF InTime
<1>10. OuterIsNewest'
  BY <1>1 DEF OuterIsNewest
<1>11. HistoriesAreWindows'
  BY <1>1, <1>2, <1>4 DEF HistoriesAreWindows, Chained
<1>12. CampaignsFit'
  <2>1. Reached' = Reached /\ Top' = Top
    BY <1>1 DEF Reached, At, Top
  <2>2. \A k : SrcOf(k)' = SrcOf(k)
    BY <1>1, <1>4, <2>1 DEF SrcOf
  <2>3. \A k, s : Staged(k, s)' <=> Staged(k, s)
    BY <1>1, <1>4 DEF Staged, Late, Processed
  <2>4. \A s : CampaignsOf(s)' = CampaignsOf(s)
    BY <1>3, <2>2 DEF CampaignsOf
  <2>5. QED BY <1>1, <1>2, <1>3, <2>1, <2>2, <2>3, <2>4 DEF CampaignsFit
<1>13. QED BY <1>9, <1>10, <1>11, <1>12 DEF ChainInv

LEMMA NextAlertKeepsChain ==
  ASSUME TypeOK, ChainInv, NextAlert
  PROVE  ChainInv'
<1> DEFINE f == [alert |-> Head(pending), id |-> 0, pc |-> "record", campaign |-> 0]
<1>1. /\ UNCHANGED <<now, recorded, chain, done>> /\ stack = <<>> /\ pending # <<>>
      /\ stack' = <<f>> /\ pending' = Tail(pending)
  BY DEF NextAlert, Call
<1>2. stack' # <<>> /\ stack'[1].pc = "record" /\ stack'[1].alert = Head(pending)
  BY <1>1
<1> HIDE DEF f
<1>3. InTime
  BY DEF ChainInv
<1>4. pending \in Seq(ToSet(pending)) /\ IsSequence(pending') /\ now \in Nat
  BY <1>1, <1>3, TailOf DEF InTime, IsSequence
<1>5. ToSet(pending) = {Head(pending)} \union ToSet(pending')
  <2>1. PICK S : S = ToSet(pending)
    OBVIOUS
  <2>2. pending \in Seq(S)
    BY <1>4, <2>1
  <2>3. QED BY <1>1, <2>2, ToSetOfHeadTail
<1>6. Awaited' \subseteq Awaited
  BY <1>1, <1>2, <1>5 DEF Awaited
<1>7. OuterIsNewest' /\ Unchained' = Unchained /\ ~At("record")
  BY <1>1, <1>2 DEF OuterIsNewest, Unchained, At
<1>8. now' \in Nat /\ done'.campaigns = done.campaigns
  BY <1>1, <1>4
<1>9. QED BY <1>1, <1>4, <1>6, <1>7, <1>8, ChainStill

\* The alert of the flow is on its way to the kill chain; a campaign is not.
LEMMA RecordKeepsChain ==
  ASSUME TypeOK, ChainInv, Record
  PROVE  ChainInv'
<1> DEFINE n == Len(recorded)
           id == n + 1
           alert == Top.alert
           f == [Top EXCEPT !.pc = "dispatch", !.id = id]
<1>1. /\ At("record") /\ recorded' = Append(recorded, alert)
      /\ UNCHANGED <<now, pending, chain, done>>
      /\ stack' = [stack EXCEPT ![Len(stack)].pc = "dispatch", ![Len(stack)].id = id]
  BY DEF Record
<1>2. stack # <<>> /\ Top.pc = "record"
  BY <1>1 DEF At
<1>3. /\ IsFrame(Top)
      /\ Len(stack) > 1 => alert.category = "ATTACK_CAMPAIGN"
  BY <1>2, TopIs
<1>4. f.alert = alert /\ f.pc = "dispatch" /\ f.id = id
  BY <1>3 DEF IsFrame
<1>5. stack' = [stack EXCEPT ![Len(stack)] = f]
  <2>1. Calls(stack, n)
    BY DEF TypeOK
  <2>2. Len(stack) \in DOMAIN stack
    <3>1. IsSequence(stack) /\ Len(stack) \in Nat \ {0}
      BY <1>2, <2>1, LastReplaced DEF Calls
    <3>2. QED BY <3>1 DEF IsSequence
  <2>3. QED BY <1>1, <2>2 DEF Top
<1> HIDE DEF f
<1>6. /\ stack' # <<>> /\ Len(stack) \in Nat \ {0}
      /\ stack'[1] = IF Len(stack) = 1 THEN f ELSE stack[1]
      /\ Len(stack) = 1 => stack[1] = Top
      /\ Len(stack) # 1 => stack[1].pc \in {"persist", "return"}
  BY <1>2, <1>5, OuterIs
<1>7. OuterIsNewest /\ InTime /\ HistoriesAreWindows /\ CampaignsFit
  BY DEF ChainInv
<1>8. n \in Nat /\ Ids = 1..n
  BY IdsAre
<1>9. /\ Len(recorded') = n + 1 /\ recorded'[id] = alert
      /\ \A i \in 1..n : recorded'[i] = recorded[i]
      /\ Ids' = 1..n + 1
  <2>1. IsSequence(recorded)
    BY DEF TypeOK
  <2>2. /\ IsSequence(Append(recorded, alert)) /\ Len(Append(recorded, alert)) = n + 1
        /\ Append(recorded, alert)[n + 1] = alert
        /\ \A i \in 1..n : Append(recorded, alert)[i] = recorded[i]
    BY <2>1, SequenceGrows
  <2>3. DOMAIN recorded' = 1..Len(recorded')
    BY <1>1, <2>2 DEF IsSequence
  <2>4. QED BY <1>1, <2>2, <2>3 DEF Ids
<1> HIDE DEF n, alert
<1>10. id \notin 1..n /\ id \in 1..n + 1 /\ \A i \in 1..n + 1 : i \in 1..n \/ i = id
  BY <1>8
<1> HIDE DEF id
<1>11. /\ Detected \subseteq 1..n
       /\ Detected' = IF alert.category = "ATTACK_CAMPAIGN" THEN Detected
                      ELSE Detected \union {id}
  BY <1>8, <1>9, <1>10 DEF Detected
<1>12. Reached = id /\ Reached' = id
  <2>1. Top' = f
    <3>1. Calls(stack, n)
      BY DEF TypeOK, n
    <3>2. Len(stack') = Len(stack) /\ stack'[Len(stack)] = f
      BY <1>2, <1>5, <3>1, LastReplaced DEF Calls
    <3>3. QED BY <3>2 DEF Top
  <2>2. ~At("record")'
    BY <1>4, <2>1 DEF At
  <2>3. QED BY <1>1, <1>9, <2>2 DEF Reached, id, n
<1>13. Awaited' \subseteq Awaited
  BY <1>1, <1>2, <1>4, <1>6 DEF Awaited
<1>14. /\ OuterIsNewest' /\ Detected' \ Unchained' = Detected \ Unchained
       /\ id \in Detected' => alert.time \in Int /\ alert.src \in Sources
  <2>1. CASE Len(stack) = 1
    <3>1. /\ stack[1] = Top /\ stack'[1] = f /\ alert \in Awaited
          /\ Unchained = {} /\ Unchained' = {id}
      BY <1>2, <1>4, <1>6, <2>1 DEF Awaited, Unchained, alert
    <3>2. OuterIsNewest'
      <4>1. \A i \in Detected' : i <= id
        BY <1>8, <1>9, <1>11 DEF id
      <4>2. QED BY <1>4, <1>9, <1>10, <3>1, <4>1 DEF OuterIsNewest
    <3>3. Detected' \ Unchained' = Detected \ Unchained
      BY <1>10, <1>11, <3>1
    <3>4. QED BY <1>7, <3>1, <3>2, <3>3 DEF InTime
  <2>2. CASE Len(stack) # 1
    <3>1. Len(stack) > 1
      BY <1>6, <2>2
    <3>2. alert.category = "ATTACK_CAMPAIGN" /\ stack'[1] = stack[1] /\ stack[1].pc # "record"
      BY <1>3, <1>6, <2>2, <3>1
    <3>3. OuterIsNewest'
      <4>1. stack[1].id \in 1..n => stack[1].id \in Ids' /\ recorded'[stack[1].id] = recorded[stack[1].id]
        BY <1>8, <1>9
      <4>2. QED BY <1>2, <1>6, <1>7, <1>8, <1>11, <3>2, <4>1 DEF OuterIsNewest
    <3>4. Unchained' = Unchained
      BY <1>2, <1>6, <3>2 DEF Unchained
    <3>5. id \notin Detected'
      BY <1>10, <1>11, <3>2
    <3>6. QED BY <1>11, <3>2, <3>3, <3>4, <3>5
  <2>3. QED BY <2>1, <2>2
<1>15. InTime'
  <2>1. ASSUME NEW i \in Detected'
        PROVE  \/ i \in Detected /\ recorded'[i] = recorded[i]
               \/ i = id /\ i \notin Detected /\ recorded'[i] = alert
    BY <1>9, <1>10, <1>11, <2>1
  <2>2. ASSUME NEW i \in Detected'
        PROVE  recorded'[i].time \in Int /\ recorded'[i].src \in Sources
    <3>1. CASE i \in Detected /\ recorded'[i] = recorded[i]
      BY <1>7, <3>1 DEF InTime
    <3>2. CASE i = id /\ recorded'[i] = alert
      BY <1>14, <2>2, <3>2
    <3>3. QED BY <2>1, <3>1, <3>2
  <2>3. now' \in Nat /\ IsSequence(pending')
    BY <1>1, <1>7 DEF InTime
  <2>4. QED BY <1>7, <1>13, <2>2, <2>3 DEF InTime
<1>16. HistoriesAreWindows'
  <2>1. ASSUME NEW s \in Sources
        PROVE  IsWindow(chain.history[s], Chained(s)', recorded')
    <3>1. Chained(s)' = Chained(s) /\ \A k \in Chained(s) : recorded'[k] = recorded[k]
      <4>1. \A i \in Detected \ Unchained : recorded'[i] = recorded[i]
        BY <1>9, <1>11
      <4>2. QED BY <1>14, <4>1 DEF Chained
    <3>2. IsWindow(chain.history[s], Chained(s), recorded)
      BY <1>7 DEF HistoriesAreWindows
    <3> DEFINE ids == Chained(s)
    <3> HIDE DEF ids
    <3>3. \A k \in ids : Behind(k, ids, recorded') <=> Behind(k, ids, recorded)
      BY <3>1 DEF Behind, ids
    <3> DEFINE h == chain.history[s]
    <3>4. IsWindow(h, ids, recorded)
      BY <3>2 DEF ids
    <3>5. \A k \in ids : recorded'[k] = recorded[k]
      BY <3>1 DEF ids
    <3> HIDE DEF h
    <3>6. IsWindow(h, ids, recorded')
      BY <3>3, <3>4, <3>5 DEF IsWindow
    <3>7. QED BY <3>1, <3>6 DEF ids, h
  <2>2. QED BY <1>1, <1>7, <2>1 DEF HistoriesAreWindows
<1>17. CampaignsFit'
  <2>1. done.campaigns \subseteq 1..id
    BY <1>7, <1>12 DEF CampaignsFit
  <2>2. ASSUME NEW k \in done.campaigns PROVE SrcOf(k)' = SrcOf(k)
    <3>1. CASE k \in 1..n
      <4>1. k \in Ids /\ k \in Ids' /\ recorded'[k] = recorded[k]
        BY <1>8, <1>9, <1>10, <3>1 DEF id
      <4>2. QED BY <4>1 DEF SrcOf
    <3>2. CASE k = id
      <4>1. k \notin Ids /\ k \in Ids' /\ recorded'[k] = Top.alert
        BY <1>8, <1>9, <1>10, <3>2 DEF alert
      <4>2. QED BY <4>1 DEF SrcOf
    <3>3. k \in 1..n \/ k = id
      BY <1>8, <2>1 DEF id
    <3>4. QED BY <3>1, <3>2, <3>3
  <2>3. ASSUME NEW k, NEW s, Staged(k, s) PROVE Staged(k, s)'
    <3>1. \A i \in Ids : i \in Ids' /\ recorded'[i] = recorded[i]
      BY <1>8, <1>9
    <3>2. ASSUME NEW i \in Ids, Late(i) PROVE Late(i)'
      <4>1. PICK j \in Ids : /\ j < i /\ recorded[j].time > recorded[i].time
                             /\ recorded[j].category # "ATTACK_CAMPAIGN"
                             /\ recorded[j].src = recorded[i].src
        BY <3>2 DEF Late, Processed
      <4>2. j \in Ids' /\ recorded'[j] = recorded[j] /\ recorded'[i] = recorded[i]
        BY <3>1
      <4>3. \E l \in Ids' : /\ recorded'[l].category # "ATTACK_CAMPAIGN"
                             /\ recorded'[l].src = recorded'[i].src
                             /\ l < i /\ recorded'[l].time > recorded'[i].time
        BY <4>1, <4>2
      <4>4. QED BY <4>3 DEF Late, Processed
    <3>3. PICK i \in Ids, j \in Ids :
            /\ i < k /\ j < k /\ recorded[i].src = s /\ recorded[j].src = s
            /\ KillStages(recorded[i].category) # {} /\ KillStages(recorded[j].category) # {}
            /\ KillStages(recorded[i].category) # KillStages(recorded[j].category)
            /\ \/ recorded[i].time - recorded[j].time \in 0..CorrelationWindow
               \/ Late(i) \/ Late(j)
      BY <2>3 DEF Staged
    <3>4. QED BY <3>1, <3>2, <3>3 DEF Staged
  <2>4. \A s : CampaignsOf(s)' = CampaignsOf(s)
    BY <1>1, <2>2 DEF CampaignsOf
  <2>5. \A k \in done'.campaigns : SrcOf(k)' \in Sources /\ Staged(k, SrcOf(k))'
    BY <1>1, <1>7, <2>2, <2>3 DEF CampaignsFit
  <2>6. QED BY <1>1, <1>7, <1>12, <2>1, <2>4, <2>5 DEF CampaignsFit
<1>18. QED BY <1>14, <1>15, <1>16, <1>17 DEF ChainInv

LEMMA DispatchKeepsChain ==
  ASSUME TypeOK, ChainInv, NEW accepted, DispatchAlert(accepted)
  PROVE  ChainInv'
<1> DEFINE f == [Top EXCEPT !.pc = "correlate"]
<1>1. /\ At("dispatch") /\ UNCHANGED <<now, pending, recorded, chain>>
      /\ stack' = [stack EXCEPT ![Len(stack)] = f]
      /\ \E due, a : done' = [done EXCEPT !.eligible = due, !.acked = a]
  BY DEF DispatchAlert, Goto, Top
<1>2. stack # <<>> /\ Top.pc = "dispatch"
  BY <1>1 DEF At
<1>3. f.alert = Top.alert /\ f.id = Top.id /\ f.pc = "correlate"
  BY <1>2, TopIs DEF IsFrame
<1>4. done'.campaigns = done.campaigns
  BY <1>1 DEF TypeOK, IsDone
<1> HIDE DEF f
<1>5. QED BY <1>1, <1>2, <1>3, <1>4, QuietCall

LEMMA CorrelateCaseKeepsChain ==
  ASSUME TypeOK, ChainInv, CorrelateCase
  PROVE  ChainInv'
<1> DEFINE f == [Top EXCEPT !.pc = "persist"]
<1>1. /\ At("correlate") /\ UNCHANGED <<now, pending, recorded, chain>>
      /\ \/ stack' = [stack EXCEPT ![Len(stack)] = f]
         \/ \E a : stack' = Call([stack EXCEPT ![Len(stack)] = f], a)
      /\ done' = done \/ \E c : done' = [done EXCEPT !.confirmed = c]
  BY DEF CorrelateCase, Goto, Top
<1>2. stack # <<>> /\ Top.pc = "correlate"
  BY <1>1 DEF At
<1>3. f.alert = Top.alert /\ f.id = Top.id /\ f.pc = "persist"
  BY <1>2, TopIs DEF IsFrame
<1>4. done'.campaigns = done.campaigns
  BY <1>1 DEF TypeOK, IsDone
<1> HIDE DEF f
<1>5. PICK a : \/ stack' = [stack EXCEPT ![Len(stack)] = f]
               \/ stack' = Call([stack EXCEPT ![Len(stack)] = f], a)
  BY <1>1
<1>6. QED BY <1>1, <1>2, <1>3, <1>4, <1>5, QuietCall

LEMMA PersistKeepsChain ==
  ASSUME TypeOK, ChainInv, NEW ok, Persist(ok)
  PROVE  ChainInv'
<1> DEFINE f == [Top EXCEPT !.pc = "chain"]
<1>1. /\ At("persist") /\ UNCHANGED <<now, pending, recorded, chain, done>>
      /\ stack' = [stack EXCEPT ![Len(stack)] = f]
  BY DEF Persist, Goto, Top
<1>2. stack # <<>> /\ Top.pc = "persist"
  BY <1>1 DEF At
<1>3. f.alert = Top.alert /\ f.id = Top.id /\ f.pc = "chain"
  BY <1>2, TopIs DEF IsFrame
<1> HIDE DEF f
<1>4. QED BY <1>1, <1>2, <1>3, QuietCall

\* The alert that is given to the kill chain is the newest.
LEMMA ChainIsGiven ==
  ASSUME TypeOK, ChainInv, At("chain"), Top.alert.category # "ATTACK_CAMPAIGN",
         NEW src, src = Top.alert.src, UNCHANGED recorded, NEW f, f.id = Top.id, f.alert = Top.alert, f.pc = "return",
         NEW a, \/ stack' = [stack EXCEPT ![Len(stack)] = f]
                \/ stack' = Call([stack EXCEPT ![Len(stack)] = f], a)
  PROVE  /\ OuterIsNewest' /\ Len(stack) = 1
         /\ Top.id \in Detected /\ recorded[Top.id] = Top.alert
         /\ Unchained' = {} /\ Ids' = Ids /\ Detected' = Detected
         /\ Chained(src)' = Chained(src) \union {Top.id}
         /\ \A s : s # src => Chained(s)' = Chained(s)
         /\ \A k \in Detected \ Unchained : k < Top.id
         /\ stack # <<>> /\ stack[1].pc # "record" /\ stack'[1].pc # "record" /\ stack' # <<>>
<1>1. stack # <<>> /\ Top.pc = "chain"
  BY DEF At
<1>2. /\ stack' # <<>> /\ Len(stack) \in Nat \ {0}
      /\ stack'[1] = IF Len(stack) = 1 THEN f ELSE stack[1]
      /\ Len(stack) = 1 => stack[1] = Top
  <2>1. \/ stack' = [stack EXCEPT ![Len(stack)] = f]
        \/ stack' = Call([stack EXCEPT ![Len(stack)] = f], a)
    OBVIOUS
  <2>2. QED BY <1>1, <2>1, OuterIs, Zenon
<1>3. Len(stack) = 1
  <2>1. ~(Len(stack) > 1)
    BY <1>1, TopIs
  <2>2. PICK m \in Nat \ {0} : m = Len(stack)
    BY <1>2
  <2>3. QED BY <2>1, <2>2
<1>4. stack[1] = Top /\ stack'[1] = f
  BY <1>2, <1>3
<1>5. OuterIsNewest
  BY DEF ChainInv
<1>6. /\ Top.id \in Ids /\ recorded[Top.id] = Top.alert /\ \A i \in Detected : i <= Top.id
  BY <1>1, <1>4, <1>5 DEF OuterIsNewest
<1>7. Top.id \in Detected /\ Unchained = {Top.id} /\ Unchained' = {}
  BY <1>1, <1>2, <1>4, <1>6 DEF Detected, Unchained
<1>8. Ids' = Ids /\ Detected' = Detected
  BY DEF Ids, Detected
<1>9. OuterIsNewest'
  BY <1>4, <1>6, <1>8 DEF OuterIsNewest
<1>10. ASSUME NEW k \in Detected \ Unchained PROVE k < Top.id
  <2>1. k \in 1..Len(recorded) /\ Top.id \in 1..Len(recorded) /\ Len(recorded) \in Nat
    BY <1>6, IdsAre DEF Detected
  <2>2. k <= Top.id /\ k # Top.id
    BY <1>6, <1>7
  <2>3. QED BY <2>1, <2>2
<1>11. /\ Chained(src)' = Chained(src) \union {Top.id}
       /\ \A s : s # src => Chained(s)' = Chained(s)
  <2>1. \A s : Chained(s)' = {i \in Detected : recorded[i].src = s}
    BY <1>7, <1>8 DEF Chained
  <2>2. \A s : Chained(s) = {i \in Detected : recorded[i].src = s} \ {Top.id}
    BY <1>7 DEF Chained
  <2>3. \A s : s # src => Top.id \notin {i \in Detected : recorded[i].src = s}
    BY <1>6
  <2>4. Top.id \in {i \in Detected : recorded[i].src = src}
    BY <1>6, <1>7
  <2>5. QED BY <2>1, <2>2, <2>3, <2>4
<1>12. QED BY <1>1, <1>2, <1>3, <1>4, <1>6, <1>7, <1>8, <1>9, <1>10, <1>11

\* Two stages in a window are those of a campaign.
LEMMA StagesAreStaged ==
  ASSUME TypeOK, NEW ids \in SUBSET Ids, NEW h, IsWindow(h, ids, recorded), NEW src,
         \A i \in ids : /\ recorded[i].src = src /\ recorded[i].time \in Int
                        /\ recorded[i].category # "ATTACK_CAMPAIGN",
         Cardinality(StagesIn(h)) >= 2, NEW k, \A i \in Ids : i < k
  PROVE  Staged(k, src)
<1>1. PICK b \in ToSet(h), c \in ToSet(h) :
        /\ KillStages(b.category) # {} /\ KillStages(c.category) # {}
        /\ KillStages(b.category) # KillStages(c.category)
  BY StagesDiffer
<1>2. DOMAIN h = 1..Len(h)
  BY DEF IsWindow, IsSequence
<1>3. PICK x \in 1..Len(h), y \in 1..Len(h) : h[x] = b /\ h[y] = c
  BY <1>2 DEF ToSet
<1>4. PICK i \in ids : recorded[i] = b /\ (Behind(i, ids, recorded) \/ InWindow(h, x))
  BY <1>3 DEF IsWindow
<1>5. PICK j \in ids : recorded[j] = c /\ (Behind(j, ids, recorded) \/ InWindow(h, y))
  BY <1>3 DEF IsWindow
<1>6. PICK w \in Nat : w = CorrelationWindow
  BY WindowAssumption
<1>7. PICK u \in Int, v \in Int : u = b.time /\ v = c.time
  BY <1>4, <1>5
<1>8. ASSUME NEW m \in ids, Behind(m, ids, recorded) PROVE Late(m)
  <2>1. PICK l \in ids : l < m /\ recorded[l].time > recorded[m].time
    BY <1>8 DEF Behind
  <2>2. l \in Processed(recorded[m].src)
    BY <2>1 DEF Processed
  <2>3. QED BY <2>1, <2>2 DEF Late
<1>9. \/ u - v \in 0..w \/ v - u \in 0..w \/ Late(i) \/ Late(j)
  <2> SUFFICES ASSUME ~Late(i), ~Late(j) PROVE u - v \in 0..w \/ v - u \in 0..w
    OBVIOUS
  <2>1. InWindow(h, x) /\ InWindow(h, y)
    BY <1>4, <1>5, <1>8
  <2>2. v <= u + w /\ u <= v + w
    BY <1>3, <1>6, <1>7, <2>1 DEF InWindow
  <2>3. QED BY <2>2
<1>10. /\ i \in Ids /\ j \in Ids /\ i < k /\ j < k
       /\ recorded[i].src = src /\ recorded[j].src = src
       /\ KillStages(recorded[i].category) # {} /\ KillStages(recorded[j].category) # {}
       /\ KillStages(recorded[i].category) # KillStages(recorded[j].category)
  BY <1>1, <1>4, <1>5
<1>11. CASE u - v \in 0..w \/ Late(i) \/ Late(j)
  <2>1. recorded[i].time - recorded[j].time \in 0..CorrelationWindow \/ Late(i) \/ Late(j)
    BY <1>4, <1>5, <1>6, <1>7, <1>11
  <2>2. QED BY <1>10, <2>1 DEF Staged
<1>12. CASE v - u \in 0..w
  <2>1. recorded[j].time - recorded[i].time \in 0..CorrelationWindow
    BY <1>4, <1>5, <1>6, <1>7, <1>12
  <2>2. QED BY <1>10, <2>1 DEF Staged
<1>13. QED BY <1>9, <1>11, <1>12

\* What process_alert does with an alert of a detector (correlator.py lines
\* 57-103): g is the window of its source, and it raises a campaign or not.
Corrected(k, k2, src, g, raise) ==
  /\ k2 \in [history : {k2.history}, alerted : {k2.alerted}]
  /\ k2.history \in [Sources -> {k2.history[s] : s \in Sources}]
  /\ k2.alerted \in [Sources -> {k2.alerted[s] : s \in Sources}]
  /\ k2.history[src] = g
  /\ k2.alerted[src] = IF raise THEN k.alerted[src] \union {StagesIn(g)} ELSE k.alerted[src]
  /\ \A s \in Sources : s # src => /\ k2.history[s] = k.history[s]
                                   /\ k2.alerted[s] = k.alerted[s]

LEMMA CorrelateIs ==
  ASSUME HistoriesAreWindows, NEW alert, alert.category # "ATTACK_CAMPAIGN",
         alert.src \in Sources, NEW t,
         NEW g, g = Prune(Append(chain.history[alert.src], alert),
                          alert.time - CorrelationWindow),
         NEW raise, raise = (Cardinality(StagesIn(g)) >= 2
                               /\ StagesIn(g) \notin chain.alerted[alert.src])
  PROVE  /\ Corrected(chain, Correlate(chain, alert, t).chain, alert.src, g, raise)
         /\ raise => /\ Correlate(chain, alert, t).campaign # <<>>
                     /\ Correlate(chain, alert, t).campaign[1].src = alert.src
         /\ ~raise => Correlate(chain, alert, t).campaign = <<>>
<1> DEFINE src == alert.src
           stages == StagesIn(g)
           added == IF raise THEN chain.alerted[src] \union {stages} ELSE chain.alerted[src]
           k2 == [chain EXCEPT !.history[src] = g, !.alerted[src] = added]
           c == [category |-> "ATTACK_CAMPAIGN", severity |-> "CRITICAL",
                 src |-> src, dst |-> TargetOf(g, alert), sure |-> TRUE, time |-> t]
<1>1. /\ Correlate(chain, alert, t).chain = k2
      /\ Correlate(chain, alert, t).campaign = IF raise THEN <<c>> ELSE <<>>
  BY DEF Correlate
<1>2. <<c>> # <<>> /\ <<c>>[1].src = src
  OBVIOUS
<1> HIDE DEF c, added
<1>3. /\ chain \in [history : {chain.history}, alerted : {chain.alerted}]
      /\ chain.history \in [Sources -> {chain.history[s] : s \in Sources}]
      /\ chain.alerted \in [Sources -> {chain.alerted[s] : s \in Sources}]
  BY DEF HistoriesAreWindows
<1>4. k2 = [history |-> [chain.history EXCEPT ![src] = g],
            alerted |-> [chain.alerted EXCEPT ![src] = added]]
  <2>1. PICK h, a : chain = [history |-> h, alerted |-> a]
    BY <1>3
  <2>2. chain.history = h /\ chain.alerted = a
    BY <2>1
  <2> DEFINE h2 == [h EXCEPT ![src] = g]
             a2 == [a EXCEPT ![src] = added]
  <2>3. k2 = [chain EXCEPT !.history = h2, !.alerted = a2]
    BY <2>2, Zenon
  <2> HIDE DEF h2, a2, k2
  <2>4. k2 = [history |-> h2, alerted |-> a2]
    BY <2>1, <2>3
  <2>5. QED BY <2>2, <2>4 DEF h2, a2
<1>5. /\ k2.history = [chain.history EXCEPT ![src] = g]
      /\ k2.alerted = [chain.alerted EXCEPT ![src] = added]
      /\ k2 \in [history : {k2.history}, alerted : {k2.alerted}]
  BY <1>4
<1> HIDE DEF k2
<1>6. /\ DOMAIN k2.history = Sources /\ k2.history = [s \in Sources |-> k2.history[s]]
      /\ DOMAIN k2.alerted = Sources /\ k2.alerted = [s \in Sources |-> k2.alerted[s]]
  BY <1>3, <1>5
<1>7. /\ k2.history \in [Sources -> {k2.history[s] : s \in Sources}]
      /\ k2.alerted \in [Sources -> {k2.alerted[s] : s \in Sources}]
  BY <1>6, Zenon
<1>8. /\ k2.history[src] = g /\ k2.alerted[src] = added
      /\ \A s \in Sources : s # src => /\ k2.history[s] = chain.history[s]
                                       /\ k2.alerted[s] = chain.alerted[s]
  BY <1>3, <1>5
<1>9. Corrected(chain, k2, src, g, raise)
  BY <1>5, <1>7, <1>8 DEF Corrected, added
<1>10. QED BY <1>1, <1>2, <1>9

LEMMA CorrelateChainKeepsChain ==
  ASSUME TypeOK, ChainInv, CorrelateChain
  PROVE  ChainInv'
<1>0. PICK n : n = Len(recorded)
  OBVIOUS
<1> DEFINE alert == Top.alert
           r == Correlate(chain, alert, now)
           u == [Top EXCEPT !.pc = "return"]
           v == [Top EXCEPT !.pc = "return", !.campaign = n + 1]
<1>1. /\ At("chain") /\ chain' = r.chain /\ UNCHANGED <<now, pending, recorded>>
      /\ r.campaign = <<>> => stack' = [stack EXCEPT ![Len(stack)] = u] /\ done' = done
      /\ r.campaign # <<>> =>
           /\ stack' = Call([Goto("return") EXCEPT ![Len(stack)].campaign = n + 1],
                            r.campaign[1])
           /\ done' = [done EXCEPT !.campaigns = @ \union {n + 1}]
  BY <1>0 DEF CorrelateChain, Goto, Top
<1>2. stack # <<>> /\ Top.pc = "chain"
  BY <1>1 DEF At
<1>3. IsFrame(Top)
  BY <1>2, TopIs
<1>4. /\ u.alert = alert /\ u.id = Top.id /\ u.pc = "return"
      /\ v.alert = alert /\ v.id = Top.id /\ v.pc = "return"
  BY <1>3 DEF IsFrame
<1>5. [Goto("return") EXCEPT ![Len(stack)].campaign = n + 1] = [stack EXCEPT ![Len(stack)] = v]
  <2>1. Calls(stack, n)
    BY <1>0 DEF TypeOK
  <2>2. Len(stack) \in DOMAIN stack
    <3>1. IsSequence(stack) /\ Len(stack) \in Nat \ {0}
      BY <1>2, <2>1, LastReplaced DEF Calls
    <3>2. QED BY <3>1 DEF IsSequence
  <2>3. QED BY <1>3, <2>2 DEF Goto, Top, IsFrame
<1> HIDE DEF u, v
<1>6. CASE alert.category = "ATTACK_CAMPAIGN"
  <2>1. r.chain = chain /\ r.campaign = <<>>
    BY <1>6 DEF Correlate
  <2> HIDE DEF r
  <2>2. done' = done /\ chain' = chain /\ stack' = [stack EXCEPT ![Len(stack)] = u]
    BY <1>1, <2>1
  <2>3. QED BY <1>1, <1>2, <1>4, <1>6, <2>2, QuietCall
<1>7. CASE alert.category # "ATTACK_CAMPAIGN"
  <2>0. PICK src : src = alert.src
    OBVIOUS
  <2> DEFINE o == Top.id
             g == Prune(Append(chain.history[src], alert), alert.time - CorrelationWindow)
             stages == StagesIn(g)
             raise == Cardinality(stages) >= 2 /\ stages \notin chain.alerted[src]
  <2>1. OuterIsNewest /\ InTime /\ HistoriesAreWindows /\ CampaignsFit
    BY DEF ChainInv
  <2>2. /\ OuterIsNewest' /\ o \in Detected /\ recorded[o] = alert
        /\ Unchained' = {} /\ Ids' = Ids /\ Detected' = Detected
        /\ Chained(src)' = Chained(src) \union {o}
        /\ \A s : s # src => Chained(s)' = Chained(s)
        /\ \A k \in Detected \ Unchained : k < o
        /\ stack[1].pc # "record" /\ stack'[1].pc # "record" /\ stack' # <<>>
    <3>1. CASE r.campaign = <<>>
      <4>1. stack' = [stack EXCEPT ![Len(stack)] = u]
        BY <1>1, <3>1
      <4>2. /\ u.alert = Top.alert /\ Top.alert.category # "ATTACK_CAMPAIGN" /\ src = Top.alert.src
            /\ At("chain") /\ UNCHANGED recorded
        BY <1>1, <1>4, <1>7, <2>0
      <4> HIDE DEF r, alert
      <4>3. QED BY <1>4, <4>1, <4>2, ChainIsGiven DEF alert
    <3>2. CASE r.campaign # <<>>
      <4>1. PICK a : stack' = Call([stack EXCEPT ![Len(stack)] = v], a)
        BY <1>1, <1>5, <3>2
      <4>2. /\ v.alert = Top.alert /\ Top.alert.category # "ATTACK_CAMPAIGN" /\ src = Top.alert.src
            /\ At("chain") /\ UNCHANGED recorded
        BY <1>1, <1>4, <1>7, <2>0
      <4> HIDE DEF r, alert
      <4>3. QED BY <1>4, <4>1, <4>2, ChainIsGiven DEF alert
    <3>3. QED BY <3>1, <3>2
  <2>3. /\ src \in Sources /\ alert.time \in Int
        /\ \A k \in Detected : recorded[k].time \in Int
    BY <2>0, <2>1, <2>2 DEF InTime
  <2>4. /\ Corrected(chain, chain', src, g, raise)
        /\ raise => r.campaign # <<>> /\ r.campaign[1].src = src
        /\ ~raise => r.campaign = <<>>
    <3> HIDE DEF g
    <3>1. PICK h : h = g
      OBVIOUS
    <3>2. PICK b : b = raise
      OBVIOUS
    <3>3. h = Prune(Append(chain.history[alert.src], alert), alert.time - CorrelationWindow)
      BY <2>0, <3>1 DEF g
    <3>4. b = (Cardinality(StagesIn(h)) >= 2 /\ StagesIn(h) \notin chain.alerted[alert.src])
      BY <2>0, <3>1, <3>2
    <3>5. /\ Corrected(chain, r.chain, alert.src, h, b)
          /\ b => r.campaign # <<>> /\ r.campaign[1].src = alert.src
          /\ ~b => r.campaign = <<>>
      <4> HIDE DEF alert, raise
      <4>1. alert.category # "ATTACK_CAMPAIGN" /\ alert.src \in Sources
        BY <1>7, <2>0, <2>3
      <4>2. QED BY <2>1, <3>3, <3>4, <4>1, CorrelateIs, Zenon
    <3>6. QED BY <1>1, <2>0, <3>1, <3>2, <3>5
  <2> HIDE DEF alert, r
  <2>5. Ids = 1..n /\ n \in Nat /\ o \in Ids /\ Detected \subseteq Ids
    BY <1>0, <2>2, IdsAre DEF Detected
  <2>6. IsWindow(g, Chained(src)', recorded)
    <3>1. /\ Chained(src) \in SUBSET Nat /\ o \in Nat
          /\ IsWindow(chain.history[src], Chained(src), recorded)
      <4>1. Chained(src) \subseteq 1..n /\ o \in 1..n
        BY <2>5 DEF Chained
      <4>2. \A k \in 1..n : k \in Nat
        BY <2>5
      <4>3. IsWindow(chain.history[src], Chained(src), recorded)
        BY <2>1, <2>3 DEF HistoriesAreWindows
      <4>4. QED BY <4>1, <4>2, <4>3
    <3>2. \A k \in Chained(src) : k < o /\ recorded[k].time \in Int
      BY <2>2, <2>3 DEF Chained
    <3>3. recorded[o].time \in Int
      BY <2>2, <2>3
    <3> DEFINE ids == Chained(src)
               h == chain.history[src]
    <3>4. /\ ids \in SUBSET Nat /\ o \in Nat /\ IsWindow(h, ids, recorded)
          /\ \A k \in ids : k < o /\ recorded[k].time \in Int
      BY <3>1, <3>2
    <3> HIDE DEF ids, h, o
    <3>5. IsWindow(Prune(Append(h, recorded[o]), recorded[o].time - CorrelationWindow),
                   ids \union {o}, recorded)
      BY <3>3, <3>4, WindowMoves
    <3>6. QED BY <2>2, <3>5 DEF ids, h
  <2> HIDE DEF g
  <2>7. InTime'
    <3>1. Awaited' = Awaited
      BY <1>1, <1>2, <2>2 DEF Awaited
    <3>2. QED BY <1>1, <2>1, <2>2, <3>1 DEF InTime
  <2>8. HistoriesAreWindows'
    <3>1. ASSUME NEW s \in Sources
          PROVE  IsWindow(chain'.history[s], Chained(s)', recorded')
      <4>1. CASE s = src
        BY <1>1, <2>4, <2>6, <4>1 DEF Corrected
      <4>2. CASE s # src
        <5>1. IsWindow(chain.history[s], Chained(s), recorded)
          BY <2>1 DEF HistoriesAreWindows
        <5>2. chain'.history[s] = chain.history[s] /\ Chained(s)' = Chained(s)
          BY <2>2, <2>4, <4>2 DEF Corrected
        <5>3. QED BY <1>1, <5>1, <5>2
      <4>3. QED BY <4>1, <4>2
    <3>2. QED BY <2>4, <3>1 DEF HistoriesAreWindows, Corrected
  <2>9. /\ Reached = n /\ done.campaigns \subseteq 1..n /\ n + 1 \notin 1..n
        /\ \A i \in 1..n : i < n + 1
    BY <1>0, <1>2, <2>1, <2>5 DEF Reached, At, CampaignsFit
  <2>10. \A k \in done.campaigns : SrcOf(k)' = SrcOf(k) /\ (Staged(k, SrcOf(k)) => Staged(k, SrcOf(k))')
    <3>1. \A k \in done.campaigns : SrcOf(k)' = SrcOf(k)
      BY <1>1, <2>2, <2>5, <2>9 DEF SrcOf
    <3>2. \A k, s : Staged(k, s)' <=> Staged(k, s)
      BY <1>1, <2>2 DEF Staged, Late, Processed
    <3>3. QED BY <3>1, <3>2
  <2>11. CampaignsFit'
    <3>1. CASE ~raise
      <4>1. done' = done /\ stack' = [stack EXCEPT ![Len(stack)] = u]
        BY <1>1, <2>4, <3>1
      <4>2. \A s : CampaignsOf(s)' = CampaignsOf(s)
        BY <2>10, <4>1 DEF CampaignsOf
      <4>3. \A s \in Sources : chain'.alerted[s] = chain.alerted[s]
        BY <2>4, <3>1 DEF Corrected
      <4>4. done'.campaigns \subseteq 1..Reached'
        BY <1>0, <1>1, <2>5, <2>9, <4>1 DEF Reached
      <4>5. \A k \in done'.campaigns : SrcOf(k)' \in Sources /\ Staged(k, SrcOf(k))'
        BY <2>1, <2>10, <4>1 DEF CampaignsFit
      <4>6. QED BY <2>1, <4>2, <4>3, <4>4, <4>5 DEF CampaignsFit
    <3>2. CASE raise
      <4>1. /\ stack' = Call([stack EXCEPT ![Len(stack)] = v], r.campaign[1])
            /\ done' = [done EXCEPT !.campaigns = @ \union {n + 1}]
            /\ r.campaign[1].src = src
        BY <1>1, <1>5, <2>4, <3>2
      <4>2. done'.campaigns = done.campaigns \union {n + 1}
        BY <4>1 DEF TypeOK, IsDone
      <4>3. Top'.alert = r.campaign[1] /\ Top'.pc = "record"
        <5> DEFINE t == [stack EXCEPT ![Len(stack)] = v]
                   new == [alert |-> r.campaign[1], id |-> 0, pc |-> "record", campaign |-> 0]
        <5>1. Calls(stack, n)
          BY <1>0 DEF TypeOK
        <5>2. IsSequence(t)
          BY <1>2, <5>1, LastReplaced DEF Calls
        <5>3. stack' = Append(t, new)
          BY <4>1 DEF Call
        <5> HIDE DEF t
        <5>4. Len(stack') = Len(t) + 1 /\ stack'[Len(t) + 1] = new
          BY <5>2, <5>3, SequenceGrows
        <5>5. Top' = new
          BY <5>4 DEF Top
        <5>6. QED BY <5>5
      <4>4. Reached' = n + 1
        BY <1>0, <1>1, <2>2, <4>3 DEF Reached, At
      <4>5. SrcOf(n + 1)' = src
        BY <2>2, <2>5, <2>9, <4>1, <4>3 DEF SrcOf
      <4>6. Staged(n + 1, src)'
        <5>1. Chained(src)' \in SUBSET Ids
          BY <2>2, <2>5 DEF Chained
        <5>2. \A i \in Chained(src)' : /\ recorded[i].src = src /\ recorded[i].time \in Int
                                       /\ recorded[i].category # "ATTACK_CAMPAIGN"
          BY <1>1, <2>1, <2>2 DEF Chained, InTime, Detected
        <5> DEFINE ids == Chained(src)'
        <5> HIDE DEF ids
        <5>3. Staged(n + 1, src)
          <6>1. /\ ids \in SUBSET Ids /\ IsWindow(g, ids, recorded)
                /\ \A i \in ids : /\ recorded[i].src = src /\ recorded[i].time \in Int
                                  /\ recorded[i].category # "ATTACK_CAMPAIGN"
                /\ Cardinality(StagesIn(g)) >= 2 /\ \A i \in Ids : i < n + 1
            BY <2>5, <2>6, <2>9, <3>2, <5>1, <5>2 DEF ids
          <6> HIDE DEF stages
          <6>2. QED BY <6>1, StagesAreStaged
        <5>4. QED BY <1>1, <2>2, <5>3 DEF Staged, Late, Processed
      <4>7. \A k \in done'.campaigns : SrcOf(k)' \in Sources /\ Staged(k, SrcOf(k))'
        <5>1. ASSUME NEW k \in done.campaigns
              PROVE  SrcOf(k)' \in Sources /\ Staged(k, SrcOf(k))'
          BY <2>1, <2>10 DEF CampaignsFit
        <5>2. Staged(n + 1, SrcOf(n + 1))' /\ SrcOf(n + 1)' \in Sources
          BY <2>3, <4>5, <4>6
        <5>3. QED BY <4>2, <5>1, <5>2
      <4>8. ASSUME NEW s \in Sources
            PROVE  /\ IsFiniteSet(chain'.alerted[s])
                   /\ Cardinality(chain'.alerted[s]) = Cardinality(CampaignsOf(s)')
        <5>1. /\ IsFiniteSet(chain.alerted[s])
              /\ Cardinality(chain.alerted[s]) = Cardinality(CampaignsOf(s))
          BY <2>1 DEF CampaignsFit
        <5>2. IsFiniteSet(CampaignsOf(s)) /\ n + 1 \notin CampaignsOf(s)
          <6>1. CampaignsOf(s) \subseteq 1..n
            BY <2>9 DEF CampaignsOf
          <6>2. 1 \in Int /\ n \in Int
            BY <2>5
          <6>3. IsFiniteSet(1..n)
            BY <6>2, FS_Interval
          <6>4. QED BY <2>9, <6>1, <6>3, FS_Subset
        <5>3. CASE s = src
          <6>1. chain'.alerted[s] = chain.alerted[s] \union {stages} /\ stages \notin chain.alerted[s]
            BY <2>4, <3>2, <5>3 DEF Corrected
          <6>2. CampaignsOf(s)' = CampaignsOf(s) \union {n + 1}
            BY <2>10, <4>2, <4>5, <5>3 DEF CampaignsOf
          <6> DEFINE A == chain.alerted[s]
                     C == CampaignsOf(s)
          <6> HIDE DEF A, C, stages
          <6>3. IsFiniteSet(A \union {stages}) /\ Cardinality(A \union {stages}) = Cardinality(A) + 1
            BY <5>1, <6>1, FS_AddElement DEF A
          <6>4. Cardinality(C \union {n + 1}) = Cardinality(C) + 1
            BY <5>2, FS_AddElement DEF C
          <6>5. QED BY <5>1, <6>1, <6>2, <6>3, <6>4 DEF A, C
        <5>4. CASE s # src
          <6>1. chain'.alerted[s] = chain.alerted[s]
            BY <2>4, <5>4 DEF Corrected
          <6>2. CampaignsOf(s)' = CampaignsOf(s)
            BY <2>10, <4>2, <4>5, <5>4 DEF CampaignsOf
          <6>3. QED BY <5>1, <6>1, <6>2
        <5>5. QED BY <5>3, <5>4
      <4>9. done'.campaigns \subseteq 1..Reached'
        BY <2>5, <2>9, <4>2, <4>4
      <4>10. QED BY <4>7, <4>8, <4>9 DEF CampaignsFit
    <3>3. QED BY <3>1, <3>2
  <2>12. QED BY <2>2, <2>7, <2>8, <2>11 DEF ChainInv
<1>8. QED BY <1>6, <1>7

LEMMA ReturnKeepsChain ==
  ASSUME TypeOK, ChainInv, Return
  PROVE  ChainInv'
<1>1. /\ At("return") /\ stack' = Front(stack) /\ UNCHANGED <<now, pending, recorded, chain, done>>
  BY DEF Return
<1>2. stack # <<>> /\ Top.pc = "return" /\ ~At("record")
  BY <1>1 DEF At
<1>3. OuterIsNewest /\ InTime
  BY DEF ChainInv
<1>4. Ids' = Ids /\ Detected' = Detected
  BY <1>1 DEF Ids, Detected
<1>5. \/ stack' = <<>> /\ stack[1].pc = "return"
      \/ stack' # <<>> /\ stack'[1] = stack[1]
  <2>1. IsSequence(stack)
    BY DEF TypeOK, Calls
  <2>2. /\ IsSequence(stack') /\ Len(stack) \in Nat \ {0} /\ Len(stack') = Len(stack) - 1
        /\ \A i \in 1..Len(stack) - 1 : stack'[i] = stack[i]
    BY <1>1, <1>2, <2>1, FrontOf
  <2>3. PICK m \in Nat \ {0} : m = Len(stack)
    BY <2>2
  <2>4. CASE m = 1
    <3>1. stack[1].pc = "return"
      BY <1>2, <2>3, <2>4 DEF Top
    <3>2. stack' \in Seq(ToSet(stack')) /\ Len(stack') = 0
      BY <2>2, <2>3, <2>4 DEF IsSequence
    <3>3. stack' = <<>>
      BY <3>2, EmptySeq
    <3>4. QED BY <3>1, <3>3
  <2>5. CASE m # 1
    <3>1. 1 \in 1..m - 1 /\ m - 1 # 0
      BY <2>5
    <3>2. stack'[1] = stack[1] /\ Len(stack') # 0
      BY <2>2, <2>3, <3>1
    <3>3. QED BY <3>2
  <2>6. QED BY <2>4, <2>5
<1>6. OuterIsNewest' /\ Awaited' = Awaited /\ Unchained' = Unchained
  BY <1>1, <1>2, <1>3, <1>4, <1>5 DEF OuterIsNewest, Awaited, Unchained
<1>7. IsSequence(pending') /\ now' \in Nat /\ done'.campaigns = done.campaigns
  BY <1>1, <1>3 DEF InTime
<1>8. QED BY <1>1, <1>2, <1>6, <1>7, ChainStill

LEMMA TickKeepsChain ==
  ASSUME TypeOK, ChainInv, Tick
  PROVE  ChainInv'
<1>1. /\ Idle \/ At("correlate") \/ At("chain")
      /\ now' = now + 1 /\ UNCHANGED <<pending, stack, recorded, chain>>
      /\ done' = [done EXCEPT !.events = @ + 1, !.steady = @ /\ Idle]
  BY DEF Tick
<1>2. ~At("record")
  BY <1>1 DEF Idle, At
<1>3. OuterIsNewest /\ InTime
  BY DEF ChainInv
<1>4. /\ OuterIsNewest' /\ Awaited' = Awaited /\ Unchained' = Unchained
  BY <1>1, <1>3 DEF OuterIsNewest, Awaited, Unchained, Ids, Detected
<1>5. IsSequence(pending') /\ now' \in Nat
  <2>1. now \in Nat /\ IsSequence(pending)
    BY <1>3 DEF InTime
  <2>2. QED BY <1>1, <2>1
<1>6. done'.campaigns = done.campaigns
  BY <1>1 DEF TypeOK, IsDone
<1>7. QED BY <1>1, <1>2, <1>4, <1>5, <1>6, ChainStill

\* A route, or nothing at all, leaves what the kill chain sees alone.
LEMMA RouteKeepsChain ==
  ASSUME TypeOK, ChainInv, UNCHANGED <<now, pending, stack, recorded, chain>>,
         done'.campaigns = done.campaigns
  PROVE  ChainInv'
<1>1. OuterIsNewest /\ InTime /\ HistoriesAreWindows /\ CampaignsFit
  BY DEF ChainInv
<1>2. /\ Ids' = Ids /\ Detected' = Detected /\ Unchained' = Unchained /\ Awaited' = Awaited
      /\ Reached' = Reached /\ Top' = Top
  BY DEF Ids, Detected, Unchained, Awaited, Reached, Top, At
<1>3. OuterIsNewest'
  BY <1>1, <1>2 DEF OuterIsNewest
<1>4. InTime'
  BY <1>1, <1>2 DEF InTime
<1>5. HistoriesAreWindows'
  BY <1>1, <1>2 DEF HistoriesAreWindows, Chained
<1>6. CampaignsFit'
  <2>1. \A k, s : SrcOf(k)' = SrcOf(k) /\ (Staged(k, s)' <=> Staged(k, s))
    BY <1>2 DEF SrcOf, Staged, Late, Processed
  <2>2. \A s : CampaignsOf(s)' = CampaignsOf(s)
    BY <2>1 DEF CampaignsOf
  <2>3. QED BY <1>1, <1>2, <2>1, <2>2 DEF CampaignsFit
<1>7. QED BY <1>3, <1>4, <1>5, <1>6 DEF ChainInv

LEMMA RoutesKeepChain ==
  ASSUME TypeOK, ChainInv,
         \/ \E h \in HookIds, s \in HookSettings : RegisterWebhook(h, s)
         \/ \E h \in HookIds : DeleteWebhook(h)
         \/ \E which, ok, broken : RetryDlq(which, ok, broken)
         \/ \E c \in DOMAIN dash.cases : UpdateCase(c)
         \/ UNCHANGED vars
  PROVE  ChainInv'
<1>1. /\ UNCHANGED <<now, pending, stack, recorded, chain>>
      /\ \/ done' = done
         \/ \E e, i : done' = [done EXCEPT !.events = e, !.ids = i]
         \/ \E e : done' = [done EXCEPT !.events = e]
         \/ \E e, a : done' = [done EXCEPT !.events = e, !.acked = a]
         \/ \E e, b : done' = [done EXCEPT !.events = e, !.steady = b]
  <2>1. CASE \E h \in HookIds, s \in HookSettings : RegisterWebhook(h, s)
    BY <2>1 DEF RegisterWebhook, Others
  <2>2. CASE \E h \in HookIds : DeleteWebhook(h)
    BY <2>2 DEF DeleteWebhook, Others
  <2>3. CASE \E which, ok, broken : RetryDlq(which, ok, broken)
    BY <2>3 DEF RetryDlq, Others
  <2>4. CASE \E c \in DOMAIN dash.cases : UpdateCase(c)
    BY <2>4 DEF UpdateCase, Others
  <2>5. CASE UNCHANGED vars
    BY <2>5 DEF vars
  <2>6. QED BY <2>1, <2>2, <2>3, <2>4, <2>5
<1>2. done'.campaigns = done.campaigns
  BY <1>1 DEF TypeOK, IsDone
<1>3. QED BY <1>1, <1>2, RouteKeepsChain

LEMMA ChainStep == TypeOK /\ ChainInv /\ [Next]_vars => ChainInv'
<1> SUFFICES ASSUME TypeOK, ChainInv, [Next]_vars PROVE ChainInv'
  OBVIOUS
<1>1. ASSUME NEW alerts \in FlowAlerts, NEW stamp \in Stamps, AnalyzeFlow(alerts, stamp)
      PROVE  ChainInv'
  BY <1>1, AnalyzeKeepsChain
<1>2. CASE NextAlert
  BY <1>2, NextAlertKeepsChain
<1>3. CASE Record
  BY <1>3, RecordKeepsChain
<1>4. CASE CorrelateCase
  BY <1>4, CorrelateCaseKeepsChain
<1>5. CASE CorrelateChain
  BY <1>5, CorrelateChainKeepsChain
<1>6. CASE Return
  BY <1>6, ReturnKeepsChain
<1>7. ASSUME NEW accepted \in SUBSET HookIds, DispatchAlert(accepted)
      PROVE  ChainInv'
  BY <1>7, DispatchKeepsChain
<1>8. ASSUME NEW ok \in BOOLEAN, Persist(ok)
      PROVE  ChainInv'
  BY <1>8, PersistKeepsChain
<1>9. CASE Tick
  BY <1>9, TickKeepsChain
<1>10. CASE \/ \E h \in HookIds, s \in HookSettings : RegisterWebhook(h, s)
            \/ \E h \in HookIds : DeleteWebhook(h)
            \/ \E which, ok, broken : RetryDlq(which, ok, broken)
            \/ \E c \in DOMAIN dash.cases : UpdateCase(c)
            \/ UNCHANGED vars
  BY <1>10, RoutesKeepChain
<1>11. QED BY <1>1, <1>2, <1>3, <1>4, <1>5, <1>6, <1>7, <1>8, <1>9, <1>10 DEF Next

\* The invariant of the kill chain: its histories are the windows of what they
\* were given, the alerts of a flow in progress excepted, and each campaign
\* was recorded or is about to be (correlator.py lines 57-103).
THEOREM ChainInvariant == Spec => []ChainInv
<1>1. PipelineInv => TypeOK
  BY DEF PipelineInv
<1>2. Init => ChainInv
  BY InitChain
<1>3. TypeOK /\ ChainInv /\ [Next]_vars => ChainInv'
  BY ChainStep
<1>4. QED BY <1>1, <1>2, <1>3, PipelineInvariant, PTL DEF Spec

\* A history of the kill chain holds no alert that another one in it leaves
\* behind by more than the window, those excepted that came late; it misses
\* none that every later alert still has in its window; each campaign rests on
\* two stages that its source went through within the window, one of the two
\* late excepted; and a source has as many campaigns as it has raised sets of
\* stages: for every window, number of sources and flows, and whatever times
\* the flows carry (correlator.py lines 57-82).
THEOREM CampaignsAlwaysEarned == Spec => []CampaignsAreEarned
<1>1. TypeOK /\ ChainInv => ChainHistoryIsWindow
  <2> SUFFICES ASSUME TypeOK, ChainInv, NEW s \in Sources
               PROVE  LET h == chain.history[s]
                          p == Processed(s)
                      IN  /\ \A x \in DOMAIN h : \E i \in p :
                               /\ h[x] = recorded[i]
                               /\ \/ Late(i)
                                  \/ \A y \in DOMAIN h :
                                       h[y].time <= h[x].time + CorrelationWindow
                          /\ Idle => \A i \in p :
                               (\A j \in p : i < j => recorded[i].time
                                                        >= recorded[j].time - CorrelationWindow)
                                 => recorded[i] \in ToSet(h)
    BY DEF ChainHistoryIsWindow
  <2>1. OuterIsNewest /\ InTime /\ HistoriesAreWindows
    BY DEF ChainInv
  <2> DEFINE h == chain.history[s]
             ids == Chained(s)
  <2>2. IsWindow(h, ids, recorded) /\ ids \subseteq Processed(s)
    BY <2>1 DEF HistoriesAreWindows, Chained, Processed, Detected
  <2>3. Idle => Processed(s) = ids
    BY DEF Idle, Processed, Chained, Detected, Unchained
  <2>4. ASSUME NEW k \in ids, Behind(k, ids, recorded) PROVE Late(k)
    <3>1. recorded[k].src = s
      BY <2>2 DEF Processed
    <3>2. QED BY <2>2, <2>4, <3>1 DEF Behind, Late
  <2> HIDE DEF h, ids
  <2>5. DOMAIN h = 1..Len(h) /\ Len(h) \in Nat
    BY <2>2 DEF IsWindow, IsSequence
  <2>6. ASSUME NEW x \in DOMAIN h
        PROVE  \E i \in Processed(s) :
                 /\ h[x] = recorded[i]
                 /\ \/ Late(i)
                    \/ \A y \in DOMAIN h : h[y].time <= h[x].time + CorrelationWindow
    <3>1. PICK i \in ids : h[x] = recorded[i] /\ (Behind(i, ids, recorded) \/ InWindow(h, x))
      BY <2>2, <2>5, <2>6 DEF IsWindow
    <3>2. i \in Processed(s) /\ (Late(i) \/ InWindow(h, x))
      BY <2>2, <2>4, <3>1
    <3>3. QED BY <2>5, <3>1, <3>2 DEF InWindow
  <2>7. ASSUME Idle, NEW i \in Processed(s),
               \A j \in Processed(s) : i < j => recorded[i].time
                                                  >= recorded[j].time - CorrelationWindow
        PROVE  recorded[i] \in ToSet(h)
    <3>1. \E x \in 1..Len(h) : h[x] = recorded[i]
      BY <2>2, <2>3, <2>7 DEF IsWindow
    <3>2. QED BY <2>5, <3>1 DEF ToSet
  <2>8. QED BY <2>6, <2>7 DEF h
<1>2. TypeOK /\ ChainInv => CampaignsRestOnStages
  <2> SUFFICES ASSUME TypeOK, ChainInv, NEW k \in done.campaigns \intersect Ids
               PROVE  LET before == {i \in 1..k - 1 : /\ recorded[i].src = recorded[k].src
                                                      /\ KillStages(recorded[i].category) # {}}
                      IN  /\ \E i, j \in before :
                               /\ KillStages(recorded[i].category) # KillStages(recorded[j].category)
                               /\ \/ recorded[i].time - recorded[j].time \in 0..CorrelationWindow
                                  \/ Late(i) \/ Late(j)
                          /\ Idle => Cardinality({c \in done.campaigns :
                                                    recorded[c].src = recorded[k].src})
                               = Cardinality(chain.alerted[recorded[k].src])
    BY DEF CampaignsRestOnStages
  <2>1. CampaignsFit
    BY DEF ChainInv
  <2>2. SrcOf(k) = recorded[k].src /\ recorded[k].src \in Sources /\ Staged(k, recorded[k].src)
    BY <2>1 DEF CampaignsFit, SrcOf
  <2>3. Ids = 1..Len(recorded) /\ Len(recorded) \in Nat
    BY IdsAre
  <2> DEFINE before == {i \in 1..k - 1 : /\ recorded[i].src = recorded[k].src
                                         /\ KillStages(recorded[i].category) # {}}
  <2>4. \E i, j \in before :
          /\ KillStages(recorded[i].category) # KillStages(recorded[j].category)
          /\ \/ recorded[i].time - recorded[j].time \in 0..CorrelationWindow
             \/ Late(i) \/ Late(j)
    <3>1. PICK i \in Ids, j \in Ids :
            /\ i < k /\ j < k /\ recorded[i].src = recorded[k].src /\ recorded[j].src = recorded[k].src
            /\ KillStages(recorded[i].category) # {} /\ KillStages(recorded[j].category) # {}
            /\ KillStages(recorded[i].category) # KillStages(recorded[j].category)
            /\ \/ recorded[i].time - recorded[j].time \in 0..CorrelationWindow
               \/ Late(i) \/ Late(j)
      BY <2>2 DEF Staged
    <3>2. i \in 1..k - 1 /\ j \in 1..k - 1
      BY <2>3, <3>1
    <3>3. i \in before /\ j \in before
      BY <3>1, <3>2
    <3> HIDE DEF before
    <3>4. QED BY <3>1, <3>3
  <2>5. ASSUME Idle
        PROVE  Cardinality({c \in done.campaigns : recorded[c].src = recorded[k].src})
                 = Cardinality(chain.alerted[recorded[k].src])
    <3>1. Reached = Len(recorded)
      BY <2>5 DEF Idle, Reached, At
    <3>2. \A c \in done.campaigns : SrcOf(c) = recorded[c].src
      BY <2>1, <2>3, <3>1 DEF CampaignsFit, SrcOf
    <3>3. CampaignsOf(recorded[k].src) = {c \in done.campaigns : recorded[c].src = recorded[k].src}
      BY <3>2 DEF CampaignsOf
    <3>4. Cardinality(chain.alerted[recorded[k].src]) = Cardinality(CampaignsOf(recorded[k].src))
      BY <2>1, <2>2 DEF CampaignsFit
    <3>5. QED BY <3>3, <3>4
  <2>6. QED BY <2>4, <2>5
<1>3. PipelineInv => TypeOK
  BY DEF PipelineInv
<1>4. TypeOK /\ ChainInv => CampaignsAreEarned
  BY <1>1, <1>2 DEF CampaignsAreEarned
<1>5. QED BY <1>3, <1>4, PipelineInvariant, ChainInvariant, PTL
=============================================================================
