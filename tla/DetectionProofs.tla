---------------------------- MODULE DetectionProofs ----------------------------
(***************************************************************************)
(* Proofs about three of the detectors: CampaignEngine, which keeps a case *)
(* on every actor and target; IntelGraph, whose counting Bloom filter says *)
(* which addresses are indicators, and whose attack graph says which hosts *)
(* are compromised and how that spread; and FlowEngine, which stitches the *)
(* flows into sessions and gives the hosts their roles.                    *)
(*                                                                         *)
(* CampaignEngine comes first: for any alerts, assets, stages, bonuses     *)
(* and window, and however many alerts come, whenever they come.           *)
(*                                                                         *)
(* The invariant ties every case to the history of the alerts: its size to *)
(* how many of them were told to it, its last stage and its time to the    *)
(* last of them, its consolidated alerts to its stages and posterior, and  *)
(* the case of an asset to the last alert that names the asset.  Of the    *)
(* arithmetic it needs one fact: an alert never makes a case less likely.  *)
(***************************************************************************)
EXTENDS CampaignEngine, IntelGraph, FlowEngine, DataLemmas

-----------------------------------------------------------------------------
(* The posterior *)

\* What the long division has left of m, after a digit.
Quotient(a, m, d) == /\ a.q \in Nat /\ a.r \in Nat /\ a.r < d
                     /\ a.q * d + a.r = m

LEMMA NextDigitIs ==
  ASSUME NEW d \in Nat \ {0}, NEW m \in Nat, NEW a, Quotient(a, m, d)
  PROVE  Quotient(NextDigit(a, d), 10 * m, d)
<1>1. PICK q \in Nat, r \in Nat : q = a.q /\ r = a.r /\ q * d + r = m
  BY DEF Quotient
<1>2. PICK x \in Nat, y \in Nat : x = (10 * r) \div d /\ y = (10 * r) % d
  OBVIOUS
<1>3. x * d + y = 10 * r /\ y < d
  <2>1. PICK p \in Nat : p = 10 * r
    OBVIOUS
  <2>2. x = p \div d /\ y = p % d
    BY <1>2, <2>1
  <2>3. x * d + y = p /\ y < d
    BY <2>2
  <2>4. QED BY <2>1, <2>3
<1>4. (10 * q + x) * d + y = 10 * (q * d) + (x * d + y)
  OBVIOUS
<1>5. (10 * q + x) * d + y = 10 * m
  <2>1. PICK z \in Nat, v \in Nat : z = q * d /\ v = x * d + y
    OBVIOUS
  <2>2. z + r = m /\ v = 10 * r /\ (10 * q + x) * d + y = 10 * z + v
    BY <1>1, <1>3, <1>4, <2>1
  <2>3. QED BY <2>2
<1>6. NextDigit(a, d).q = 10 * q + x /\ NextDigit(a, d).r = y
  BY <1>1, <1>2 DEF NextDigit
<1>7. QED BY <1>3, <1>5, <1>6 DEF Quotient

\* The rounded ratio of n and d, at least k ten-thousandths when n is.
LEMMA RatioIs ==
  ASSUME NEW d \in Nat \ {0}, NEW n \in Nat, n < d, NEW k \in Nat, k * d <= 10000 * n
  PROVE  Ratio(n, d) \in Nat /\ Ratio(n, d) >= k
<1> DEFINE zero == [q |-> 0, r |-> n]
           one == NextDigit(zero, d)
           two == NextDigit(one, d)
           three == NextDigit(two, d)
           digits == NextDigit(three, d)
<1>1. Quotient(zero, n, d)
  BY DEF Quotient
<1>2. Quotient(one, 10 * n, d)
  BY <1>1, NextDigitIs
<1>3. Quotient(two, 10 * (10 * n), d)
  <2> HIDE DEF one
  <2>1. 10 * n \in Nat
    OBVIOUS
  <2>2. QED BY <1>2, <2>1, NextDigitIs
<1>4. Quotient(three, 10 * (10 * (10 * n)), d)
  <2> HIDE DEF two
  <2>1. 10 * (10 * n) \in Nat
    OBVIOUS
  <2>2. QED BY <1>3, <2>1, NextDigitIs
<1>5. Quotient(digits, 10 * (10 * (10 * (10 * n))), d)
  <2> HIDE DEF three
  <2>1. 10 * (10 * (10 * n)) \in Nat
    OBVIOUS
  <2>2. QED BY <1>4, <2>1, NextDigitIs
<1>6. Ratio(n, d) = digits.q + (IF 2 * digits.r >= d THEN 1 ELSE 0)
  BY DEF Ratio
<1> HIDE DEF digits
<1>7. PICK q \in Nat, r \in Nat : q = digits.q /\ r = digits.r /\ r < d
                                  /\ q * d + r = 10000 * n
  BY <1>5 DEF Quotient
<1>8. q >= k
  <2>1. q < k => (q + 1) * d <= k * d
    OBVIOUS
  <2>2. (q + 1) * d = q * d + d
    OBVIOUS
  <2>3. q * d \in Nat /\ k * d \in Nat
    OBVIOUS
  <2>4. QED BY <1>7, <2>1, <2>2, <2>3
<1>9. QED BY <1>6, <1>7, <1>8

LEMMA PosteriorGrows ==
  ASSUME NEW p \in Nat, p >= 500, p <= 9990, NEW weight \in Nat, weight >= 15,
         NEW bonus \in Nat
  PROVE  LET q == Posterior(p, weight, bonus) IN q \in Nat /\ q >= p /\ q <= 9990
<1>1. PICK ratio \in Nat : ratio = weight * (40 + bonus) /\ ratio >= 400
  <2>1. PICK b \in Nat : b = 40 + bonus /\ b >= 40
    OBVIOUS
  <2>2. weight * b \in Nat
    OBVIOUS
  <2>3. weight * b >= 15 * b
    OBVIOUS
  <2>4. QED BY <2>1, <2>2, <2>3
<1>2. PICK n \in Nat : n = p * ratio
  OBVIOUS
<1>3. PICK rest \in Nat : rest = (10000 - p) * 400 /\ rest > 0
  OBVIOUS
<1>4. Clamp(100, p, 9990) = p
  BY DEF Clamp
<1>5. p * weight * (40 + bonus) = n
  <2>1. p * weight * (40 + bonus) = p * (weight * (40 + bonus))
    OBVIOUS
  <2>2. QED BY <1>1, <1>2, <2>1
<1>6. Posterior(p, weight, bonus) = Clamp(0, Ratio(n, n + rest), 9990)
  BY <1>3, <1>4, <1>5 DEF Posterior
<1>7. p * (n + rest) <= 10000 * n
  <2>1. PICK c \in Nat : c = 10000 - p
    OBVIOUS
  <2>2. c * 400 <= c * ratio
    BY <1>1
  <2>3. p * (c * 400) <= p * (c * ratio)
    <3>1. PICK x \in Nat, y \in Nat : x = c * 400 /\ y = c * ratio
      OBVIOUS
    <3>2. x <= y => p * x <= p * y
      OBVIOUS
    <3>3. QED BY <2>2, <3>1, <3>2
  <2>4. p * (c * ratio) = c * n
    <3>1. p * (c * ratio) = c * (p * ratio)
      OBVIOUS
    <3>2. QED BY <1>2, <3>1
  <2>5. p * n + c * n = 10000 * n
    <3>1. p * n + c * n = (p + c) * n
      OBVIOUS
    <3>2. QED BY <2>1, <3>1
  <2>6. p * (n + rest) = p * n + p * rest
    OBVIOUS
  <2>7. p * rest = p * (c * 400)
    BY <1>3, <2>1
  <2>8. QED
    <3>1. PICK x \in Nat, y \in Nat, z \in Nat : x = p * rest /\ y = p * n /\ z = c * n
      OBVIOUS
    <3>2. PICK u \in Nat, v \in Nat : u = p * (c * 400) /\ v = p * (c * ratio)
      OBVIOUS
    <3>3. u <= v /\ v = z /\ x = u
      BY <2>3, <2>4, <2>7, <3>1, <3>2
    <3>4. x <= z
      BY <3>3
    <3>5. PICK w \in Nat : w = p * (n + rest)
      OBVIOUS
    <3>6. w = y + x /\ y + z = 10000 * n
      BY <2>5, <2>6, <3>1, <3>5
    <3>7. w <= 10000 * n
      BY <3>4, <3>6
    <3>8. QED BY <3>5, <3>7
<1>8. Ratio(n, n + rest) \in Nat /\ Ratio(n, n + rest) >= p
  <2>1. n + rest \in Nat \ {0} /\ n < n + rest
    BY <1>3
  <2>2. PICK d \in Nat \ {0} : d = n + rest /\ n < d /\ p \in Nat /\ p * d <= 10000 * n
    BY <1>7, <2>1
  <2>3. Ratio(n, d) \in Nat /\ Ratio(n, d) >= p
    BY <2>2, RatioIs
  <2>4. QED BY <2>2, <2>3
<1>9. PICK v \in Nat : v = Ratio(n, n + rest) /\ v >= p
  BY <1>8
<1>10. Posterior(p, weight, bonus) = Clamp(0, v, 9990)
  BY <1>6, <1>9
<1>11. v >= p
  BY <1>9
<1>12. PICK c \in Nat : c = Clamp(0, v, 9990) /\ c <= 9990
  BY DEF Clamp
<1>13. c >= p
  BY <1>11, <1>12 DEF Clamp
<1>14. Posterior(p, weight, bonus) = c
  BY <1>10, <1>12
<1>15. QED BY <1>12, <1>13, <1>14

LEMMA TransitionIsNatural ==
  ASSUME NEW from, NEW to
  PROVE  Transition(from, to) \in Nat
BY DEF Transition

LEMMA StageIs ==
  ASSUME NEW category PROVE StageOf(category) \in Stages
BY DEF StageOf, Stages
-----------------------------------------------------------------------------
(* What an alert does to a case, and to the cases *)

Statuses == {"ACTIVE", "ESCALATED", "CONTAINED"}
Case == [primary : Assets \union {NoAsset}, assets : SUBSET Assets,
         stages : SUBSET Stages, last : Stages \union {"none"}, prob : Nat,
         status : Statuses, updated : Nat, size : Nat]

\* A case that makes sense, of one alert or more.
Likely(c) == /\ c.prob >= 500 /\ c.prob <= 9990
             /\ IsFiniteSet(c.stages) /\ Cardinality(c.stages) <= c.size

\* What a case keeps.
Grows(c, g) == /\ g.prob >= c.prob /\ c.stages \subseteq g.stages
               /\ c.assets \subseteq g.assets

Confirmed(c) == Cardinality(c.stages) >= 2 /\ c.prob >= 8500

WithStatus(c, status) == [c EXCEPT !.status = status]
WithOthers(c, assets, stages, last, prob, updated, size) ==
  [c EXCEPT !.assets = assets, !.stages = stages, !.last = last, !.prob = prob,
            !.updated = updated, !.size = size]

\* y is c but for its status x.
SameButStatus(c, x, y) ==
  /\ y \in Case /\ y.status = x /\ y.primary = c.primary
  /\ y.assets = c.assets /\ y.stages = c.stages /\ y.prob = c.prob
  /\ y.updated = c.updated /\ y.size = c.size

LEMMA StatusReplaced ==
  ASSUME NEW c \in Case, NEW x \in Statuses
  PROVE  SameButStatus(c, x, WithStatus(c, x))
BY DEF Case, WithStatus, SameButStatus

LEMMA OthersReplaced ==
  ASSUME NEW c \in Case, NEW b \in SUBSET Assets, NEW d \in SUBSET Stages,
         NEW e \in Stages, NEW f \in Nat, NEW g \in Nat, NEW h \in Nat
  PROVE  LET y == WithOthers(c, b, d, e, f, g, h)
         IN  /\ y \in Case /\ y.status = c.status /\ y.primary = c.primary
             /\ y.assets = b /\ y.stages = d /\ y.prob = f
             /\ y.updated = g /\ y.size = h
BY DEF Case, WithOthers

\* g is c after the alert.
GrownTo(c, alert, t, g) ==
  /\ g \in Case /\ Likely(g) /\ Grows(c, g)
  /\ g.assets = c.assets \union ({alert.src, alert.dst} \ {NoAsset})
  /\ g.updated = t /\ g.size = c.size + 1
  /\ Escalates([g EXCEPT !.status = c.status])
       => g.status = "ESCALATED" /\ c.status # "ESCALATED" /\ Confirmed(g)
  /\ ~Escalates([g EXCEPT !.status = c.status]) => g.status = c.status

LEMMA GrowIs ==
  ASSUME NEW c \in Case, Likely(c), NEW alert \in Alerts, NEW t \in Nat,
         NEW g, g = Grow(c, alert, t)
  PROVE  GrownTo(c, alert, t, g)
<1> DEFINE stage == StageOf(alert.category)
           bonus == IF c.last \in {"none", stage} THEN 0 ELSE Transition(c.last, stage)
           prob == Posterior(c.prob, SeverityWeight[alert.severity], bonus)
           assets == c.assets \union ({alert.src, alert.dst} \ {NoAsset})
           stages == c.stages \union {stage}
<1>1. PICK s, p, as, ss, u : /\ s = stage /\ p = prob /\ as = assets /\ ss = stages
                             /\ u = c.size + 1
  OBVIOUS
<1>2. /\ c.prob \in Nat /\ c.size \in Nat /\ c.stages \in SUBSET Stages
      /\ c.assets \in SUBSET Assets /\ c.status \in Statuses
      /\ c.primary \in Assets \union {NoAsset} /\ c.updated \in Nat
      /\ c.last \in Stages \union {"none"}
  BY DEF Case
<1>3. s \in Stages
  BY <1>1, StageIs
<1>4. bonus \in Nat
  BY TransitionIsNatural
<1>5. PICK w \in Nat : w = SeverityWeight[alert.severity] /\ w >= 15
  <2>1. alert.severity \in DOMAIN SeverityWeight
    BY AlertsAssumption
  <2>2. QED BY <2>1 DEF SeverityWeight
<1>6. p \in Nat /\ p >= c.prob /\ p <= 9990 /\ p >= 500
  <2> HIDE DEF bonus
  <2>1. PICK b \in Nat, q \in Nat : b = bonus /\ q = c.prob /\ q >= 500 /\ q <= 9990
    BY <1>2, <1>4 DEF Likely
  <2>2. p = Posterior(q, w, b)
    BY <1>1, <1>5, <2>1
  <2>3. p \in Nat /\ p >= q /\ p <= 9990
    BY <1>5, <2>1, <2>2, PosteriorGrows
  <2>4. QED BY <2>1, <2>3
<1>7. /\ as \in SUBSET Assets /\ c.assets \subseteq as
      /\ as = c.assets \union ({alert.src, alert.dst} \ {NoAsset})
  BY <1>1, <1>2, AlertsAssumption
<1>8. /\ ss \in SUBSET Stages /\ c.stages \subseteq ss /\ IsFiniteSet(ss)
      /\ Cardinality(ss) <= u /\ u \in Nat /\ u = c.size + 1
  <2>1. IsFiniteSet(c.stages) /\ Cardinality(c.stages) <= c.size
    BY DEF Likely
  <2>2. /\ IsFiniteSet(ss) /\ Cardinality(c.stages) \in Nat
        /\ Cardinality(ss) = Cardinality(c.stages)
           \/ Cardinality(ss) = Cardinality(c.stages) + 1
    BY <1>1, <2>1, FS_AddElement, FS_CardinalityType
  <2>3. QED BY <1>1, <1>2, <1>3, <2>1, <2>2
<1> HIDE DEF stage, bonus, prob, assets, stages
<1>9. PICK grown : /\ grown = WithOthers(c, as, ss, s, p, t, u) /\ grown \in Case
                   /\ grown.status = c.status /\ grown.primary = c.primary
                   /\ grown.assets = as /\ grown.stages = ss /\ grown.prob = p
                   /\ grown.updated = t /\ grown.size = u
  BY <1>3, <1>6, <1>7, <1>8, OthersReplaced
<1>10. g = IF Escalates(grown) THEN WithStatus(grown, "ESCALATED") ELSE grown
  <2>1. ss = c.stages \union {s} /\ u = c.size + 1
    BY <1>1 DEF stages
  <2>2. grown = [c EXCEPT !.assets = c.assets \union ({alert.src, alert.dst} \ {NoAsset}),
                  !.stages = c.stages \union {s}, !.last = s, !.prob = p,
                  !.updated = t, !.size = c.size + 1]
    BY <1>7, <1>9, <2>1 DEF WithOthers
  <2>3. QED BY <1>1, <2>2 DEF Grow, WithStatus, stage, bonus, prob
<1>11. /\ g.prob = p /\ g.stages = ss /\ g.assets = as /\ g.size = u /\ g.updated = t
       /\ g.primary = c.primary /\ g \in Case
       /\ g.status = IF Escalates(grown) THEN "ESCALATED" ELSE c.status
  <2>1. CASE Escalates(grown)
    <3>1. PICK x \in Statuses : x = "ESCALATED"
      BY DEF Statuses
    <3>2. PICK y : y = WithStatus(grown, x) /\ SameButStatus(grown, x, y)
      BY <1>9, StatusReplaced
    <3>3. g = y
      BY <1>10, <2>1, <3>1, <3>2
    <3>4. QED BY <1>9, <2>1, <3>1, <3>2, <3>3 DEF SameButStatus
  <2>2. CASE ~Escalates(grown)
    BY <1>9, <1>10, <2>2
  <2>3. QED BY <2>1, <2>2
<1>12. Escalates([g EXCEPT !.status = c.status]) <=> Escalates(grown)
  <2>1. PICK y : y = WithStatus(g, c.status) /\ y.stages = ss /\ y.prob = p
                 /\ y.status = c.status
    BY <1>2, <1>11, StatusReplaced DEF SameButStatus
  <2>2. Escalates(y) <=> Escalates(grown)
    BY <1>9, <2>1 DEF Escalates
  <2>3. QED BY <2>1, <2>2 DEF WithStatus
<1>13. Escalates(grown) => /\ c.status # "ESCALATED" /\ Cardinality(ss) >= 2
                           /\ p >= 8500
  BY <1>9 DEF Escalates
<1>14. Likely(g)
  BY <1>6, <1>8, <1>11 DEF Likely
<1>15. Grows(c, g)
  BY <1>6, <1>7, <1>8, <1>11 DEF Grows
<1>16. Escalates(grown) => Confirmed(g)
  BY <1>11, <1>13 DEF Confirmed
<1>17. QED
  BY <1>7, <1>8, <1>11, <1>12, <1>13, <1>14, <1>15, <1>16 DEF GrownTo

Engines == [cases : Seq(Case), caseOf : [Assets -> Nat]]
Sensible(e) == /\ e \in Engines
               /\ \A c \in 1..Len(e.cases) : Likely(e.cases[c])
               /\ \A a \in Assets : e.caseOf[a] <= Len(e.cases)

LEMMA NewCaseIs ==
  ASSUME NEW src \in Assets \union {NoAsset}, NEW t \in Nat
  PROVE  LET c == NewCase(src, t)
         IN  /\ c \in Case /\ Likely(c) /\ c.size = 0 /\ c.status = "ACTIVE"
             /\ c.assets = {}
<1>1. Cardinality({}) = 0 /\ IsFiniteSet({})
  BY FS_EmptySet
<1>2. QED BY <1>1 DEF NewCase, Case, Likely, Statuses

LEMMA SensibleParts ==
  ASSUME NEW e, Sensible(e)
  PROVE  /\ e.cases \in Seq(Case) /\ Len(e.cases) \in Nat /\ e.caseOf \in [Assets -> Nat]
         /\ DOMAIN e.cases = 1..Len(e.cases)
         /\ \A c \in 1..Len(e.cases) : e.cases[c] \in Case /\ Likely(e.cases[c])
<1>1. e \in Engines
  BY DEF Sensible
<1> HIDE DEF Case
<1>2. e.cases \in Seq(Case) /\ e.caseOf \in [Assets -> Nat]
  BY <1>1 DEF Engines
<1>3. QED BY <1>2 DEF Sensible

\* The case an alert goes to, before and after it.
Taken(e, alert, t, n, b, g) ==
  /\ b \in Case /\ Likely(b) /\ g = Grow(b, alert, t)
  /\ \/ n \in 1..Len(e.cases) /\ b = e.cases[n] /\ t - b.updated <= Window
     \/ n = Len(e.cases) + 1 /\ b = NewCase(alert.src, t)

\* The engine after an alert.
Ingested(e, alert, n, g, f) ==
  /\ Sensible(f) /\ n \in 1..Len(f.cases) /\ f.cases[n] = g
  /\ Len(f.cases) = (IF n = Len(e.cases) + 1 THEN n ELSE Len(e.cases))
  /\ \A c \in 1..Len(e.cases) : c # n => f.cases[c] = e.cases[c]
  /\ \A a \in Assets : f.caseOf[a] = IF a \in {alert.src, alert.dst} THEN n
                                     ELSE e.caseOf[a]

Ingesting(e, alert, t, r) == r = Ingest(e, alert, t)

LEMMA IngestIs ==
  ASSUME NEW e, Sensible(e), NEW alert \in Alerts, NEW t \in Nat,
         NEW r, Ingesting(e, alert, t, r)
  PROVE  \E b, g : /\ Taken(e, alert, t, r.case, b, g)
                   /\ Ingested(e, alert, r.case, g, r.engine)
                   /\ Len(r.escalated) =
                        IF Escalates([g EXCEPT !.status = b.status]) THEN 1 ELSE 0
<1> DEFINE n == Resolve(e, alert, t)
           len == Len(e.cases)
           b == IF n > len THEN NewCase(alert.src, t) ELSE e.cases[n]
           g == Grow(b, alert, t)
           cases == IF n > len THEN Append(e.cases, g) ELSE [e.cases EXCEPT ![n] = g]
           f == [cases |-> cases, caseOf |-> MoveAssets(e, alert, n)]
<1>1. /\ e.cases \in Seq(Case) /\ len \in Nat /\ e.caseOf \in [Assets -> Nat]
      /\ \A c \in 1..len : e.cases[c] \in Case /\ Likely(e.cases[c])
      /\ \A a \in Assets : e.caseOf[a] <= len
  BY SensibleParts DEF Sensible
<1>2. {alert.src, alert.dst} \subseteq Assets \union {NoAsset}
  BY AlertsAssumption
<1>3. \/ n \in 1..len /\ t - e.cases[n].updated <= Window
      \/ n = len + 1
  <2>1. ASSUME NEW a \in Assets \union {NoAsset} PROVE CaseOf(e, a) \in 0..len
    BY <1>1, <2>1 DEF CaseOf
  <2>2. PICK c \in 0..len : n = IF Live(e, c, t) THEN c ELSE len + 1
    BY <1>2, <2>1 DEF Resolve
  <2>3. CASE Live(e, c, t)
    <3>1. n = c /\ c # 0 /\ t - e.cases[c].updated <= Window
      BY <2>2, <2>3 DEF Live
    <3>2. QED BY <1>1, <3>1
  <2>4. CASE ~Live(e, c, t)
    BY <2>2, <2>4
  <2>5. QED BY <2>3, <2>4
<1> HIDE DEF n, len
<1>4. n \in 1..len + 1 /\ (n > len <=> n = len + 1)
  BY <1>1, <1>3
<1>5. b \in Case /\ Likely(b)
  <2>1. CASE n = len + 1
    BY <1>2, <1>4, <2>1, NewCaseIs
  <2>2. CASE n # len + 1
    BY <1>1, <1>4, <2>2
  <2>3. QED BY <2>1, <2>2
<1>6. g \in Case /\ Likely(g)
  <2> HIDE DEF b
  <2>1. QED BY <1>5, GrowIs DEF GrownTo
<1>7. Taken(e, alert, t, n, b, g)
  <2>1. n \in 1..len => b = e.cases[n]
    BY <1>1
  <2>2. n = len + 1 => b = NewCase(alert.src, t)
    BY <1>1
  <2> HIDE DEF b
  <2>3. QED BY <1>3, <1>5, <2>1, <2>2 DEF Taken, len
<1> HIDE DEF b, g
<1>8. /\ cases \in Seq(Case) /\ Len(cases) = (IF n = len + 1 THEN n ELSE len)
      /\ n \in 1..Len(cases) /\ cases[n] = g
      /\ \A c \in 1..len : c # n => cases[c] = e.cases[c]
  <2> HIDE DEF Case
  <2>1. CASE n = len + 1
    <3>1. cases = Append(e.cases, g)
      BY <1>4, <2>1
    <3>2. QED BY <1>1, <1>6, <2>1, <3>1 DEF len
  <2>2. CASE n # len + 1
    <3>1. n \in 1..len /\ ~(n > len)
      BY <1>1, <1>4, <2>2
    <3>2. cases = [e.cases EXCEPT ![n] = g] /\ n \in 1..len
      BY <3>1
    <3>3. QED BY <1>1, <1>6, <2>2, <3>2 DEF len
  <2>3. QED BY <2>1, <2>2
<1>9. MoveAssets(e, alert, n) \in [Assets -> Nat]
  BY <1>1, <1>4 DEF MoveAssets
<1>10. \A a \in Assets : MoveAssets(e, alert, n)[a] = IF a \in {alert.src, alert.dst} THEN n
                                                      ELSE e.caseOf[a]
  BY DEF MoveAssets
<1> HIDE DEF cases
<1>11. Sensible(f)
  <2>1. f \in Engines
    BY <1>8, <1>9 DEF Engines
  <2>2. ASSUME NEW c \in 1..Len(cases) PROVE Likely(cases[c])
    <3>1. CASE c = n
      BY <1>6, <1>8, <3>1
    <3>2. CASE c # n
      BY <1>1, <1>4, <1>8, <3>2
    <3>3. QED BY <3>1, <3>2
  <2>3. ASSUME NEW a \in Assets PROVE MoveAssets(e, alert, n)[a] <= Len(cases)
    <3>1. len <= Len(cases) /\ n <= Len(cases) /\ Len(cases) \in Nat
      BY <1>1, <1>4, <1>8
    <3>2. e.caseOf[a] \in Nat /\ e.caseOf[a] <= len
      BY <1>1
    <3>3. QED BY <1>1, <1>4, <1>10, <3>1, <3>2
  <2>4. QED BY <2>1, <2>2, <2>3 DEF Sensible
<1>12. Ingested(e, alert, n, g, f)
  BY <1>8, <1>10, <1>11 DEF Ingested, len
<1>13. /\ r.engine = f /\ r.case = n
       /\ Len(r.escalated) = IF Escalates([g EXCEPT !.status = b.status]) THEN 1 ELSE 0
  <2>1. r.engine = f /\ r.case = n
    BY DEF Ingesting, Ingest, n, b, g, cases, len
  <2>2. r.escalated =
          IF Escalates([g EXCEPT !.status = b.status])
          THEN <<[category |-> "ATTACK_CAMPAIGN", severity |-> "CRITICAL",
                  src |-> g.primary, dst |-> alert.dst]>>
          ELSE <<>>
    BY DEF Ingesting, Ingest, n, b, g, len
  <2>3. QED BY <2>2, <2>1
<1>14. QED BY <1>7, <1>12, <1>13
-----------------------------------------------------------------------------
(* The history of the alerts *)

Entries == [alert : Alerts, case : Nat, time : Nat]
Logs == Seq(Entries)
Extends(entries, alert, c, t, new) ==
  new = Append(entries, [alert |-> alert, case |-> c, time |-> t])

\* The alerts of a case, and those that name an asset.
OfCase(entries, c) == {i \in DOMAIN entries : entries[i].case = c}
Naming(entries, a) ==
  {i \in DOMAIN entries : a \in {entries[i].alert.src, entries[i].alert.dst}}

IsLast(i, set) == i \in set /\ \A j \in set : j <= i

\* Each alert of a set is within the window of the one before.
Close(entries, set) ==
  \A i, j \in set : i < j /\ (\A k \in set : k <= i \/ j <= k)
                      => entries[j].time - entries[i].time <= Window

LEMMA OneMoreEntry ==
  ASSUME NEW entries \in Logs, NEW alert \in Alerts, NEW c \in Nat, NEW t \in Nat,
         NEW new, Extends(entries, alert, c, t, new)
  PROVE  /\ new \in Logs /\ Len(entries) \in Nat /\ DOMAIN entries = 1..Len(entries)
         /\ DOMAIN new = 1..Len(entries) + 1
         /\ \A i \in 1..Len(entries) : new[i] = entries[i] /\ entries[i] \in Entries
         /\ LET x == new[Len(entries) + 1] IN x.alert = alert /\ x.case = c /\ x.time = t
<1> DEFINE x == [alert |-> alert, case |-> c, time |-> t]
<1>1. x \in Entries /\ x.alert = alert /\ x.case = c /\ x.time = t
  BY DEF Entries
<1>2. entries \in Seq(Entries) /\ new = Append(entries, x)
  BY DEF Logs, Extends
<1> HIDE DEF Entries, x
<1>3. /\ new \in Seq(Entries) /\ Len(entries) \in Nat /\ DOMAIN entries = 1..Len(entries)
      /\ Len(new) = Len(entries) + 1 /\ new[Len(entries) + 1] = x
      /\ \A i \in 1..Len(entries) : new[i] = entries[i] /\ entries[i] \in Entries
  BY <1>1, <1>2
<1>4. DOMAIN new = 1..Len(entries) + 1
  BY <1>3
<1>5. QED BY <1>1, <1>3, <1>4 DEF Logs

LEMMA OfCaseGrows ==
  ASSUME NEW entries \in Logs, NEW alert \in Alerts, NEW c \in Nat, NEW t \in Nat,
         NEW new, Extends(entries, alert, c, t, new), NEW d
  PROVE  /\ OfCase(new, d) = OfCase(entries, d)
                             \union (IF d = c THEN {Len(entries) + 1} ELSE {})
         /\ OfCase(entries, d) \subseteq 1..Len(entries)
         /\ IsFiniteSet(OfCase(entries, d))
<1>1. /\ Len(entries) \in Nat /\ DOMAIN entries = 1..Len(entries)
      /\ DOMAIN new = 1..Len(entries) + 1
      /\ \A i \in 1..Len(entries) : new[i] = entries[i]
      /\ new[Len(entries) + 1].case = c
  <2>1. /\ Len(entries) \in Nat /\ DOMAIN entries = 1..Len(entries)
        /\ DOMAIN new = 1..Len(entries) + 1
        /\ \A i \in 1..Len(entries) : new[i] = entries[i]
    BY OneMoreEntry, SMTT(30)
  <2>2. new[Len(entries) + 1].case = c
    BY OneMoreEntry, SMTT(30)
  <2>3. QED BY <2>1, <2>2
<1>2. \A i : i \in 1..Len(entries) + 1 <=> i \in 1..Len(entries) \/ i = Len(entries) + 1
  BY <1>1
<1>3. Len(entries) + 1 \notin 1..Len(entries)
  BY <1>1
<1>4. OfCase(new, d) = OfCase(entries, d)
                       \union (IF d = c THEN {Len(entries) + 1} ELSE {})
  BY <1>1, <1>2, <1>3 DEF OfCase
<1>5. OfCase(entries, d) \subseteq 1..Len(entries)
  BY <1>1 DEF OfCase
<1>6. IsFiniteSet(1..Len(entries))
  BY <1>1, FS_Interval
<1>7. QED BY <1>4, <1>5, <1>6, FS_Subset

LEMMA NamingGrows ==
  ASSUME NEW entries \in Logs, NEW alert \in Alerts, NEW c \in Nat, NEW t \in Nat,
         NEW new, Extends(entries, alert, c, t, new), NEW a
  PROVE  /\ Naming(new, a) = Naming(entries, a)
              \union (IF a \in {alert.src, alert.dst} THEN {Len(entries) + 1} ELSE {})
         /\ Naming(entries, a) \subseteq 1..Len(entries)
<1>1. /\ Len(entries) \in Nat /\ DOMAIN entries = 1..Len(entries)
      /\ DOMAIN new = 1..Len(entries) + 1
      /\ \A i \in 1..Len(entries) : new[i] = entries[i]
      /\ new[Len(entries) + 1].alert = alert
  BY OneMoreEntry
<1>2. \A i : i \in 1..Len(entries) + 1 <=> i \in 1..Len(entries) \/ i = Len(entries) + 1
  BY <1>1
<1>3. Len(entries) + 1 \notin 1..Len(entries)
  BY <1>1
<1>4. Naming(new, a) = Naming(entries, a)
              \union (IF a \in {alert.src, alert.dst} THEN {Len(entries) + 1} ELSE {})
  BY <1>1, <1>2, <1>3 DEF Naming
<1>5. Naming(entries, a) \subseteq 1..Len(entries)
  BY <1>1 DEF Naming
<1>6. QED BY <1>4, <1>5

\* The alerts of a case stay close when one comes that is close to the last.
LEMMA CloseGrows ==
  ASSUME NEW n \in Nat, NEW entries, NEW new, NEW set \in SUBSET (1..n),
         \A i \in 1..n : new[i] = entries[i],
         Close(entries, set),
         \A i : IsLast(i, set) => new[n + 1].time - entries[i].time <= Window
  PROVE  Close(new, set) /\ Close(new, set \union {n + 1})
<1>1. Close(new, set)
  BY DEF Close
<1>2. ASSUME NEW i \in set \union {n + 1}, NEW j \in set \union {n + 1}, i < j,
             \A k \in set \union {n + 1} : k <= i \/ j <= k
      PROVE  new[j].time - new[i].time <= Window
  <2>1. i \in set /\ i \in 1..n
    BY <1>2
  <2>2. CASE j \in set
    BY <1>1, <1>2, <2>1, <2>2 DEF Close
  <2>3. CASE j \notin set
    <3>1. j = n + 1
      BY <2>3
    <3>2. \A k \in set : k <= i
      BY <1>2, <3>1
    <3>3. IsLast(i, set)
      BY <2>1, <3>2 DEF IsLast
    <3>4. QED BY <2>1, <3>1, <3>3
  <2>4. QED BY <2>2, <2>3
<1>3. Close(new, set \union {n + 1})
  BY <1>2 DEF Close
<1>4. QED BY <1>1, <1>3
-----------------------------------------------------------------------------
(* The invariant *)

\* What a case raised, and whether an analyst touched it.
Earned(c, raise, reopen) ==
  /\ raise \in Nat /\ reopen \in Nat
  /\ raise > 0 => Confirmed(c)
  /\ reopen = 0 => raise = IF c.status = "ESCALATED" THEN 1 ELSE 0

\* A case has its alerts, and was updated by the last of them.
Holds(c, entries, set) ==
  /\ Cardinality(set) = c.size
  /\ \E i : IsLast(i, set) /\ entries[i].time = c.updated
  /\ Close(entries, set)

\* An asset is with the case of the last alert that named it.
Follows(e, a, entries) ==
  LET mine == Naming(entries, a)
  IN  IF mine = {} THEN e.caseOf[a] = 0
      ELSE \E i : /\ IsLast(i, mine) /\ e.caseOf[a] = entries[i].case
                  /\ e.caseOf[a] \in 1..Len(e.cases)
                  /\ a \in e.cases[e.caseOf[a]].assets

Cased(e, entries) == \A i \in DOMAIN entries : entries[i].case \in 1..Len(e.cases)
Coherent(e, entries) ==
  \A c \in 1..Len(e.cases) : Holds(e.cases[c], entries, OfCase(entries, c))
Following(e, entries) == \A a \in Assets : Follows(e, a, entries)
Counters(e, raise, reopen) ==
  /\ DOMAIN raise = 1..Len(e.cases) /\ DOMAIN reopen = 1..Len(e.cases)
  /\ \A c \in 1..Len(e.cases) : Earned(e.cases[c], raise[c], reopen[c])

CampaignInv ==
  /\ now \in Nat /\ log \in Logs /\ Sensible(engine)
  /\ Cased(engine, log) /\ Coherent(engine, log) /\ Following(engine, log)
  /\ Counters(engine, raised, reopened)

\* The alerts of the cases after one more.
LEMMA CoherentStep ==
  ASSUME NEW e, Sensible(e), NEW entries \in Logs, Cased(e, entries),
         Coherent(e, entries), NEW alert \in Alerts, NEW t \in Nat,
         NEW n, NEW b, NEW g, NEW f, Taken(e, alert, t, n, b, g),
         Ingested(e, alert, n, g, f), NEW new, Extends(entries, alert, n, t, new)
  PROVE  new \in Logs /\ Cased(f, new) /\ Coherent(f, new)
<1> DEFINE len == Len(e.cases)
           k == Len(entries)
<1>1. len \in Nat /\ n \in 1..Len(f.cases) /\ f.cases[n] = g /\ Len(f.cases) \in Nat
      /\ Len(f.cases) = (IF n = len + 1 THEN n ELSE len)
      /\ \A c \in 1..len : c # n => f.cases[c] = e.cases[c]
  BY SensibleParts DEF Ingested
<1>2. g.size = b.size + 1 /\ g.updated = t /\ b.size \in Nat
  <2>1. b \in Case /\ Likely(b) /\ g = Grow(b, alert, t)
    BY DEF Taken
  <2>2. b.size \in Nat
    BY <2>1 DEF Case
  <2>3. GrownTo(b, alert, t, g)
    BY <2>1, GrowIs
  <2>4. QED BY <2>2, <2>3 DEF GrownTo
<1>3. n \in Nat /\ n \in 1..len + 1
  BY <1>1
<1>4. /\ new \in Logs /\ k \in Nat /\ DOMAIN entries = 1..k /\ DOMAIN new = 1..k + 1
      /\ \A i \in 1..k : new[i] = entries[i]
      /\ new[k + 1].case = n /\ new[k + 1].time = t
  BY <1>3, OneMoreEntry
<1>5. Cased(f, new)
  <2>1. \A i \in 1..k : entries[i].case \in 1..len
    BY <1>4 DEF Cased
  <2>2. \A i \in 1..k + 1 : i \in 1..k \/ i = k + 1
    BY <1>4
  <2>3. \A c \in 1..len : c \in 1..Len(f.cases)
    BY <1>1
  <2>4. QED BY <1>1, <1>4, <2>1, <2>2, <2>3 DEF Cased
<1>6. ASSUME NEW c \in 1..Len(f.cases)
      PROVE  Holds(f.cases[c], new, OfCase(new, c))
  <2> DEFINE set == OfCase(entries, c)
  <2>1. /\ OfCase(new, c) = set \union (IF c = n THEN {k + 1} ELSE {})
        /\ set \subseteq 1..k /\ IsFiniteSet(set)
    BY <1>3, OfCaseGrows
  <2>2. CASE c # n
    <3>1. c \in 1..len /\ f.cases[c] = e.cases[c] /\ OfCase(new, c) = set
      BY <1>1, <2>1, <2>2
    <3>2. Holds(e.cases[c], entries, set)
      BY <3>1 DEF Coherent
    <3> HIDE DEF set, k
    <3>3. Close(new, set)
      <4>1. \A i \in set : new[i] = entries[i]
        BY <1>4, <2>1
      <4>2. QED BY <3>2, <4>1 DEF Holds, Close
    <3>4. QED BY <1>4, <2>1, <3>1, <3>2, <3>3 DEF Holds, IsLast
  <2>3. CASE c = n
    <3>1. OfCase(new, c) = set \union {k + 1} /\ k + 1 \notin set
      BY <1>4, <2>1, <2>3
    <3>2. Cardinality(set) = b.size /\ Close(entries, set)
          /\ \A i : IsLast(i, set) => t - entries[i].time <= Window
      <4>1. CASE n \in 1..len /\ b = e.cases[n] /\ t - b.updated <= Window
        <5>1. Holds(b, entries, set)
          BY <2>3, <4>1 DEF Coherent
        <5>2. PICK l : IsLast(l, set) /\ entries[l].time = b.updated
          BY <5>1 DEF Holds
        <5>3. ASSUME NEW i, IsLast(i, set) PROVE i = l
          <6>1. i \in 1..k /\ l \in 1..k /\ i <= l /\ l <= i
            BY <2>1, <5>2, <5>3 DEF IsLast
          <6>2. QED BY <1>4, <6>1
        <5>4. QED BY <4>1, <5>1, <5>2, <5>3 DEF Holds
      <4>2. CASE n = len + 1 /\ b = NewCase(alert.src, t)
        <5>1. set = {}
          BY <1>1, <1>4, <2>3, <4>2 DEF OfCase, Cased
        <5>2. b.size = 0
          BY <4>2 DEF NewCase
        <5>3. QED BY <5>1, <5>2, FS_EmptySet DEF Close, IsLast
      <4>3. QED BY <4>1, <4>2 DEF Taken
    <3> HIDE DEF set, k
    <3>3. Cardinality(set \union {k + 1}) = b.size + 1
      BY <2>1, <3>1, <3>2, FS_AddElement
    <3>4. Close(new, set \union {k + 1})
      <4>1. \A i : IsLast(i, set) => new[k + 1].time - entries[i].time <= Window
        BY <1>4, <3>2
      <4>2. set \in SUBSET (1..k) /\ \A i \in 1..k : new[i] = entries[i]
        BY <1>4, <2>1
      <4>3. QED BY <1>4, <3>2, <4>1, <4>2, CloseGrows
    <3>5. IsLast(k + 1, set \union {k + 1})
      <4>1. \A j \in set : j <= k + 1
        BY <1>4, <2>1
      <4>2. QED BY <1>4, <4>1 DEF IsLast
    <3>6. QED BY <1>1, <1>2, <1>4, <2>3, <3>1, <3>3, <3>4, <3>5 DEF Holds
  <2>4. QED BY <2>2, <2>3
<1>7. QED BY <1>4, <1>5, <1>6 DEF Coherent

LEMMA FollowingStep ==
  ASSUME NEW e, Sensible(e), NEW entries \in Logs,
         Following(e, entries), NEW alert \in Alerts, NEW t \in Nat,
         NEW n, NEW b, NEW g, NEW f, Taken(e, alert, t, n, b, g),
         Ingested(e, alert, n, g, f), NEW new, Extends(entries, alert, n, t, new)
  PROVE  Following(f, new)
<1> DEFINE len == Len(e.cases)
           k == Len(entries)
<1>1. len \in Nat /\ n \in 1..Len(f.cases) /\ f.cases[n] = g /\ Len(f.cases) \in Nat
      /\ Len(f.cases) = (IF n = len + 1 THEN n ELSE len)
      /\ \A c \in 1..len : c # n => f.cases[c] = e.cases[c]
  BY SensibleParts DEF Ingested
<1>2. ASSUME NEW a \in Assets
      PROVE  /\ a \in {alert.src, alert.dst} => f.caseOf[a] = n
             /\ a \notin {alert.src, alert.dst} => f.caseOf[a] = e.caseOf[a]
  BY DEF Ingested
<1>3. /\ g.assets = b.assets \union ({alert.src, alert.dst} \ {NoAsset})
      /\ n \in 1..len => b = e.cases[n]
  <2>1. b \in Case /\ Likely(b) /\ g = Grow(b, alert, t)
    BY DEF Taken
  <2>2. n \in 1..len => b = e.cases[n]
    BY <1>1 DEF Taken
  <2>3. GrownTo(b, alert, t, g)
    BY <2>1, GrowIs
  <2>4. QED BY <2>2, <2>3 DEF GrownTo
<1>4. n \in Nat /\ \A c \in 1..len : c \in 1..Len(f.cases)
  BY <1>1
<1>5. /\ k \in Nat /\ \A i \in 1..k : new[i] = entries[i]
      /\ new[k + 1].case = n
  BY <1>4, OneMoreEntry
<1>6. ASSUME NEW a \in Assets PROVE Follows(f, a, new)
  <2> DEFINE mine == Naming(entries, a)
  <2>1. /\ Naming(new, a) = mine \union (IF a \in {alert.src, alert.dst} THEN {k + 1} ELSE {})
        /\ mine \subseteq 1..k
    BY <1>4, NamingGrows
  <2>2. Follows(e, a, entries)
    BY DEF Following
  <2> HIDE DEF mine, k
  <2>3. CASE a \in {alert.src, alert.dst}
    <3>1. f.caseOf[a] = n
      BY <1>2, <2>3
    <3>2. Naming(new, a) = mine \union {k + 1} /\ f.caseOf[a] = n
      BY <2>1, <2>3, <3>1
    <3>3. IsLast(k + 1, Naming(new, a))
      <4>1. \A j \in mine : j <= k + 1
        BY <1>5, <2>1
      <4>2. QED BY <1>5, <3>2, <4>1 DEF IsLast
    <3>4. a \in g.assets
      BY <1>3, <2>3, NoAssetIsNone
    <3>5. QED BY <1>1, <1>5, <3>2, <3>3, <3>4 DEF Follows, IsLast
  <2>4. CASE a \notin {alert.src, alert.dst}
    <3>1. f.caseOf[a] = e.caseOf[a]
      BY <1>2, <2>4
    <3>2. Naming(new, a) = mine /\ f.caseOf[a] = e.caseOf[a]
      BY <2>1, <2>4, <3>1
    <3>3. CASE mine = {}
      BY <2>2, <3>2, <3>3 DEF Follows, mine
    <3>4. CASE mine # {}
      <4>1. PICK i : /\ IsLast(i, mine) /\ e.caseOf[a] = entries[i].case
                     /\ e.caseOf[a] \in 1..len /\ a \in e.cases[e.caseOf[a]].assets
        BY <2>2, <3>4 DEF Follows, mine
      <4>2. new[i] = entries[i]
        BY <1>5, <2>1, <4>1 DEF IsLast
      <4>3. a \in f.cases[e.caseOf[a]].assets
        <5>1. CASE e.caseOf[a] = n
          BY <1>1, <1>3, <4>1, <5>1
        <5>2. CASE e.caseOf[a] # n
          BY <1>1, <4>1, <5>2
        <5>3. QED BY <5>1, <5>2
      <4>4. e.caseOf[a] \in 1..Len(f.cases)
        BY <1>4, <4>1
      <4>5. QED BY <3>2, <3>4, <4>1, <4>2, <4>3, <4>4 DEF Follows
    <3>5. QED BY <3>3, <3>4
  <2>5. QED BY <2>3, <2>4
<1>7. QED BY <1>6 DEF Following
-----------------------------------------------------------------------------
(* The steps *)

LEMMA ConfirmedGrows ==
  ASSUME NEW c \in Case, NEW g \in Case, Likely(g), Grows(c, g), Confirmed(c)
  PROVE  Confirmed(g)
<1>1. /\ c.stages \subseteq g.stages /\ IsFiniteSet(g.stages) /\ g.prob >= c.prob
      /\ Cardinality(c.stages) >= 2 /\ c.prob >= 8500
  BY DEF Grows, Likely, Confirmed
<1>2. c.prob \in Nat /\ g.prob \in Nat
  BY DEF Case
<1>3. /\ IsFiniteSet(c.stages) /\ Cardinality(c.stages) <= Cardinality(g.stages)
  BY <1>1, FS_Subset
<1>4. Cardinality(c.stages) \in Nat /\ Cardinality(g.stages) \in Nat
  BY <1>1, <1>3, FS_CardinalityType
<1>5. QED BY <1>1, <1>2, <1>3, <1>4 DEF Confirmed

\* The consolidated alerts after one more alert.
LEMMA EarnedStep ==
  ASSUME NEW b \in Case, NEW alert, NEW t, NEW g, GrownTo(b, alert, t, g),
         NEW raise, NEW reopen, Earned(b, raise, reopen), NEW more,
         more = IF Escalates([g EXCEPT !.status = b.status]) THEN 1 ELSE 0
  PROVE  Earned(g, raise + more, reopen)
<1>1. raise \in Nat /\ reopen \in Nat
  BY DEF Earned
<1>2. CASE Escalates([g EXCEPT !.status = b.status])
  <2>1. g.status = "ESCALATED" /\ b.status # "ESCALATED" /\ Confirmed(g)
    BY <1>2 DEF GrownTo
  <2>2. more = 1
    BY <1>2
  <2>3. QED BY <1>1, <2>1, <2>2 DEF Earned
<1>3. CASE ~Escalates([g EXCEPT !.status = b.status])
  <2>1. g.status = b.status /\ g \in Case /\ Likely(g) /\ Grows(b, g)
    BY <1>3 DEF GrownTo
  <2>2. raise > 0 => Confirmed(g)
    BY <2>1, ConfirmedGrows DEF Earned
  <2>3. more = 0 /\ raise + more = raise
    BY <1>1, <1>3
  <2>4. QED BY <1>1, <2>1, <2>2, <2>3 DEF Earned
<1>4. QED BY <1>2, <1>3

More(b, g, more) ==
  more = IF Escalates([g EXCEPT !.status = b.status]) THEN 1 ELSE 0
Recounted(f, n, more, raise, reopen, raise1, reopen1) ==
  /\ raise1 = [c \in 1..Len(f.cases) |-> At(raise, c) + IF c = n THEN more ELSE 0]
  /\ reopen1 = [c \in 1..Len(f.cases) |-> At(reopen, c)]

LEMMA CountersStep ==
  ASSUME NEW e, Sensible(e), NEW raise, NEW reopen, Counters(e, raise, reopen),
         NEW alert \in Alerts, NEW t \in Nat,
         NEW n, NEW b, NEW g, NEW f, Taken(e, alert, t, n, b, g),
         Ingested(e, alert, n, g, f), NEW more, More(b, g, more),
         NEW raise1, NEW reopen1, Recounted(f, n, more, raise, reopen, raise1, reopen1)
  PROVE  Counters(f, raise1, reopen1)
<1> DEFINE len == Len(e.cases)
<1>1. /\ len \in Nat /\ n \in 1..Len(f.cases) /\ f.cases[n] = g /\ Len(f.cases) \in Nat
      /\ Len(f.cases) = (IF n = len + 1 THEN n ELSE len)
      /\ \A c \in 1..len : c # n => f.cases[c] = e.cases[c]
  BY SensibleParts DEF Ingested
<1>2. GrownTo(b, alert, t, g) /\ b \in Case
  <2>1. b \in Case /\ Likely(b) /\ g = Grow(b, alert, t)
    BY DEF Taken
  <2>2. QED BY <2>1, GrowIs
<1>3. /\ DOMAIN raise = 1..len /\ DOMAIN reopen = 1..len
      /\ \A c \in 1..len : Earned(e.cases[c], raise[c], reopen[c])
  BY DEF Counters
<1>4. ASSUME NEW c \in 1..Len(f.cases)
      PROVE  Earned(f.cases[c], raise1[c], reopen1[c])
  <2>1. CASE c # n
    <3>1. c \in 1..len /\ f.cases[c] = e.cases[c]
      BY <1>1, <2>1
    <3>2. Earned(e.cases[c], raise[c], reopen[c])
      BY <1>3, <3>1
    <3>3. raise[c] \in Nat /\ At(raise, c) = raise[c] /\ At(reopen, c) = reopen[c]
      BY <1>3, <3>1, <3>2 DEF At, Earned
    <3>4. raise1[c] = raise[c] /\ reopen1[c] = reopen[c]
      BY <2>1, <3>3 DEF Recounted
    <3>5. QED BY <3>1, <3>2, <3>4
  <2>2. CASE c = n
    <3>1. Earned(b, At(raise, c), At(reopen, c))
      <4>1. CASE n \in 1..len /\ b = e.cases[n]
        BY <1>3, <2>2, <4>1 DEF At
      <4>2. CASE n = len + 1 /\ b = NewCase(alert.src, t)
        <5>1. At(raise, c) = 0 /\ At(reopen, c) = 0
          BY <1>1, <1>3, <2>2, <4>2 DEF At
        <5>2. b.status = "ACTIVE"
          BY <4>2 DEF NewCase
        <5>3. QED BY <5>1, <5>2 DEF Earned
      <4>3. QED BY <4>1, <4>2 DEF Taken
    <3>2. PICK x, y : x = At(raise, c) /\ y = At(reopen, c)
      OBVIOUS
    <3>3. Earned(g, x + more, y)
      BY <1>2, <3>1, <3>2, EarnedStep DEF More
    <3>4. raise1[c] = x + more /\ reopen1[c] = y
      BY <2>2, <3>2 DEF Recounted
    <3>5. QED BY <1>1, <2>2, <3>3, <3>4
  <2>3. QED BY <2>1, <2>2
<1>5. DOMAIN raise1 = 1..Len(f.cases) /\ DOMAIN reopen1 = 1..Len(f.cases)
  BY DEF Recounted
<1>6. QED BY <1>4, <1>5 DEF Counters

\* What no step takes from a case.
Kept(e, f) == /\ Len(e.cases) <= Len(f.cases)
              /\ \A c \in 1..Len(e.cases) : Grows(e.cases[c], f.cases[c])

LEMMA KeptByIngest ==
  ASSUME NEW e, Sensible(e), NEW alert \in Alerts, NEW t \in Nat,
         NEW n, NEW b, NEW g, NEW f, Taken(e, alert, t, n, b, g),
         Ingested(e, alert, n, g, f)
  PROVE  Kept(e, f)
<1> DEFINE len == Len(e.cases)
<1>1. /\ len \in Nat /\ n \in 1..Len(f.cases) /\ f.cases[n] = g /\ Len(f.cases) \in Nat
      /\ Len(f.cases) = (IF n = len + 1 THEN n ELSE len)
      /\ \A c \in 1..len : c # n => f.cases[c] = e.cases[c]
      /\ \A c \in 1..len : e.cases[c] \in Case
  BY SensibleParts DEF Ingested
<1>2. Grows(b, g) /\ (n \in 1..len => b = e.cases[n])
  <2>1. b \in Case /\ Likely(b) /\ g = Grow(b, alert, t)
    BY DEF Taken
  <2>2. n \in 1..len => b = e.cases[n]
    BY <1>1 DEF Taken
  <2>3. GrownTo(b, alert, t, g)
    BY <2>1, GrowIs
  <2>4. QED BY <2>2, <2>3 DEF GrownTo
<1>3. len <= Len(f.cases)
  BY <1>1
<1>4. ASSUME NEW c \in 1..len PROVE Grows(e.cases[c], f.cases[c])
  <2>1. CASE c = n
    BY <1>1, <1>2, <2>1
  <2>2. CASE c # n
    <3>1. f.cases[c] = e.cases[c]
      BY <1>1, <2>2
    <3>2. e.cases[c].prob \in Nat
      <4>1. e.cases[c] \in Case
        BY SensibleParts
      <4>2. QED BY <4>1 DEF Case
    <3>3. QED BY <3>1, <3>2 DEF Grows
  <2>3. QED BY <2>1, <2>2
<1>5. QED BY <1>3, <1>4 DEF Kept

LEMMA IngestStep ==
  ASSUME CampaignInv, NEW alert \in Alerts, IngestAlert(alert)
  PROVE  CampaignInv' /\ Kept(engine, engine')
<1>1. PICK e, t, entries, raise, reopen, r :
        /\ e = engine /\ t = now /\ entries = log /\ raise = raised /\ reopen = reopened
        /\ r = Ingest(e, alert, t)
  OBVIOUS
<1>2. /\ t \in Nat /\ entries \in Logs /\ Sensible(e) /\ Cased(e, entries)
      /\ Coherent(e, entries) /\ Following(e, entries) /\ Counters(e, raise, reopen)
  BY <1>1 DEF CampaignInv
<1>3. PICK f, n, more : f = r.engine /\ n = r.case /\ more = Len(r.escalated)
  OBVIOUS
<1>4. /\ engine' = f /\ now' = t
      /\ log' = Append(entries, [alert |-> alert, case |-> n, time |-> t])
      /\ raised' = [c \in 1..Len(f.cases) |-> At(raise, c) + IF c = n THEN more ELSE 0]
      /\ reopened' = [c \in 1..Len(f.cases) |-> At(reopen, c)]
  BY <1>1, <1>3 DEF IngestAlert
<1>5. PICK b, g : /\ Taken(e, alert, t, n, b, g) /\ Ingested(e, alert, n, g, f)
                  /\ more = IF Escalates([g EXCEPT !.status = b.status]) THEN 1 ELSE 0
  <2>1. Ingesting(e, alert, t, r)
    BY <1>1 DEF Ingesting
  <2>2. QED BY <1>2, <1>3, <2>1, IngestIs
<1>6. PICK new : new = log' /\ Extends(entries, alert, n, t, new)
  BY <1>4 DEF Extends
<1>7. new \in Logs /\ Cased(f, new) /\ Coherent(f, new)
  BY <1>2, <1>5, <1>6, CoherentStep
<1>8. Following(f, new)
  BY <1>2, <1>5, <1>6, FollowingStep
<1>9. PICK raise1, reopen1 : raise1 = raised' /\ reopen1 = reopened'
  OBVIOUS
<1>10. Counters(f, raise1, reopen1)
  <2>1. Recounted(f, n, more, raise, reopen, raise1, reopen1)
    BY <1>4, <1>9 DEF Recounted
  <2>2. More(b, g, more)
    BY <1>5 DEF More
  <2>3. QED BY <1>2, <1>5, <2>1, <2>2, CountersStep
<1>11. Sensible(f)
  BY <1>5 DEF Ingested
<1>12. Kept(e, f)
  BY <1>2, <1>5, KeptByIngest
<1>13. CampaignInv'
  BY <1>2, <1>4, <1>6, <1>7, <1>8, <1>9, <1>10, <1>11
  DEF CampaignInv, Sensible, Cased, Coherent, Following, Follows, Counters
<1>14. QED BY <1>1, <1>4, <1>12, <1>13
-----------------------------------------------------------------------------

\* What an analyst changes.
Restatused(e, c, status, f) == f = [e EXCEPT !.cases[c].status = status]

LEMMA RestatusedIs ==
  ASSUME NEW e, Sensible(e), NEW c \in 1..Len(e.cases), NEW status \in Statuses,
         NEW f, Restatused(e, c, status, f)
  PROVE  /\ Sensible(f) /\ f.caseOf = e.caseOf /\ Len(f.cases) = Len(e.cases)
         /\ SameButStatus(e.cases[c], status, f.cases[c])
         /\ \A d \in 1..Len(e.cases) : d # c => f.cases[d] = e.cases[d]
<1>1. /\ e.cases \in Seq(Case) /\ Len(e.cases) \in Nat /\ e.caseOf \in [Assets -> Nat]
      /\ \A d \in 1..Len(e.cases) : Likely(e.cases[d])
      /\ \A a \in Assets : e.caseOf[a] <= Len(e.cases)
  BY SensibleParts DEF Sensible
<1>2. PICK b \in Case : b = e.cases[c]
  <2> HIDE DEF Case
  <2>1. QED BY <1>1
<1>3. PICK g : g = WithStatus(b, status) /\ SameButStatus(b, status, g) /\ g \in Case
  BY StatusReplaced DEF SameButStatus
<1>4. PICK cases : cases = [e.cases EXCEPT ![c] = g]
  OBVIOUS
<1>5. f = [cases |-> cases, caseOf |-> e.caseOf]
  <2>1. e = [cases |-> e.cases, caseOf |-> e.caseOf]
    BY DEF Sensible, Engines
  <2>2. f = [e EXCEPT !.cases = [e.cases EXCEPT ![c] = [e.cases[c] EXCEPT !.status = status]]]
    BY DEF Restatused
  <2>3. [e.cases[c] EXCEPT !.status = status] = g
    BY <1>2, <1>3 DEF WithStatus
  <2>4. f = [e EXCEPT !.cases = cases]
    BY <1>4, <2>2, <2>3
  <2>5. QED BY <2>1, <2>4
<1>6. /\ cases \in Seq(Case) /\ Len(cases) = Len(e.cases) /\ cases[c] = g
      /\ \A d \in 1..Len(e.cases) : d # c => cases[d] = e.cases[d]
  <2> HIDE DEF Case
  <2>1. QED BY <1>1, <1>3, <1>4
<1>7. f.cases = cases /\ f.caseOf = e.caseOf
  BY <1>5
<1>8. Likely(g)
  BY <1>1, <1>2, <1>3 DEF SameButStatus, Likely
<1>9. \A d \in 1..Len(cases) : Likely(cases[d])
  BY <1>1, <1>6, <1>8
<1>10. f \in Engines
  BY <1>1, <1>5, <1>6 DEF Engines
<1>11. Sensible(f)
  BY <1>1, <1>6, <1>7, <1>9, <1>10 DEF Sensible
<1>12. QED BY <1>2, <1>3, <1>6, <1>7, <1>11

LEMMA UpdateStep ==
  ASSUME CampaignInv, NEW c \in DOMAIN engine.cases, NEW status \in Statuses,
         UpdateStatus(c, status)
  PROVE  CampaignInv' /\ Kept(engine, engine')
<1>1. PICK e, f, entries, raise, reopen, reopen1 :
        /\ e = engine /\ f = engine' /\ entries = log /\ raise = raised
        /\ reopen = reopened /\ reopen1 = reopened'
  OBVIOUS
<1>2. /\ now \in Nat /\ entries \in Logs /\ Sensible(e) /\ Cased(e, entries)
      /\ Coherent(e, entries) /\ Following(e, entries) /\ Counters(e, raise, reopen)
  BY <1>1 DEF CampaignInv
<1>3. /\ Restatused(e, c, status, f) /\ reopen1 = [reopen EXCEPT ![c] = reopen[c] + 1]
      /\ now' = now /\ log' = entries /\ raised' = raise
  BY <1>1 DEF UpdateStatus, Restatused
<1>4. c \in 1..Len(e.cases)
  BY <1>1, <1>2, SensibleParts
<1>5. /\ Sensible(f) /\ f.caseOf = e.caseOf /\ Len(f.cases) = Len(e.cases)
      /\ SameButStatus(e.cases[c], status, f.cases[c])
      /\ \A d \in 1..Len(e.cases) : d # c => f.cases[d] = e.cases[d]
  BY <1>2, <1>3, <1>4, RestatusedIs
<1>6. ASSUME NEW d \in 1..Len(e.cases)
      PROVE  LET b == e.cases[d]
                 g == f.cases[d]
             IN  /\ g.stages = b.stages /\ g.assets = b.assets /\ g.prob = b.prob
                 /\ g.size = b.size /\ g.updated = b.updated /\ b.prob \in Nat
  <2>1. e.cases[d] \in Case
    BY <1>2, SensibleParts
  <2>2. e.cases[d].prob \in Nat
    BY <2>1 DEF Case
  <2>3. CASE d = c
    BY <1>5, <2>2, <2>3 DEF SameButStatus
  <2>4. CASE d # c
    BY <1>5, <2>2, <2>4
  <2>5. QED BY <2>3, <2>4
<1>7. Cased(f, entries)
  BY <1>2, <1>5 DEF Cased
<1>8. Coherent(f, entries)
  BY <1>2, <1>5, <1>6 DEF Coherent, Holds
<1>9. Following(f, entries)
  <2>1. ASSUME NEW a \in Assets PROVE Follows(f, a, entries)
    <3>1. Follows(e, a, entries)
      BY <1>2 DEF Following
    <3>2. QED BY <1>5, <1>6, <3>1 DEF Follows
  <2>2. QED BY <2>1 DEF Following
<1>10. Counters(f, raise, reopen1)
  <2>1. /\ DOMAIN raise = 1..Len(e.cases) /\ DOMAIN reopen = 1..Len(e.cases)
        /\ \A d \in 1..Len(e.cases) : Earned(e.cases[d], raise[d], reopen[d])
    BY <1>2 DEF Counters
  <2>2. ASSUME NEW d \in 1..Len(e.cases) PROVE Earned(f.cases[d], raise[d], reopen1[d])
    <3>1. Earned(e.cases[d], raise[d], reopen[d])
      BY <2>1
    <3>2. Confirmed(f.cases[d]) <=> Confirmed(e.cases[d])
      BY <1>6 DEF Confirmed
    <3>3. CASE d = c
      <4>1. reopen[d] \in Nat /\ reopen1[d] = reopen[d] + 1
        BY <1>3, <2>1, <3>1, <3>3 DEF Earned
      <4>2. reopen1[d] \in Nat /\ reopen1[d] # 0
        BY <4>1
      <4>3. QED BY <3>1, <3>2, <4>2 DEF Earned
    <3>4. CASE d # c
      <4>1. reopen1[d] = reopen[d] /\ f.cases[d] = e.cases[d]
        BY <1>3, <1>5, <2>1, <3>4
      <4>2. QED BY <3>1, <4>1
    <3>5. QED BY <3>3, <3>4
  <2>3. DOMAIN reopen1 = DOMAIN reopen
    BY <1>3
  <2>4. QED BY <1>5, <2>1, <2>2, <2>3 DEF Counters
<1>11. CampaignInv'
  BY <1>1, <1>2, <1>3, <1>5, <1>7, <1>8, <1>9, <1>10
  DEF CampaignInv, Sensible, Cased, Coherent, Following, Follows, Counters
<1>12. Kept(e, f)
  <2>1. Len(e.cases) <= Len(f.cases)
    BY <1>2, <1>5, SensibleParts
  <2>2. \A d \in 1..Len(e.cases) : Grows(e.cases[d], f.cases[d])
    BY <1>6 DEF Grows
  <2>3. QED BY <2>1, <2>2 DEF Kept
<1>13. QED BY <1>1, <1>11, <1>12

LEMMA NothingKept == ASSUME NEW e, Sensible(e) PROVE Kept(e, e)
<1>1. Len(e.cases) \in Nat /\ \A c \in 1..Len(e.cases) : e.cases[c] \in Case
  BY SensibleParts
<1>2. \A c \in 1..Len(e.cases) : e.cases[c].prob \in Nat
  BY <1>1 DEF Case
<1>3. QED BY <1>1, <1>2 DEF Kept, Grows

LEMMA CampaignStep ==
  ASSUME CampaignInv, [Next]_vars
  PROVE  CampaignInv' /\ Kept(engine, engine')
<1>1. CASE \E alert \in Alerts : IngestAlert(alert)
  BY <1>1, IngestStep
<1>2. CASE Advance \/ UNCHANGED vars
  <2>1. /\ engine' = engine /\ log' = log /\ raised' = raised /\ reopened' = reopened
        /\ now \in Nat /\ now' \in Nat
    BY <1>2 DEF Advance, vars, CampaignInv
  <2>2. CampaignInv'
    BY <2>1 DEF CampaignInv, Sensible, Cased, Coherent, Following, Follows, Counters
  <2>3. Kept(engine, engine)
    BY NothingKept DEF CampaignInv
  <2>4. QED BY <2>1, <2>2, <2>3
<1>3. CASE \E c \in DOMAIN engine.cases, s \in {"CONTAINED", "ESCALATED"} :
             UpdateStatus(c, s)
  <2>1. {"CONTAINED", "ESCALATED"} \subseteq Statuses
    BY DEF Statuses
  <2>2. QED BY <1>3, <2>1, UpdateStep
<1>4. QED BY <1>1, <1>2, <1>3 DEF Next

LEMMA InitialCampaign == Init => CampaignInv
<1> SUFFICES ASSUME Init PROVE CampaignInv
  OBVIOUS
<1> USE DEF Init, NoEngine
<1>1. engine.cases = <<>> /\ engine.caseOf = [a \in Assets |-> 0] /\ Len(engine.cases) = 0
  OBVIOUS
<1>2. Sensible(engine)
  <2>1. <<>> \in Seq(Case) /\ [a \in Assets |-> 0] \in [Assets -> Nat]
    OBVIOUS
  <2>2. engine \in Engines
    BY <2>1 DEF Engines
  <2>3. QED BY <1>1, <2>2 DEF Sensible
<1>3. log \in Logs /\ now \in Nat
  BY DEF Logs
<1>4. Cased(engine, log) /\ Coherent(engine, log) /\ Counters(engine, raised, reopened)
  BY <1>1 DEF Cased, Coherent, Counters
<1>5. Following(engine, log)
  BY <1>1 DEF Following, Follows, Naming
<1>6. QED BY <1>2, <1>3, <1>4, <1>5 DEF CampaignInv

LEMMA CampaignInvIsEnough == CampaignInv => CasesMatchHistory
<1> SUFFICES ASSUME CampaignInv PROVE CasesMatchHistory
  OBVIOUS
<1>1. /\ log \in Logs /\ Sensible(engine) /\ Coherent(engine, log)
      /\ Following(engine, log) /\ Counters(engine, raised, reopened)
  BY DEF CampaignInv
<1>2. /\ Cases = 1..Len(engine.cases)
      /\ \A c \in Cases : engine.cases[c] \in Case /\ Likely(engine.cases[c])
  BY <1>1, SensibleParts DEF Cases
<1>3. EscalationNeedsEvidence
  <2> SUFFICES ASSUME NEW c \in Cases
               PROVE  /\ raised[c] > 0 => /\ Cardinality(engine.cases[c].stages) >= 2
                                          /\ engine.cases[c].size >= 2
                                          /\ engine.cases[c].prob >= 8500
                      /\ engine.cases[c].status = "ESCALATED" /\ reopened[c] = 0
                           => raised[c] = 1
    BY DEF EscalationNeedsEvidence
  <2>1. PICK b : b = engine.cases[c] /\ b \in Case /\ Likely(b)
    BY <1>2
  <2>2. Earned(b, raised[c], reopened[c])
    BY <1>1, <1>2, <2>1 DEF Counters
  <2>3. Cardinality(b.stages) \in Nat /\ b.size \in Nat /\ Cardinality(b.stages) <= b.size
    BY <2>1, FS_CardinalityType DEF Likely, Case
  <2>4. Confirmed(b) => Cardinality(b.stages) >= 2 /\ b.size >= 2 /\ b.prob >= 8500
    BY <2>3 DEF Confirmed
  <2>5. QED BY <2>1, <2>2, <2>4 DEF Earned
<1>4. CasesAreCoherent
  <2>1. \A c : LogOf(c) = OfCase(log, c)
    BY DEF LogOf, OfCase
  <2>2. ASSUME NEW c \in Cases
        PROVE  /\ Cardinality(OfCase(log, c)) = engine.cases[c].size
               /\ Close(log, OfCase(log, c))
    BY <1>1, <1>2 DEF Coherent, Holds
  <2>3. QED BY <2>1, <2>2 DEF CasesAreCoherent, Close
<1>5. AssetsFollowLastAlert
  <2> SUFFICES ASSUME NEW a \in Assets
               PROVE  LET mine == Naming(log, a)
                          last == CHOOSE i \in mine : \A j \in mine : j <= i
                      IN  IF mine = {} THEN engine.caseOf[a] = 0
                          ELSE /\ engine.caseOf[a] = log[last].case
                               /\ a \in engine.cases[engine.caseOf[a]].assets
    BY DEF AssetsFollowLastAlert, Naming
  <2> DEFINE mine == Naming(log, a)
             last == CHOOSE i \in mine : \A j \in mine : j <= i
  <2>1. Follows(engine, a, log)
    BY <1>1 DEF Following
  <2>2. CASE mine # {}
    <3>1. PICK i : /\ IsLast(i, mine) /\ engine.caseOf[a] = log[i].case
                   /\ a \in engine.cases[engine.caseOf[a]].assets
      BY <2>1, <2>2 DEF Follows
    <3>2. last = i
      <4> HIDE DEF mine
      <4>1. last \in mine /\ \A j \in mine : j <= last
        BY <3>1 DEF IsLast
      <4>2. i \in Nat /\ last \in Nat
        <5>1. mine \subseteq DOMAIN log /\ DOMAIN log = 1..Len(log)
          BY <1>1 DEF mine, Naming, Logs
        <5>2. QED BY <3>1, <4>1, <5>1 DEF IsLast
      <4>3. QED BY <3>1, <4>1, <4>2 DEF IsLast
    <3>3. QED BY <2>2, <3>1, <3>2
  <2>3. CASE mine = {}
    BY <2>1, <2>3 DEF Follows
  <2>4. QED BY <2>2, <2>3
<1>6. QED BY <1>3, <1>4, <1>5 DEF CasesMatchHistory

(***************************************************************************)
(* CasesMatchHistory, for any alerts, assets and window, and however many  *)
(* alerts come, whenever, whatever statuses analysts set in between.       *)
(***************************************************************************)
THEOREM CasesAlwaysMatch == Spec => []CasesMatchHistory
<1>1. CampaignInv /\ [Next]_vars => CampaignInv'
  BY CampaignStep
<1>2. QED BY InitialCampaign, CampaignInvIsEnough, <1>1, PTL DEF Spec

(***************************************************************************)
(* EvidenceGrows: by the odds form of Bayes' rule with a likelihood ratio  *)
(* of 3/2 or more (weight 1.5 and no bonus), rounded to four digits, no    *)
(* alert makes a case less likely; and nothing leaves its stages or        *)
(* assets.                                                                 *)
(***************************************************************************)
THEOREM EvidenceAlwaysGrows == Spec => EvidenceGrows
<1>1. CampaignInv /\ [Next]_vars => CampaignInv'
  BY CampaignStep
<1>2. CampaignInv /\ [Next]_vars =>
        [\A c \in Cases : /\ engine'.cases[c].prob >= engine.cases[c].prob
                          /\ engine.cases[c].stages \subseteq engine'.cases[c].stages
                          /\ engine.cases[c].assets \subseteq engine'.cases[c].assets]_vars
  <2> SUFFICES ASSUME CampaignInv, [Next]_vars, NEW c \in Cases
               PROVE  Grows(engine.cases[c], engine'.cases[c])
    BY DEF Grows
  <2>1. Kept(engine, engine')
    BY CampaignStep
  <2>2. Cases = 1..Len(engine.cases)
    BY SensibleParts DEF Cases, CampaignInv
  <2>3. QED BY <2>1, <2>2 DEF Kept
<1>3. QED BY InitialCampaign, <1>1, <1>2, PTL DEF Spec, EvidenceGrows

-----------------------------------------------------------------------------
(***************************************************************************)
(* IntelGraph's filter, for any addresses, feeds, seeds and hashes into    *)
(* slots, and any limit of a counter.  A slot's load is how often the      *)
(* addresses of the table hash to it.  The invariant says that a counter   *)
(* that was never at its limit is at least its load, and, while no counter *)
(* was ever at its limit, exactly its load.  An addition raises the        *)
(* counters of an address one after the other, a removal lowers them: both *)
(* loops are followed by induction.                                        *)
(***************************************************************************)

Intels ==
  [counters : [Slots -> Nat], items : Nat, table : SUBSET Hosts, full : SUBSET Slots]

\* d is c with other counters, of which more may have been at their limit.
SameTable(c, d) ==
  /\ d \in Intels /\ d.items = c.items /\ d.table = c.table /\ c.full \subseteq d.full

\* What the counters that were never at their limit have gained, or lost.
Gained(c, d, by) == \A s \in Slots \ d.full : d.counters[s] = c.counters[s] + by[s]
Lost(c, d, by) ==
  \A s \in Slots : d.counters[s] = IF c.counters[s] >= by[s] THEN c.counters[s] - by[s] ELSE 0

LEMMA FilterParts ==
  ASSUME NEW c \in Intels
  PROVE  /\ c.counters \in [Slots -> Nat] /\ c.items \in Nat
         /\ c.table \subseteq Hosts /\ c.full \subseteq Slots
         /\ c = [counters |-> c.counters, items |-> c.items, table |-> c.table, full |-> c.full]
  BY DEF Intels

LEMMA UpIs ==
  ASSUME NEW c \in Intels, NEW slot \in Slots, NEW d, d = Up(c, slot)
  PROVE  /\ SameTable(c, d)
         /\ Gained(c, d, [s \in Slots |-> IF s = slot THEN 1 ELSE 0])
<1>1. PICK counters \in [Slots -> Nat], items \in Nat, table \in SUBSET Hosts, full \in SUBSET Slots :
        c = [counters |-> counters, items |-> items, table |-> table, full |-> full]
  BY FilterParts
<1>2. /\ c.counters = counters /\ c.items = items /\ c.table = table /\ c.full = full
  BY <1>1
<1>3. CASE counters[slot] < CounterMax
  <2>1. d = [c EXCEPT !.counters[slot] = @ + 1]
    BY <1>2, <1>3 DEF Up
  <2>2. PICK more : more = [counters EXCEPT ![slot] = @ + 1]
    OBVIOUS
  <2>3. d = [counters |-> more, items |-> items, table |-> table, full |-> full]
    BY <1>1, <2>1, <2>2
  <2>4. more \in [Slots -> Nat]
    BY <2>2
  <2>5. d \in Intels
    BY <2>3, <2>4 DEF Intels
  <2>6. \A s \in Slots : more[s] = counters[s] + (IF s = slot THEN 1 ELSE 0)
    BY <2>2
  <2>7. d.counters = more /\ d.items = items /\ d.table = table /\ d.full = full
    BY <2>3
  <2>8. QED BY <1>2, <2>5, <2>6, <2>7 DEF SameTable, Gained
<1>4. CASE ~(counters[slot] < CounterMax)
  <2>1. d = [c EXCEPT !.full = @ \cup {slot}]
    BY <1>2, <1>4 DEF Up
  <2>2. d = [counters |-> counters, items |-> items, table |-> table, full |-> full \cup {slot}]
    BY <1>1, <2>1
  <2>3. d \in Intels
    BY <2>2 DEF Intels
  <2>4. /\ d.counters = counters /\ d.items = items /\ d.table = table
        /\ d.full = full \cup {slot}
    BY <2>2
  <2>5. \A s \in Slots \ d.full : s # slot /\ counters[s] = counters[s] + 0
    BY <2>4
  <2>6. QED BY <1>2, <2>3, <2>4, <2>5 DEF SameTable, Gained
<1>5. QED BY <1>3, <1>4

LEMMA DownIs ==
  ASSUME NEW c \in Intels, NEW slot \in Slots, NEW d, d = Down(c, slot)
  PROVE  /\ SameTable(c, d) /\ d.full = c.full
         /\ Lost(c, d, [s \in Slots |-> IF s = slot THEN 1 ELSE 0])
<1>1. PICK counters \in [Slots -> Nat], items \in Nat, table \in SUBSET Hosts, full \in SUBSET Slots :
        c = [counters |-> counters, items |-> items, table |-> table, full |-> full]
  BY FilterParts
<1>2. /\ c.counters = counters /\ c.items = items /\ c.table = table /\ c.full = full
  BY <1>1
<1>3. CASE counters[slot] > 0
  <2>1. d = [c EXCEPT !.counters[slot] = @ - 1]
    BY <1>2, <1>3 DEF Down
  <2>2. PICK less : less = [counters EXCEPT ![slot] = @ - 1]
    OBVIOUS
  <2>3. d = [counters |-> less, items |-> items, table |-> table, full |-> full]
    BY <1>1, <2>1, <2>2
  <2>4. less \in [Slots -> Nat]
    BY <1>3, <2>2
  <2>5. d \in Intels
    BY <2>3, <2>4 DEF Intels
  <2>6. \A s \in Slots : less[s] = IF s = slot THEN counters[s] - 1 ELSE counters[s]
    BY <2>2
  <2>7. d.counters = less /\ d.items = items /\ d.table = table /\ d.full = full
    BY <2>3
  <2>8. \A s \in Slots : counters[s] \in Nat
    OBVIOUS
  <2>9. QED BY <1>2, <1>3, <2>5, <2>6, <2>7, <2>8 DEF SameTable, Lost
<1>4. CASE ~(counters[slot] > 0)
  <2>1. d = c
    BY <1>2, <1>4 DEF Down
  <2>2. counters[slot] = 0 /\ \A s \in Slots : counters[s] \in Nat
    BY <1>4
  <2>3. QED BY <1>2, <2>1, <2>2 DEF SameTable, Lost
<1>5. QED BY <1>3, <1>4

\* How many of the first n hashes of an address are a slot.
HitsTo(h, slot, n) == Cardinality({i \in 1..n : Hashes[h][i] = slot})

LEMMA HitsToIs ==
  ASSUME NEW h \in Hosts, NEW slot, NEW n \in Nat
  PROVE  /\ HitsTo(h, slot, n) \in Nat /\ HitsTo(h, slot, 0) = 0
         /\ HitsTo(h, slot, n + 1) =
              HitsTo(h, slot, n) + (IF Hashes[h][n + 1] = slot THEN 1 ELSE 0)
<1> DEFINE H(k) == {i \in 1..k : Hashes[h][i] = slot}
<1>1. IsFiniteSet(H(n)) /\ Cardinality(H(n)) \in Nat
  <2>1. IsFiniteSet(1..n)
    BY FS_Interval
  <2>2. H(n) \subseteq 1..n
    OBVIOUS
  <2>3. QED BY <2>1, <2>2, FS_Subset, FS_CardinalityType
<1>2. H(0) = {} /\ Cardinality(H(0)) = 0
  <2>1. H(0) = {}
    OBVIOUS
  <2>2. QED BY <2>1, FS_EmptySet
<1>3. CASE Hashes[h][n + 1] = slot
  <2>1. H(n + 1) = H(n) \union {n + 1} /\ n + 1 \notin H(n)
    BY <1>3
  <2>2. Cardinality(H(n + 1)) = Cardinality(H(n)) + 1
    <3> HIDE DEF H
    <3>1. QED BY <1>1, <2>1, FS_AddElement
  <2>3. QED BY <1>1, <1>2, <1>3, <2>2 DEF HitsTo
<1>4. CASE Hashes[h][n + 1] # slot
  <2>1. H(n + 1) = H(n)
    <3>1. \A i \in 1..n + 1 : i \in 1..n \/ i = n + 1
      OBVIOUS
    <3>2. QED BY <1>4, <3>1
  <2>2. QED BY <1>1, <1>2, <1>4, <2>1 DEF HitsTo
<1>5. QED BY <1>3, <1>4

LEMMA HashesOf ==
  ASSUME NEW h \in Hosts
  PROVE  /\ Len(Hashes[h]) \in Nat /\ DOMAIN Hashes[h] = 1..Len(Hashes[h])
         /\ \A i \in 1..Len(Hashes[h]) : Hashes[h][i] \in Slots
         /\ \A slot : Hits(h, slot) = HitsTo(h, slot, Len(Hashes[h]))
<1>1. Hashes[h] \in Seq(Slots)
  BY HashAssumption
<1>2. /\ Len(Hashes[h]) \in Nat /\ DOMAIN Hashes[h] = 1..Len(Hashes[h])
      /\ \A i \in 1..Len(Hashes[h]) : Hashes[h][i] \in Slots
  BY <1>1
<1>3. \A slot : Hits(h, slot) = HitsTo(h, slot, Len(Hashes[h]))
  BY <1>2, Zenon DEF Hits, HitsTo
<1>4. QED BY <1>2, <1>3

\* The counters of an address, up one after the other.
LEMMA RaisedIs ==
  ASSUME NEW c \in Intels, NEW h \in Hosts, NEW d, d = Raised(c, h)
  PROVE  SameTable(c, d) /\ Gained(c, d, [s \in Slots |-> Hits(h, s)])
<1> DEFINE n == Len(Hashes[h])
           Is(f) == f = [i \in 0..Len(Hashes[h]) |->
                           IF i = 0 THEN c ELSE Up(f[i - 1], Hashes[h][i])]
           up == CHOOSE f : Is(f)
<1>1. d = up[n]
  BY Zenon DEF Raised
<1>2. n \in Nat /\ \A i \in 1..n : Hashes[h][i] \in Slots
  BY HashesOf
<1>3. \A a \in Intels, i \in 1..n : Up(a, Hashes[h][i]) \in Intels
  BY <1>2, UpIs DEF SameTable
<1>4. PICK f \in [0..n -> Intels] :
        \A i \in 0..n : f[i] = IF i = 0 THEN c ELSE Up(f[i - 1], Hashes[h][i])
  <2> DEFINE A == Intels
             step == [p \in A \X (1..n) |-> Up(p[1], Hashes[h][p[2]])]
  <2>1. \A s \in A, i \in 1..n : step[<<s, i>>] = Up(s, Hashes[h][i])
    OBVIOUS
  <2>2. \A s \in A : \A i \in 1..n : step[<<s, i>>] \in A
    <3> HIDE DEF step
    <3>1. QED BY <1>3, <2>1
  <2> HIDE DEF step, A, n
  <2>3. \E f \in [0..n -> A] : Looped(f, n, c, step)
    <3>1. c \in A
      BY DEF A
    <3>2. QED BY <1>2, <2>2, <3>1, LoopExists, Zenon
  <2>4. PICK f \in [0..n -> A] : Looped(f, n, c, step)
    BY <2>3
  <2>5. \A i \in 0..n : i # 0 => i \in 1..n /\ f[i - 1] \in A
    BY <1>2
  <2>6. \A i \in 0..n : f[i] = IF i = 0 THEN c ELSE Up(f[i - 1], Hashes[h][i])
    BY <2>1, <2>4, <2>5 DEF Looped
  <2>7. QED BY <2>6 DEF A
<1>5. Is(f)
  <2>1. f = [i \in 0..n |-> f[i]]
    BY <1>4
  <2>2. QED BY <1>4, <2>1
<1>6. Is(up)
  <2> HIDE DEF Is
  <2>1. QED BY <1>5, Zenon
<1> HIDE DEF up
<1> DEFINE Right(m) == /\ SameTable(c, up[m])
                       /\ Gained(c, up[m], [s \in Slots |-> HitsTo(h, s, m)])
           N == {m \in Nat : m <= n => Right(m)}
<1>7. up[0] = c /\ \A m \in Nat : m + 1 <= n => up[m + 1] = Up(up[m], Hashes[h][m + 1])
  BY <1>2, <1>6
<1> HIDE DEF n
<1>8. 0 \in N
  <2>1. \A s \in Slots : HitsTo(h, s, 0) = 0 /\ c.counters[s] \in Nat
    BY HitsToIs DEF Intels
  <2>2. QED BY <1>7, <2>1 DEF SameTable, Gained
<1>9. ASSUME NEW m \in Nat, m \in N PROVE m + 1 \in N
  <2> SUFFICES ASSUME m + 1 <= n PROVE Right(m + 1)
    OBVIOUS
  <2>1. Right(m)
    BY <1>2, <1>9
  <2>2. PICK a \in Intels : a = up[m]
    BY <2>1 DEF SameTable
  <2>3. PICK slot \in Slots : slot = Hashes[h][m + 1]
    BY <1>2
  <2>4. PICK b : b = up[m + 1] /\ b = Up(a, slot)
    BY <1>7, <2>2, <2>3
  <2>5. /\ SameTable(a, b) /\ Gained(a, b, [s \in Slots |-> IF s = slot THEN 1 ELSE 0])
        /\ SameTable(c, a) /\ Gained(c, a, [s \in Slots |-> HitsTo(h, s, m)])
    BY <2>1, <2>2, <2>4, UpIs
  <2>6. SameTable(c, b)
    BY <2>5 DEF SameTable
  <2>7. ASSUME NEW s \in Slots \ b.full
        PROVE  b.counters[s] = c.counters[s] + HitsTo(h, s, m + 1)
    <3>1. s \in Slots \ a.full
      BY <2>5 DEF SameTable
    <3>2. /\ b.counters[s] = a.counters[s] + (IF s = slot THEN 1 ELSE 0)
          /\ a.counters[s] = c.counters[s] + HitsTo(h, s, m)
      BY <2>5, <3>1 DEF Gained
    <3>3. /\ HitsTo(h, s, m) \in Nat
          /\ HitsTo(h, s, m + 1) = HitsTo(h, s, m) + (IF slot = s THEN 1 ELSE 0)
      BY <2>3, HitsToIs
    <3>4. c.counters[s] \in Nat
      BY DEF Intels
    <3>5. QED BY <3>2, <3>3, <3>4
  <2>8. QED BY <2>4, <2>6, <2>7 DEF Gained
<1>10. Nat \subseteq N
  <2> HIDE DEF N
  <2>1. QED BY <1>8, <1>9, Induction
<1>11. Right(n)
  BY <1>2, <1>10
<1>12. \A s \in Slots : HitsTo(h, s, n) = Hits(h, s)
  BY HashesOf DEF n
<1>13. QED BY <1>1, <1>11, <1>12 DEF Gained, n

\* The counters of an address, down one after the other, to zero at least.
LEMMA LoweredIs ==
  ASSUME NEW c \in Intels, NEW h \in Hosts, NEW d, d = Lowered(c, h)
  PROVE  SameTable(c, d) /\ d.full = c.full /\ Lost(c, d, [s \in Slots |-> Hits(h, s)])
<1> DEFINE n == Len(Hashes[h])
           Is(f) == f = [i \in 0..Len(Hashes[h]) |->
                           IF i = 0 THEN c ELSE Down(f[i - 1], Hashes[h][i])]
           down == CHOOSE f : Is(f)
<1>1. d = down[n]
  BY Zenon DEF Lowered
<1>2. n \in Nat /\ \A i \in 1..n : Hashes[h][i] \in Slots
  BY HashesOf
<1>3. \A a \in Intels, i \in 1..n : Down(a, Hashes[h][i]) \in Intels
  BY <1>2, DownIs DEF SameTable
<1>4. PICK f \in [0..n -> Intels] :
        \A i \in 0..n : f[i] = IF i = 0 THEN c ELSE Down(f[i - 1], Hashes[h][i])
  <2> DEFINE A == Intels
             step == [p \in A \X (1..n) |-> Down(p[1], Hashes[h][p[2]])]
  <2>1. \A s \in A, i \in 1..n : step[<<s, i>>] = Down(s, Hashes[h][i])
    OBVIOUS
  <2>2. \A s \in A : \A i \in 1..n : step[<<s, i>>] \in A
    <3> HIDE DEF step
    <3>1. QED BY <1>3, <2>1
  <2> HIDE DEF step, A, n
  <2>3. \E f \in [0..n -> A] : Looped(f, n, c, step)
    <3>1. c \in A
      BY DEF A
    <3>2. QED BY <1>2, <2>2, <3>1, LoopExists, Zenon
  <2>4. PICK f \in [0..n -> A] : Looped(f, n, c, step)
    BY <2>3
  <2>5. \A i \in 0..n : i # 0 => i \in 1..n /\ f[i - 1] \in A
    BY <1>2
  <2>6. \A i \in 0..n : f[i] = IF i = 0 THEN c ELSE Down(f[i - 1], Hashes[h][i])
    BY <2>1, <2>4, <2>5 DEF Looped
  <2>7. QED BY <2>6 DEF A
<1>5. Is(f)
  <2>1. f = [i \in 0..n |-> f[i]]
    BY <1>4
  <2>2. QED BY <1>4, <2>1
<1>6. Is(down)
  <2> HIDE DEF Is
  <2>1. QED BY <1>5, Zenon
<1> HIDE DEF down
<1> DEFINE Right(m) == /\ SameTable(c, down[m]) /\ down[m].full = c.full
                       /\ Lost(c, down[m], [s \in Slots |-> HitsTo(h, s, m)])
           N == {m \in Nat : m <= n => Right(m)}
<1>7. down[0] = c /\ \A m \in Nat : m + 1 <= n => down[m + 1] = Down(down[m], Hashes[h][m + 1])
  BY <1>2, <1>6
<1> HIDE DEF n
<1>8. 0 \in N
  <2>1. \A s \in Slots : HitsTo(h, s, 0) = 0 /\ c.counters[s] \in Nat
    BY HitsToIs DEF Intels
  <2>2. QED BY <1>7, <2>1 DEF SameTable, Lost
<1>9. ASSUME NEW m \in Nat, m \in N PROVE m + 1 \in N
  <2> SUFFICES ASSUME m + 1 <= n PROVE Right(m + 1)
    OBVIOUS
  <2>1. Right(m)
    BY <1>2, <1>9
  <2>2. PICK a \in Intels : a = down[m]
    BY <2>1 DEF SameTable
  <2>3. PICK slot \in Slots : slot = Hashes[h][m + 1]
    BY <1>2
  <2>4. PICK b : b = down[m + 1] /\ b = Down(a, slot)
    BY <1>7, <2>2, <2>3
  <2>5. /\ SameTable(a, b) /\ b.full = a.full /\ a.full = c.full
        /\ Lost(a, b, [s \in Slots |-> IF s = slot THEN 1 ELSE 0])
        /\ SameTable(c, a) /\ Lost(c, a, [s \in Slots |-> HitsTo(h, s, m)])
    BY <2>1, <2>2, <2>4, DownIs
  <2>6. SameTable(c, b) /\ b.full = c.full
    BY <2>5 DEF SameTable
  <2>7. ASSUME NEW s \in Slots
        PROVE  b.counters[s] = IF c.counters[s] >= HitsTo(h, s, m + 1)
                               THEN c.counters[s] - HitsTo(h, s, m + 1) ELSE 0
    <3>1. PICK one \in Nat : one = (IF s = slot THEN 1 ELSE 0)
      OBVIOUS
    <3>2. /\ b.counters[s] = IF a.counters[s] >= one THEN a.counters[s] - one ELSE 0
          /\ a.counters[s] = IF c.counters[s] >= HitsTo(h, s, m)
                             THEN c.counters[s] - HitsTo(h, s, m) ELSE 0
      BY <2>5, <3>1 DEF Lost
    <3>3. HitsTo(h, s, m) \in Nat /\ HitsTo(h, s, m + 1) = HitsTo(h, s, m) + one
      <4>1. /\ HitsTo(h, s, m) \in Nat
            /\ HitsTo(h, s, m + 1) = HitsTo(h, s, m) + (IF slot = s THEN 1 ELSE 0)
        BY <2>3, HitsToIs
      <4>2. QED BY <3>1, <4>1
    <3>4. c.counters[s] \in Nat /\ a.counters[s] \in Nat
      BY DEF Intels
    <3>5. QED BY <3>2, <3>3, <3>4
  <2>8. QED BY <2>4, <2>6, <2>7 DEF Lost
<1>10. Nat \subseteq N
  <2> HIDE DEF N
  <2>1. QED BY <1>8, <1>9, Induction
<1>11. Right(n)
  BY <1>2, <1>10
<1>12. \A s \in Slots : HitsTo(h, s, n) = Hits(h, s)
  BY HashesOf DEF n
<1>13. QED BY <1>1, <1>11, <1>12 DEF Lost, n

LEMMA HitsAreNatural ==
  ASSUME NEW h \in Hosts, NEW slot
  PROVE  /\ Hits(h, slot) \in Nat
         /\ (\E i \in DOMAIN Hashes[h] : Hashes[h][i] = slot) => Hits(h, slot) >= 1
<1> DEFINE H == {i \in DOMAIN Hashes[h] : Hashes[h][i] = slot}
<1>1. IsFiniteSet(H)
  <2>1. DOMAIN Hashes[h] = 1..Len(Hashes[h]) /\ Len(Hashes[h]) \in Nat
    BY HashesOf
  <2>2. IsFiniteSet(DOMAIN Hashes[h])
    BY <2>1, FS_Interval
  <2>3. QED BY <2>2, FS_Subset
<1>2. Cardinality(H) \in Nat /\ (H # {} => Cardinality(H) # 0)
  <2> HIDE DEF H
  <2>1. QED BY <1>1, FS_CardinalityType, FS_EmptySet
<1>3. QED BY <1>2 DEF Hits

\* How many times the addresses of a table fall on a slot.
LoadOf(table, slot) == SumFunction([h \in table |-> Hits(h, slot)])

LEMMA LoadIs ==
  ASSUME NEW T \in SUBSET Hosts, IsFiniteSet(T), NEW slot
  PROVE  /\ LoadOf(T, slot) \in Nat
         /\ \A h \in Hosts \ T : LoadOf(T \union {h}, slot) = LoadOf(T, slot) + Hits(h, slot)
<1> DEFINE f == [h \in T |-> Hits(h, slot)]
<1>1. f \in [T -> Nat]
  BY HitsAreNatural
<1>2. LoadOf(T, slot) \in Nat
  <2> HIDE DEF f
  <2>1. SumFunction(f) \in Nat
    BY <1>1, SumIsNatural
  <2>2. QED BY <2>1 DEF LoadOf, f
<1>3. ASSUME NEW h \in Hosts \ T
      PROVE  LoadOf(T \union {h}, slot) = LoadOf(T, slot) + Hits(h, slot)
  <2> DEFINE g == [k \in T \union {h} |-> Hits(k, slot)]
  <2>1. g \in [T \union {h} -> Nat] /\ (\A y \in T : g[y] = f[y]) /\ g[h] = Hits(h, slot)
    BY HitsAreNatural
  <2>2. LoadOf(T \union {h}, slot) = SumFunction(g) /\ LoadOf(T, slot) = SumFunction(f)
    BY DEF LoadOf
  <2> HIDE DEF f, g
  <2>3. SumFunction(g) = SumFunction(f) + g[h]
    BY <1>1, <2>1, SumOfOneMore
  <2>4. QED BY <2>1, <2>2, <2>3
<1>4. QED BY <1>2, <1>3

LEMMA LoadOfNone == \A slot : LoadOf({}, slot) = 0
<1> SUFFICES ASSUME NEW slot PROVE LoadOf({}, slot) = 0
  OBVIOUS
<1> DEFINE f == [h \in {} |-> Hits(h, slot)]
<1>1. f \in [{} -> Nat] /\ (\A x \in {} : f[x] = 0) /\ IsFiniteSet({})
  BY FS_EmptySet
<1>2. SumFunction(f) = 0
  <2> HIDE DEF f
  <2>1. QED BY <1>1, SumOfZeros
<1>3. QED BY <1>2 DEF LoadOf

\* The filter of a table.
Exact(c) ==
  /\ c \in Intels /\ IsFiniteSet(c.table)
  /\ \A s \in Slots \ c.full : c.counters[s] >= LoadOf(c.table, s)
  /\ c.full = {} => /\ \A s \in Slots : c.counters[s] = LoadOf(c.table, s)
                    /\ c.items = Cardinality(c.table)

\* c with another table, or with another count of its items.
LEMMA TableReplaced ==
  ASSUME NEW c \in Intels, NEW t \in SUBSET Hosts
  PROVE  LET d == [c EXCEPT !.table = t]
         IN  /\ d \in Intels /\ d.table = t /\ d.items = c.items
             /\ d.counters = c.counters /\ d.full = c.full
  BY DEF Intels

LEMMA ItemsReplaced ==
  ASSUME NEW c \in Intels, NEW n \in Nat
  PROVE  LET d == [c EXCEPT !.items = n]
         IN  /\ d \in Intels /\ d.items = n /\ d.table = c.table
             /\ d.counters = c.counters /\ d.full = c.full
  BY DEF Intels

LEMMA AddKeeps ==
  ASSUME NEW c, Exact(c), NEW h \in Hosts
  PROVE  Exact(AddIoc(c, h))
<1>1. c \in Intels /\ IsFiniteSet(c.table) /\ c.table \subseteq Hosts
  BY FilterParts DEF Exact
<1>2. CASE h \in c.table
  <2>1. AddIoc(c, h) = [c EXCEPT !.table = c.table \cup {h}] /\ c.table \cup {h} = c.table
    BY <1>2 DEF AddIoc
  <2>2. PICK d : d = [c EXCEPT !.table = c.table]
    OBVIOUS
  <2>3. /\ d \in Intels /\ d.table = c.table /\ d.items = c.items
        /\ d.counters = c.counters /\ d.full = c.full
    BY <1>1, <2>2, TableReplaced
  <2>4. AddIoc(c, h) = d
    BY <2>1, <2>2
  <2>5. QED BY <2>3, <2>4 DEF Exact
<1>3. CASE h \notin c.table
  <2>1. PICK r : r = Raised(c, h)
    OBVIOUS
  <2>2. /\ r \in Intels /\ r.items = c.items /\ r.table = c.table /\ c.full \subseteq r.full
        /\ \A s \in Slots \ r.full : r.counters[s] = c.counters[s] + Hits(h, s)
    BY <1>1, <2>1, RaisedIs DEF SameTable, Gained
  <2>3. PICK b : b = [r EXCEPT !.items = r.items + 1]
    OBVIOUS
  <2>4. /\ b \in Intels /\ b.items = r.items + 1 /\ b.table = r.table
        /\ b.counters = r.counters /\ b.full = r.full
    <3>1. r.items + 1 \in Nat
      BY <2>2, FilterParts
    <3>2. QED BY <2>2, <2>3, <3>1, ItemsReplaced
  <2>5. PICK t \in SUBSET Hosts : t = c.table \union {h}
    BY <1>1
  <2>6. PICK d : d = [b EXCEPT !.table = t]
    OBVIOUS
  <2>7. /\ d \in Intels /\ d.table = t /\ d.items = c.items + 1
        /\ d.counters = r.counters /\ d.full = r.full
    BY <2>2, <2>4, <2>6, TableReplaced
  <2>8. AddIoc(c, h) = d
    <3>1. BloomAdd(c, h) = b
      BY <2>1, <2>3 DEF BloomAdd
    <3>2. AddIoc(c, h) = [b EXCEPT !.table = b.table \cup {h}]
      BY <1>3, <3>1 DEF AddIoc
    <3>3. b.table \cup {h} = t
      BY <2>2, <2>4, <2>5
    <3>4. QED BY <2>6, <3>2, <3>3
  <2>9. IsFiniteSet(t) /\ Cardinality(t) = Cardinality(c.table) + 1
    BY <1>1, <1>3, <2>5, FS_AddElement
  <2>10. ASSUME NEW s \in Slots
         PROVE  /\ LoadOf(t, s) = LoadOf(c.table, s) + Hits(h, s)
                /\ LoadOf(c.table, s) \in Nat /\ Hits(h, s) \in Nat /\ c.counters[s] \in Nat
    BY <1>1, <1>3, <2>5, LoadIs, HitsAreNatural, FilterParts
  <2>11. ASSUME NEW s \in Slots \ d.full PROVE d.counters[s] >= LoadOf(t, s)
    <3>1. c.counters[s] >= LoadOf(c.table, s)
      BY <2>2, <2>7 DEF Exact
    <3>2. d.counters[s] = c.counters[s] + Hits(h, s)
      BY <2>2, <2>7
    <3>3. QED BY <2>10, <3>1, <3>2
  <2>12. ASSUME d.full = {}
         PROVE  /\ \A s \in Slots : d.counters[s] = LoadOf(t, s)
                /\ d.items = Cardinality(t)
    <3>1. c.full = {}
      BY <2>2, <2>7, <2>12
    <3>2. /\ \A s \in Slots : c.counters[s] = LoadOf(c.table, s)
          /\ c.items = Cardinality(c.table)
      BY <3>1 DEF Exact
    <3>3. \A s \in Slots : d.counters[s] = c.counters[s] + Hits(h, s)
      BY <2>2, <2>7, <2>12
    <3>4. QED BY <2>7, <2>9, <2>10, <3>2, <3>3
  <2>13. QED BY <2>7, <2>8, <2>9, <2>11, <2>12 DEF Exact
<1>4. QED BY <1>2, <1>3

LEMMA RemoveKeeps ==
  ASSUME NEW c, Exact(c), NEW h \in Hosts
  PROVE  Exact(RemoveIoc(c, h))
<1>1. c \in Intels /\ IsFiniteSet(c.table) /\ c.table \subseteq Hosts /\ c.items \in Nat
  BY FilterParts DEF Exact
<1>2. CASE h \notin c.table
  BY <1>2 DEF RemoveIoc
<1>3. CASE h \in c.table
  <2>1. PICK r : r = Lowered(c, h)
    OBVIOUS
  <2>2. /\ r \in Intels /\ r.items = c.items /\ r.table = c.table /\ c.full = r.full
        /\ \A s \in Slots : r.counters[s] = IF c.counters[s] >= Hits(h, s)
                                            THEN c.counters[s] - Hits(h, s) ELSE 0
    BY <1>1, <2>1, LoweredIs DEF SameTable, Lost
  <2>3. PICK t \in SUBSET Hosts : t = c.table \ {h}
    BY <1>1
  <2>4. /\ IsFiniteSet(t) /\ h \notin t /\ c.table = t \union {h}
        /\ Cardinality(t) = Cardinality(c.table) - 1 /\ Cardinality(c.table) \in Nat
        /\ Cardinality(c.table) # 0
    <3>1. IsFiniteSet(t) /\ Cardinality(t) = Cardinality(c.table) - 1
      BY <1>1, <1>3, <2>3, FS_RemoveElement
    <3>2. h \notin t /\ c.table = t \union {h}
      BY <1>3, <2>3
    <3>3. Cardinality(c.table) \in Nat /\ Cardinality(c.table) # 0
      BY <1>1, <1>3, FS_CardinalityType, FS_EmptySet
    <3>4. QED BY <3>1, <3>2, <3>3
  <2>5. ASSUME NEW s \in Slots
        PROVE  /\ LoadOf(c.table, s) = LoadOf(t, s) + Hits(h, s)
               /\ LoadOf(t, s) \in Nat /\ Hits(h, s) \in Nat /\ c.counters[s] \in Nat
    <3>1. LoadOf(t \union {h}, s) = LoadOf(t, s) + Hits(h, s) /\ LoadOf(t, s) \in Nat
      BY <2>4, LoadIs
    <3>2. QED BY <1>1, <2>4, <3>1, HitsAreNatural, FilterParts
  <2>6. CASE MayContain(c, h)
    <3>1. PICK n \in Nat : n = IF r.items > 0 THEN r.items - 1 ELSE 0
      BY <1>1, <2>2
    <3>2. PICK b : b = [r EXCEPT !.items = n]
      OBVIOUS
    <3>3. /\ b \in Intels /\ b.items = n /\ b.table = r.table
          /\ b.counters = r.counters /\ b.full = r.full
      BY <2>2, <3>2, ItemsReplaced
    <3>4. PICK d : d = [b EXCEPT !.table = t]
      OBVIOUS
    <3>5. /\ d \in Intels /\ d.table = t /\ d.items = n
          /\ d.counters = r.counters /\ d.full = c.full
      BY <2>2, <3>3, <3>4, TableReplaced
    <3>6. RemoveIoc(c, h) = d
      <4>1. BloomRemove(c, h) = b
        BY <2>1, <2>6, <3>1, <3>2 DEF BloomRemove
      <4>2. RemoveIoc(c, h) = [b EXCEPT !.table = b.table \ {h}]
        BY <1>3, <4>1 DEF RemoveIoc
      <4>3. b.table \ {h} = t
        BY <2>2, <2>3, <3>3
      <4>4. QED BY <3>4, <4>2, <4>3
    <3>7. ASSUME NEW s \in Slots \ d.full PROVE d.counters[s] >= LoadOf(t, s)
      <4>1. c.counters[s] >= LoadOf(c.table, s)
        BY <3>5 DEF Exact
      <4>2. d.counters[s] = IF c.counters[s] >= Hits(h, s)
                            THEN c.counters[s] - Hits(h, s) ELSE 0
        BY <2>2, <3>5
      <4>3. QED BY <2>5, <4>1, <4>2
    <3>8. ASSUME d.full = {}
          PROVE  /\ \A s \in Slots : d.counters[s] = LoadOf(t, s)
                 /\ d.items = Cardinality(t)
      <4>1. /\ \A s \in Slots : c.counters[s] = LoadOf(c.table, s)
            /\ c.items = Cardinality(c.table)
        BY <3>5, <3>8 DEF Exact
      <4>2. \A s \in Slots : d.counters[s] = IF c.counters[s] >= Hits(h, s)
                                             THEN c.counters[s] - Hits(h, s) ELSE 0
        BY <2>2, <3>5
      <4>3. \A s \in Slots : d.counters[s] = LoadOf(t, s)
        BY <2>5, <4>1, <4>2
      <4>4. d.items = Cardinality(t)
        BY <1>1, <2>2, <2>4, <3>1, <3>5, <4>1
      <4>5. QED BY <4>3, <4>4
    <3>9. QED BY <2>4, <3>5, <3>6, <3>7, <3>8 DEF Exact
  <2>7. CASE ~MayContain(c, h)
    <3>1. PICK d : d = [c EXCEPT !.table = t]
      OBVIOUS
    <3>2. /\ d \in Intels /\ d.table = t /\ d.items = c.items
          /\ d.counters = c.counters /\ d.full = c.full
      BY <1>1, <3>1, TableReplaced
    <3>3. RemoveIoc(c, h) = d
      BY <1>3, <2>3, <2>7, <3>1 DEF RemoveIoc, BloomRemove
    <3>4. \A s \in Slots \ d.full : d.counters[s] >= LoadOf(t, s)
      <4>1. \A s \in Slots \ d.full : c.counters[s] >= LoadOf(c.table, s)
        BY <3>2 DEF Exact
      <4>2. QED BY <2>5, <3>2, <4>1
    <3>5. d.full # {}
      <4>1. PICK i \in DOMAIN Hashes[h] : ~(c.counters[Hashes[h][i]] > 0)
        BY <2>7 DEF MayContain
      <4>2. PICK s \in Slots : s = Hashes[h][i]
        BY <4>1, HashesOf
      <4>3. Hits(h, s) >= 1
        BY <4>1, <4>2, HitsAreNatural
      <4>4. c.counters[s] # LoadOf(c.table, s)
        BY <2>5, <4>1, <4>2, <4>3
      <4>5. QED BY <3>2, <4>4 DEF Exact
    <3>6. QED BY <2>4, <3>2, <3>3, <3>4, <3>5 DEF Exact
  <2>8. QED BY <2>6, <2>7
<1>4. QED BY <1>2, <1>3

\* A feed, or the seeds.
LEMMA FeedKeeps ==
  ASSUME NEW c, Exact(c), NEW hosts \in Seq(Hosts)
  PROVE  Exact(LoadFeed(c, hosts))
<1> DEFINE n == Len(hosts)
           A == {x \in Intels : Exact(x)}
           Is(f) == f = [i \in 0..Len(hosts) |->
                           IF i = 0 THEN c ELSE AddIoc(f[i - 1], hosts[i])]
           loaded == CHOOSE f : Is(f)
<1>1. LoadFeed(c, hosts) = loaded[n]
  BY Zenon DEF LoadFeed
<1>2. n \in Nat /\ \A i \in 1..n : hosts[i] \in Hosts
  OBVIOUS
<1>3. c \in A /\ \A a \in A, i \in 1..n : AddIoc(a, hosts[i]) \in A
  BY <1>2, AddKeeps DEF Exact
<1> HIDE DEF A
<1>4. PICK f \in [0..n -> A] :
        \A i \in 0..n : f[i] = IF i = 0 THEN c ELSE AddIoc(f[i - 1], hosts[i])
  <2> DEFINE step == [p \in A \X (1..n) |-> AddIoc(p[1], hosts[p[2]])]
  <2>1. \A s \in A, i \in 1..n : step[<<s, i>>] = AddIoc(s, hosts[i])
    OBVIOUS
  <2>2. \A s \in A : \A i \in 1..n : step[<<s, i>>] \in A
    <3> HIDE DEF step
    <3>1. QED BY <1>3, <2>1
  <2> HIDE DEF step, n
  <2>3. \E f \in [0..n -> A] : Looped(f, n, c, step)
    BY <1>2, <1>3, <2>2, LoopExists, Zenon
  <2>4. PICK f \in [0..n -> A] : Looped(f, n, c, step)
    BY <2>3
  <2>5. \A i \in 0..n : i # 0 => i \in 1..n /\ f[i - 1] \in A
    BY <1>2
  <2>6. \A i \in 0..n : f[i] = IF i = 0 THEN c ELSE AddIoc(f[i - 1], hosts[i])
    BY <2>1, <2>4, <2>5 DEF Looped
  <2>7. QED BY <2>6
<1>5. Is(f)
  <2>1. f = [i \in 0..n |-> f[i]]
    BY <1>4
  <2>2. QED BY <1>4, <2>1
<1>6. Is(loaded)
  <2> HIDE DEF Is
  <2>1. QED BY <1>5, Zenon
<1> HIDE DEF loaded
<1>7. /\ loaded[0] = c
      /\ \A i \in 1..n : loaded[i] = AddIoc(loaded[i - 1], hosts[i])
  BY <1>2, <1>6
<1>8. loaded[n] \in A
  <2> HIDE DEF n
  <2>1. loaded[0] \in A /\ \A i \in 1..n : loaded[i - 1] \in A => loaded[i] \in A
    BY <1>3, <1>7
  <2>2. QED BY <1>2, <2>1, LoopKeeps
<1>9. QED BY <1>1, <1>8 DEF A

LEMMA SeedsAreExact == Exact(SeedIntel)
<1>1. EmptyIntel \in Intels
  BY DEF Intels, EmptyIntel
<1>2. /\ EmptyIntel.table = {} /\ EmptyIntel.items = 0 /\ EmptyIntel.full = {}
      /\ \A s \in Slots : EmptyIntel.counters[s] = 0
  BY DEF EmptyIntel
<1>3. Exact(EmptyIntel)
  <2> HIDE DEF EmptyIntel
  <2>1. IsFiniteSet({}) /\ Cardinality({}) = 0
    BY FS_EmptySet
  <2>2. QED BY <1>1, <1>2, <2>1, LoadOfNone DEF Exact
<1>4. SetToSeq(Seeds) \in Seq(Hosts)
  <2>1. PICK f : f = SetToSeq(Seeds)
    OBVIOUS
  <2>2. PICK n \in Nat : f \in [1..n -> Seeds]
    BY <2>1, HashAssumption, SetToSeqIs
  <2>3. f \in [1..n -> Hosts]
    BY <2>2, HashAssumption
  <2>4. QED BY <2>1, <2>3
<1>5. QED BY <1>3, <1>4, FeedKeeps, Zenon DEF SeedIntel

LEMMA ExactFilter == Exact(intel) => FilterIsExact
<1> SUFFICES ASSUME Exact(intel) PROVE FilterIsExact
  OBVIOUS
<1>1. \A slot : Load(slot) = LoadOf(intel.table, slot)
  BY DEF Load, LoadOf
<1>2. /\ intel \in Intels /\ IsFiniteSet(intel.table) /\ intel.table \subseteq Hosts
      /\ \A s \in Slots : intel.counters[s] \in Nat
  BY FilterParts DEF Exact
<1>3. ASSUME NEW h \in intel.table, ToSet(Hashes[h]) \cap intel.full = {}
      PROVE  Query(intel, h)
  <2> SUFFICES ASSUME NEW i \in DOMAIN Hashes[h]
               PROVE  intel.counters[Hashes[h][i]] > 0
    BY DEF Query, MayContain
  <2>1. PICK s \in Slots : s = Hashes[h][i]
    BY <1>2, HashesOf
  <2>2. s \notin intel.full
    <3>1. s \in ToSet(Hashes[h])
      BY <2>1 DEF ToSet
    <3>2. QED BY <1>3, <3>1
  <2>3. Hits(h, s) \in Nat /\ Hits(h, s) >= 1
    BY <1>2, <2>1, HitsAreNatural
  <2>4. PICK t \in SUBSET Hosts : t = intel.table \ {h}
    BY <1>2
  <2>5. IsFiniteSet(t) /\ h \in Hosts \ t /\ intel.table = t \union {h}
    BY <1>2, <2>4, FS_Subset
  <2>6. LoadOf(intel.table, s) = LoadOf(t, s) + Hits(h, s) /\ LoadOf(t, s) \in Nat
    BY <2>5, LoadIs
  <2>7. intel.counters[s] >= LoadOf(intel.table, s)
    BY <2>2 DEF Exact
  <2>8. QED BY <1>2, <2>1, <2>3, <2>6, <2>7
<1>4. QED BY <1>1, <1>3 DEF FilterIsExact, Exact

\* The filter is that of the table: its counters are sums over the addresses of
\* the table, and at least these sums where they were at their limit elsewhere,
\* for any hash functions, size of the filter, seeds and feeds, however many
\* addresses are given, given again and removed (bloom_threat_intel.py 51-90,
\* 157-213).
THEOREM FilterStaysExact == IntelSpec => []FilterIsExact
<1>1. IntelInit => Exact(intel)
  BY SeedsAreExact DEF IntelInit
<1>2. Exact(intel) /\ [IntelNext]_intelVars => Exact(intel)'
  <2> SUFFICES ASSUME Exact(intel), [IntelNext]_intelVars PROVE Exact(intel')
    BY DEF Exact, LoadOf, Hits, Intels
  <2>1. CASE UNCHANGED intel
    BY <2>1
  <2>2. ASSUME NEW h \in Hosts, NEW confidence, AddCustomIoc(h, confidence)
        PROVE  Exact(intel')
    BY <2>2, AddKeeps DEF AddCustomIoc
  <2>3. ASSUME NEW h \in Hosts, RemoveCustomIoc(h) PROVE Exact(intel')
    BY <2>3, RemoveKeeps DEF RemoveCustomIoc
  <2>4. ASSUME NEW feed \in Feeds, SyncFeed(feed) PROVE Exact(intel')
    BY <2>4, FeedKeeps, FeedsAssumption DEF SyncFeed
  <2>5. QED
    BY <2>1, <2>2, <2>3, <2>4 DEF IntelNext, Flow, OtherAlert, intelVars
<1>3. QED BY <1>1, <1>2, ExactFilter, PTL DEF IntelSpec

-----------------------------------------------------------------------------
(***************************************************************************)
(* IntelGraph's attack graph.  Explains(g, s) says of a graph and of the   *)
(* alerts recorded so far what CompromiseIsExplained says of the hosts and *)
(* edges in it, and of those that are not in it yet that no alert is       *)
(* about them.                                                             *)
(***************************************************************************)

NodeOf(g, h) == IF h \in DOMAIN g.nodes THEN g.nodes[h] ELSE NewNode
EdgeOf(g, e) == IF e \in DOMAIN g.edges THEN g.edges[e] ELSE NewEdge

\* A graph, in which every host of an edge is a node.
Drawn(g) ==
  /\ g = [nodes |-> g.nodes, edges |-> g.edges, timeline |-> g.timeline]
  /\ DOMAIN g.nodes \subseteq Hosts
  /\ \A e \in DOMAIN g.edges :
       e \in Hosts \X Hosts /\ e[1] \in DOMAIN g.nodes /\ e[2] \in DOMAIN g.nodes

Sayable(a) ==
  /\ a.src \in Hosts /\ a.dst \in Hosts /\ a.src # a.dst
  /\ a.severity \in Severities /\ a.confidence \in Int /\ a.ts \in Nat \ {0}

Sayings(s) == IsSequence(s) /\ \A i \in 1..Len(s) : Sayable(s[i][1])

\* Whom the i-th alert compromises, and whether it is about an edge.
Blames(said1, h) ==
  /\ said1[1].severity # "LOW"
  /\ \/ said1[1].src = h
     \/ said1[1].dst = h /\ said1[2] /\ said1[1].category = "LATERAL_MOVEMENT"
Marks(said1, e) ==
  said1[2] /\ said1[1].severity # "LOW" /\ <<said1[1].src, said1[1].dst>> = e

Blaming(s, h) == {i \in 1..Len(s) : Blames(s[i], h)}
Marking(s, e) == {i \in 1..Len(s) : Marks(s[i], e)}

\* The most a host can be at risk.
FullRisk == 10000

RiskExplained(h, risk, s, is) ==
  /\ risk \in 0..FullRisk
  /\ \A i \in is : Clipped(Weight(s[i][1], h)) <= risk
  /\ risk = 0 \/ \E i \in is : Clipped(Weight(s[i][1], h)) = risk

NodeExplained(h, node, s, is) ==
  /\ node.compromised \in Nat /\ node.alerts = Cardinality(is)
  /\ node.compromised = IF is = {} THEN 0 ELSE s[Min(is)][1].ts
  /\ RiskExplained(h, node.risk, s, is)

EdgeExplained(edge, s, is) ==
  /\ edge = [flows |-> edge.flows, lateral |-> edge.lateral, c2 |-> edge.c2]
  /\ edge.lateral \in BOOLEAN /\ edge.c2 \in BOOLEAN
  /\ edge.lateral <=> \E i \in is : s[i][1].category = "LATERAL_MOVEMENT"
  /\ edge.c2 <=> \E i \in is : s[i][1].category \in {"MALICIOUS_C2", "C2_BEACONING"}

Explains(g, s) ==
  /\ Drawn(g) /\ Sayings(s)
  /\ \A h \in Hosts : NodeExplained(h, NodeOf(g, h), s, Blaming(s, h))
  /\ \A e \in Hosts \X Hosts : EdgeExplained(EdgeOf(g, e), s, Marking(s, e))

LEMMA MinIs ==
  ASSUME NEW S \in SUBSET Nat, S # {}
  PROVE  Min(S) \in S /\ \A x \in S : Min(S) <= x
<1>1. \E x \in S : \A y \in S : x =< y
  BY Least
<1>2. QED BY <1>1 DEF Min

LEMMA MinOfOneMore ==
  ASSUME NEW S \in SUBSET Nat, NEW n \in Nat, \A x \in S : x < n
  PROVE  Min(S \union {n}) = IF S = {} THEN n ELSE Min(S)
<1> DEFINE T == S \union {n}
<1>1. T \in SUBSET Nat /\ T # {}
  OBVIOUS
<1>2. PICK m \in T : m = Min(T) /\ \A x \in T : m <= x
  <2> HIDE DEF T
  <2>1. QED BY <1>1, MinIs
<1>3. CASE S = {}
  BY <1>2, <1>3
<1>4. CASE S # {}
  <2>1. PICK k \in S : k = Min(S) /\ \A x \in S : k <= x
    BY <1>4, MinIs
  <2>2. m <= k
    BY <1>2, <2>1
  <2>3. m \in S
    BY <1>2, <2>1, <2>2
  <2>4. k <= m
    BY <2>1, <2>3
  <2>5. k = m
    BY <2>2, <2>4
  <2>6. QED BY <1>2, <1>4, <2>1, <2>5
<1>5. QED BY <1>3, <1>4

\* t is s and one more alert.
OneMoreSaid(s, t, new) ==
  /\ Sayings(t) /\ Len(s) \in Nat /\ Len(t) = Len(s) + 1 /\ t[Len(s) + 1] = new
  /\ \A i \in 1..Len(s) : t[i] = s[i]
  /\ \A h : Blaming(t, h) = IF Blames(new, h) THEN Blaming(s, h) \union {Len(s) + 1}
                            ELSE Blaming(s, h)
  /\ \A e : Marking(t, e) = IF Marks(new, e) THEN Marking(s, e) \union {Len(s) + 1}
                            ELSE Marking(s, e)

LEMMA SayingMore ==
  ASSUME NEW s, Sayings(s), NEW a, Sayable(a), NEW flag \in BOOLEAN
  PROVE  OneMoreSaid(s, Append(s, <<a, flag>>), <<a, flag>>)
<1> DEFINE t == Append(s, <<a, flag>>)
<1> HIDE DEF t
<1>1. t = Append(s, <<a, flag>>)
  BY DEF t
<1>2. PICK n \in Nat : n = Len(s)
  BY SequenceGrows DEF Sayings
<1>3. /\ IsSequence(t) /\ Len(t) = n + 1 /\ t[n + 1] = <<a, flag>>
      /\ \A i \in 1..n : t[i] = s[i]
  BY <1>1, <1>2, SequenceGrows DEF Sayings
<1>4. \A i : i \in 1..n + 1 <=> i \in 1..n \/ i = n + 1
  OBVIOUS
<1>5. n + 1 \notin 1..n
  OBVIOUS
<1>6. Sayings(t)
  <2>1. t[n + 1][1] = a
    BY <1>3
  <2>2. QED BY <1>2, <1>3, <1>4, <2>1 DEF Sayings
<1>7. ASSUME NEW h
      PROVE  Blaming(t, h) = IF Blames(<<a, flag>>, h) THEN Blaming(s, h) \union {n + 1}
                             ELSE Blaming(s, h)
  <2> HIDE DEF Blames
  <2>1. QED BY <1>2, <1>3, <1>4 DEF Blaming
<1>8. ASSUME NEW e
      PROVE  Marking(t, e) = IF Marks(<<a, flag>>, e) THEN Marking(s, e) \union {n + 1}
                             ELSE Marking(s, e)
  <2>1. QED BY <1>2, <1>3, <1>4 DEF Marking
<1>9. OneMoreSaid(s, t, <<a, flag>>)
  <2> HIDE DEF Blames, Marks
  <2>1. QED BY <1>2, <1>3, <1>6, <1>7, <1>8 DEF OneMoreSaid
<1>10. QED BY <1>9 DEF t

\* What an alert does not change stays explained.
LEMMA NodeStays ==
  ASSUME NEW s, NEW t, NEW n \in Nat, \A i \in 1..n : t[i] = s[i],
         NEW is \in SUBSET (1..n), NEW h, NEW node, NodeExplained(h, node, s, is)
  PROVE  NodeExplained(h, node, t, is)
<1>1. is # {} => Min(is) \in 1..n
  <2>1. is \in SUBSET Nat
    OBVIOUS
  <2>2. QED BY <2>1, MinIs
<1>2. RiskExplained(h, node.risk, t, is)
  <2>1. \A i \in is : t[i] = s[i]
    OBVIOUS
  <2>2. QED BY <2>1 DEF NodeExplained, RiskExplained
<1>3. QED BY <1>1, <1>2 DEF NodeExplained

LEMMA EdgeStays ==
  ASSUME NEW s, NEW t, NEW n \in Nat, \A i \in 1..n : t[i] = s[i],
         NEW is \in SUBSET (1..n), NEW edge, EdgeExplained(edge, s, is)
  PROVE  EdgeExplained(edge, t, is)
BY DEF EdgeExplained

\* The risk of a host after one more alert.
LEMMA RiskIs ==
  ASSUME NEW r \in 0..FullRisk, NEW points \in Int
  PROVE  Min({FullRisk, Max({r, points})}) =
           IF Clipped(points) > r THEN Clipped(points) ELSE r
<1> USE DEF FullRisk
<1>1. PICK y : y = Max({r, points})
  OBVIOUS
<1>2. r \in Nat /\ r <= 10000 /\ points \in Int
  OBVIOUS
<1>3. y \in Nat /\ y = IF points > r THEN points ELSE r
  <2>1. CASE points > r
    <3>1. points \in {r, points} /\ (\A z \in {r, points} : points >= z)
          /\ \A x \in {r, points} : (\A z \in {r, points} : x >= z) => x = points
      BY <2>1
    <3>2. y = points
      BY <1>1, <3>1 DEF Max
    <3>3. points \in Nat
      BY <1>2, <2>1
    <3>4. QED BY <2>1, <3>2, <3>3
  <2>2. CASE ~(points > r)
    <3>1. r \in {r, points} /\ (\A z \in {r, points} : r >= z)
          /\ \A x \in {r, points} : (\A z \in {r, points} : x >= z) => x = r
      BY <2>2
    <3>2. y = r
      BY <1>1, <3>1 DEF Max
    <3>3. QED BY <1>2, <2>2, <3>2
  <2>3. QED BY <2>1, <2>2
<1>4. PICK x : x = Min({10000, y})
  OBVIOUS
<1>5. x = IF y > 10000 THEN 10000 ELSE y
  <2>1. x \in {10000, y} /\ \A z \in {10000, y} : x <= z
    <3>1. {10000, y} \in SUBSET Nat /\ {10000, y} # {}
      BY <1>3
    <3>2. QED BY <1>4, <3>1, MinIs
  <2>2. QED BY <1>3, <2>1
<1>6. x = IF Clipped(points) > r THEN Clipped(points) ELSE r
  BY <1>3, <1>5 DEF Clipped
<1>7. QED BY <1>1, <1>4, <1>6

LEMMA RiskRises ==
  ASSUME NEW s, NEW t, NEW n \in Nat, NEW is \in SUBSET (1..n),
         \A i \in is : t[i] = s[i],
         NEW h, \A i \in is : Weight(s[i][1], h) \in Int,
         NEW r, RiskExplained(h, r, s, is),
         NEW points \in Int, Weight(t[n + 1][1], h) = points
  PROVE  RiskExplained(h, Min({FullRisk, Max({r, points})}), t, is \union {n + 1})
<1> DEFINE w(i) == Clipped(Weight(t[i][1], h))
<1>1. r \in 0..FullRisk /\ \A i \in is : w(i) <= r
  BY DEF RiskExplained
<1>2. r = 0 \/ \E i \in is : w(i) = r
  BY DEF RiskExplained
<1>3. PICK new : new = Min({FullRisk, Max({r, points})})
  OBVIOUS
<1>4. PICK clip : clip = Clipped(points)
  OBVIOUS
<1>5. clip \in 0..FullRisk
  <2> USE DEF FullRisk
  <2>1. CASE points < 0
    <3>1. clip = 0
      BY <1>4, <2>1 DEF Clipped
    <3>2. QED BY <3>1
  <2>2. CASE ~(points < 0) /\ points > 10000
    <3>1. clip = 10000
      BY <1>4, <2>2 DEF Clipped
    <3>2. QED BY <3>1
  <2>3. CASE ~(points < 0) /\ ~(points > 10000)
    <3>1. clip = points
      BY <1>4, <2>3 DEF Clipped
    <3>2. QED BY <2>3, <3>1
  <2>4. QED BY <2>1, <2>2, <2>3
<1>6. new = IF clip > r THEN clip ELSE r
  <2>1. Min({FullRisk, Max({r, points})}) = IF Clipped(points) > r THEN Clipped(points) ELSE r
    BY <1>1, RiskIs
  <2>2. QED BY <1>3, <1>4, <2>1
<1>7. new \in 0..FullRisk /\ clip <= new /\ r <= new /\ (new = clip \/ new = r)
  <2>1. r \in 0..FullRisk
    BY <1>1
  <2>2. r \in 0..FullRisk /\ r \in Int /\ clip \in Int
    BY <1>5, <2>1 DEF FullRisk
  <2>3. CASE clip > r
    BY <1>5, <1>6, <2>2, <2>3
  <2>4. CASE ~(clip > r)
    BY <1>6, <2>2, <2>4
  <2>5. QED BY <2>3, <2>4
<1>8. w(n + 1) = clip
  BY <1>4
<1>9. \A i \in is : w(i) \in Int
  <2>1. \A x \in Int : Clipped(x) \in Int
    BY DEF Clipped
  <2>2. \A i \in is : Weight(t[i][1], h) \in Int
    OBVIOUS
  <2>3. QED BY <2>1, <2>2
<1> HIDE DEF w
<1>10. \A i \in is : w(i) <= new
  BY <1>1, <1>7, <1>9 DEF FullRisk
<1>11. \A i \in is \union {n + 1} : w(i) <= new
  BY <1>7, <1>8, <1>10, Zenon
<1>12. new = 0 \/ \E i \in is \union {n + 1} : w(i) = new
  BY <1>2, <1>7, <1>8
<1>13. RiskExplained(h, new, t, is \union {n + 1})
  BY <1>7, <1>11, <1>12, Zenon DEF RiskExplained, w
<1>14. QED BY <1>3, <1>13

\* What an alert weighs is a number.
LEMMA WeighsSome ==
  ASSUME NEW a, Sayable(a), NEW h PROVE Weight(a, h) \in Int
<1>1. PICK p \in Nat, c \in Int : p = Points(a.severity) /\ c = a.confidence
  BY DEF Sayable, Severities, Points
<1>2. PICK x \in Int : x = p * c
  BY <1>1
<1>3. x \in Int /\ (x * 8) \div 10 \in Int
  OBVIOUS
<1>4. QED BY <1>1, <1>2, <1>3 DEF Weight

\* A host that an alert compromises.
SameUpTo(s, t, n) == \A i \in 1..n : t[i] = s[i]

LEMMA HitIs ==
  ASSUME NEW s, Sayings(s), NEW t, NEW n \in Nat, n = Len(s), SameUpTo(s, t, n),
         NEW ts \in Nat \ {0}, t[n + 1][1].ts = ts,
         NEW is \in SUBSET (1..n), NEW h, NEW node, NodeExplained(h, node, s, is),
         NEW points \in Int, Weight(t[n + 1][1], h) = points
  PROVE  NodeExplained(h, Hit(node, ts, points), t, is \union {n + 1})
<1> DEFINE js == is \union {n + 1}
           hit == Hit(node, ts, points)
<1>1. /\ hit.compromised = IF node.compromised = 0 THEN ts ELSE node.compromised
      /\ hit.risk = Min({FullRisk, Max({node.risk, points})})
      /\ hit.alerts = node.alerts + 1
  BY DEF Hit, FullRisk
<1>2. IsFiniteSet(is)
  <2>1. IsFiniteSet(1..n)
    BY FS_Interval
  <2>2. QED BY <2>1, FS_Subset
<1>3. n + 1 \notin is /\ js # {}
  OBVIOUS
<1>4. Cardinality(js) = Cardinality(is) + 1 /\ Cardinality(is) \in Nat
  BY <1>2, <1>3, FS_AddElement, FS_CardinalityType
<1>5. Min(js) = IF is = {} THEN n + 1 ELSE Min(is)
  <2>1. is \in SUBSET Nat /\ \A x \in is : x < n + 1
    OBVIOUS
  <2>2. n + 1 \in Nat
    OBVIOUS
  <2>3. QED BY <2>1, <2>2, MinOfOneMore
<1>6. is # {} => Min(is) \in 1..n
  <2>1. is \in SUBSET Nat
    OBVIOUS
  <2>2. QED BY <2>1, MinIs
<1>7. is # {} => node.compromised \in Nat \ {0} /\ t[Min(is)] = s[Min(is)]
  BY <1>6 DEF NodeExplained, Sayings, Sayable, SameUpTo
<1>8. hit.compromised = t[Min(js)][1].ts /\ hit.compromised \in Nat
  BY <1>1, <1>5, <1>7 DEF NodeExplained
<1>9. RiskExplained(h, hit.risk, t, js)
  <2>1. RiskExplained(h, node.risk, s, is) /\ \A i \in 1..n : t[i] = s[i]
    BY DEF NodeExplained, SameUpTo
  <2>2. PICK r : r = node.risk
    OBVIOUS
  <2>3. \A i \in is : t[i] = s[i] /\ Weight(s[i][1], h) \in Int
    <3>1. ASSUME NEW i \in is PROVE t[i] = s[i] /\ Sayable(s[i][1])
      <4>1. i \in 1..n
        BY <3>1
      <4>2. QED BY <4>1 DEF SameUpTo, Sayings
    <3>2. QED BY <3>1, WeighsSome
  <2>4. \A i \in is : t[i] = s[i]
    BY <2>3
  <2>5. \A i \in is : Weight(s[i][1], h) \in Int
    BY <2>3
  <2>6. RiskExplained(h, Min({FullRisk, Max({r, points})}), t, js)
    BY <2>1, <2>2, <2>4, <2>5, RiskRises
  <2>7. QED BY <1>1, <2>2, <2>6
<1>10. NodeExplained(h, hit, t, js)
  <2> HIDE DEF hit, js
  <2>1. hit.alerts = Cardinality(js)
    BY <1>1, <1>4 DEF NodeExplained
  <2>2. QED BY <1>3, <1>8, <1>9, <2>1 DEF NodeExplained
<1>11. QED BY <1>10

\* A host that a graph may not have yet.
LEMMA NodeAdded ==
  ASSUME NEW g, Drawn(g), NEW h \in Hosts, NEW d, d = WithNode(g, h)
  PROVE  /\ Drawn(d) /\ h \in DOMAIN d.nodes /\ d.edges = g.edges
         /\ DOMAIN g.nodes \subseteq DOMAIN d.nodes
         /\ \A x : NodeOf(d, x) = NodeOf(g, x)
<1>1. CASE h \in DOMAIN g.nodes
  BY <1>1 DEF WithNode, Known
<1>2. CASE h \notin DOMAIN g.nodes
  <2>1. PICK nodes, edges, timeline :
          g = [nodes |-> nodes, edges |-> edges, timeline |-> timeline]
    BY DEF Drawn
  <2>2. g.nodes = nodes /\ g.edges = edges
    BY <2>1
  <2>3. PICK more : more = With(nodes, h, NewNode)
    OBVIOUS
  <2>4. /\ DOMAIN more = DOMAIN nodes \union {h} /\ more[h] = NewNode
        /\ \A x \in DOMAIN nodes : more[x] = nodes[x]
    BY <1>2, <2>2, <2>3 DEF With
  <2>5. d = [nodes |-> more, edges |-> edges, timeline |-> timeline]
    BY <1>2, <2>1, <2>2, <2>3 DEF WithNode, Known
  <2>6. d.nodes = more /\ d.edges = edges /\ d.timeline = timeline
    BY <2>5
  <2>7. Drawn(d)
    BY <2>2, <2>4, <2>5, <2>6 DEF Drawn
  <2>8. \A x : NodeOf(d, x) = NodeOf(g, x)
    BY <1>2, <2>2, <2>4, <2>6 DEF NodeOf
  <2>9. QED BY <2>2, <2>4, <2>6, <2>7, <2>8
<1>3. QED BY <1>1, <1>2

LEMMA NodesAdded ==
  ASSUME NEW g, Drawn(g), NEW s \in Hosts, NEW h \in Hosts, NEW d, d = WithNodes(g, s, h)
  PROVE  /\ Drawn(d) /\ s \in DOMAIN d.nodes /\ h \in DOMAIN d.nodes /\ d.edges = g.edges
         /\ \A x : NodeOf(d, x) = NodeOf(g, x)
<1>1. PICK c : c = WithNode(g, s)
  OBVIOUS
<1>2. d = WithNode(c, h)
  BY <1>1 DEF WithNodes
<1>3. QED BY <1>1, <1>2, NodeAdded

\* Hosts and edges that are new explain nothing and need no explanation.
LEMMA FlowIsExplained ==
  ASSUME NEW g, NEW s, Explains(g, s), NEW x \in Hosts, NEW y \in Hosts
  PROVE  Explains(GraphFlow(g, x, y), s) /\ <<x, y>> \in DOMAIN GraphFlow(g, x, y).edges
<1>1. PICK w : w = WithNodes(g, x, y)
  OBVIOUS
<1>2. /\ Drawn(w) /\ x \in DOMAIN w.nodes /\ y \in DOMAIN w.nodes /\ w.edges = g.edges
      /\ \A h : NodeOf(w, h) = NodeOf(g, h)
  BY <1>1, NodesAdded DEF Explains
<1>3. PICK edge : edge = EdgeOf(g, <<x, y>>)
  OBVIOUS
<1>4. PICK more : more = [edge EXCEPT !.flows = @ + 1]
  OBVIOUS
<1>5. PICK edges : edges = With(g.edges, <<x, y>>, more)
  OBVIOUS
<1>6. PICK d : d = GraphFlow(g, x, y)
  OBVIOUS
<1>7. d = [w EXCEPT !.edges = edges]
  BY <1>1, <1>2, <1>3, <1>4, <1>5, <1>6 DEF GraphFlow, EdgeOf
<1>8. PICK nodes, timeline : w = [nodes |-> nodes, edges |-> g.edges, timeline |-> timeline]
  BY <1>2 DEF Drawn
<1>9. d = [nodes |-> nodes, edges |-> edges, timeline |-> timeline] /\ w.nodes = nodes
  BY <1>7, <1>8
<1>10. d.nodes = w.nodes /\ d.edges = edges
  BY <1>9
<1>11. /\ DOMAIN edges = DOMAIN g.edges \union {<<x, y>>} /\ edges[<<x, y>>] = more
       /\ \A e \in DOMAIN g.edges : e # <<x, y>> => edges[e] = g.edges[e]
  BY <1>5 DEF With
<1>12. Drawn(d)
  <2>1. /\ DOMAIN w.nodes \subseteq Hosts
        /\ \A e \in DOMAIN g.edges :
             e \in Hosts \X Hosts /\ e[1] \in DOMAIN w.nodes /\ e[2] \in DOMAIN w.nodes
    BY <1>2 DEF Drawn
  <2>2. \A e \in DOMAIN edges :
          e \in Hosts \X Hosts /\ e[1] \in DOMAIN w.nodes /\ e[2] \in DOMAIN w.nodes
    BY <1>2, <1>11, <2>1
  <2>3. d = [nodes |-> d.nodes, edges |-> d.edges, timeline |-> d.timeline]
    BY <1>9
  <2>4. QED BY <1>10, <2>1, <2>2, <2>3 DEF Drawn
<1>13. \A h : NodeOf(d, h) = NodeOf(g, h)
  BY <1>2, <1>10 DEF NodeOf
<1>14. /\ more.lateral = edge.lateral /\ more.c2 = edge.c2
       /\ more = [flows |-> more.flows, lateral |-> more.lateral, c2 |-> more.c2]
  <2>1. EdgeExplained(edge, s, Marking(s, <<x, y>>))
    BY <1>3 DEF Explains
  <2>2. PICK flows, lateral, c2 : edge = [flows |-> flows, lateral |-> lateral, c2 |-> c2]
    BY <2>1 DEF EdgeExplained
  <2>3. more = [flows |-> flows + 1, lateral |-> lateral, c2 |-> c2]
    BY <1>4, <2>2
  <2>4. QED BY <2>2, <2>3
<1>15. ASSUME NEW e \in Hosts \X Hosts
       PROVE  EdgeExplained(EdgeOf(d, e), s, Marking(s, e))
  <2>1. EdgeExplained(EdgeOf(g, e), s, Marking(s, e))
    BY DEF Explains
  <2>2. CASE e = <<x, y>>
    <3>1. EdgeOf(d, e) = more /\ EdgeOf(g, e) = edge
      BY <1>3, <1>10, <1>11, <2>2 DEF EdgeOf
    <3>2. QED BY <1>14, <2>1, <3>1 DEF EdgeExplained
  <2>3. CASE e # <<x, y>>
    <3>1. EdgeOf(d, e) = EdgeOf(g, e)
      BY <1>10, <1>11, <2>3 DEF EdgeOf
    <3>2. QED BY <2>1, <3>1
  <2>4. QED BY <2>2, <2>3
<1>16. QED BY <1>6, <1>10, <1>11, <1>12, <1>13, <1>15 DEF Explains

LEMMA PointsOf ==
  ASSUME NEW a, Sayable(a), a.severity # "LOW",
         NEW points, points = Points(a.severity) * a.confidence
  PROVE  /\ points \in Int /\ (points * 8) \div 10 \in Int
         /\ Weight(a, a.src) = points /\ Weight(a, a.dst) = (points * 8) \div 10
<1>1. PICK c \in Int : c = a.confidence
  BY DEF Sayable
<1>2. PICK p \in {40, 75, 100} : p = Points(a.severity)
  BY DEF Sayable, Severities, Points
<1>3. p * c \in Int
  BY <1>1, <1>2
<1>4. PICK q \in Int : q = points
  BY <1>1, <1>2, <1>3
<1>5. (q * 8) \div 10 \in Int
  OBVIOUS
<1>6. Weight(a, a.src) = q /\ Weight(a, a.dst) = (q * 8) \div 10
  BY <1>4 DEF Weight, Sayable
<1>7. QED BY <1>4, <1>5, <1>6

\* What an alert above LOW makes of the graph p, in which its hosts are nodes:
\* one has its source hit, both its target too.
Struck(nodes, h, ts, points) == [nodes EXCEPT ![h] = Hit(@, ts, points)]
AlertPoints(a) == Points(a.severity) * a.confidence
Redrawn(p, a, one, both) ==
  LET e == <<a.src, a.dst>>
      near == e \in DOMAIN p.edges /\ a.category = "LATERAL_MOVEMENT"
      far == e \in DOMAIN p.edges /\ a.category \in {"MALICIOUS_C2", "C2_BEACONING"}
  IN [nodes |-> IF near THEN both ELSE one,
      edges |-> IF near THEN [p.edges EXCEPT ![e].lateral = TRUE]
                ELSE IF far THEN [p.edges EXCEPT ![e].c2 = TRUE]
                ELSE p.edges,
      timeline |-> Append(p.timeline, a)]
RedrawnBy(p, a) ==
  LET one == Struck(p.nodes, a.src, a.ts, AlertPoints(a))
  IN  Redrawn(p, a, one, Struck(one, a.dst, a.ts, (AlertPoints(a) * 8) \div 10))

LEMMA GraphAlertIs ==
  ASSUME NEW g, NEW a, a.severity # "LOW"
  PROVE  GraphAlert(g, a) = RedrawnBy(WithNodes(g, a.src, a.dst), a)
BY Zenon DEF GraphAlert, RedrawnBy, Redrawn, Struck, AlertPoints

\* A recorded alert explains what it changes.
LEMMA AlertIsExplained ==
  ASSUME NEW g, NEW s, Explains(g, s), NEW a, Sayable(a),
         NEW flag \in BOOLEAN, flag <=> <<a.src, a.dst>> \in DOMAIN g.edges,
         NEW t, t = Append(s, <<a, flag>>)
  PROVE  Explains(GraphAlert(g, a), t) /\ DOMAIN GraphAlert(g, a).edges = DOMAIN g.edges
<1> DEFINE new == <<a, flag>>
           spreads == flag /\ a.category = "LATERAL_MOVEMENT"
           calls == flag /\ a.category \in {"MALICIOUS_C2", "C2_BEACONING"}
           e == <<a.src, a.dst>>
<1>1. Sayings(s)
  BY DEF Explains
<1>2. PICK p, n : p = WithNodes(g, a.src, a.dst) /\ n = Len(s)
  OBVIOUS
<1>3. /\ Drawn(p) /\ a.src \in DOMAIN p.nodes /\ a.dst \in DOMAIN p.nodes
      /\ p.edges = g.edges
      /\ \A h : NodeOf(p, h) = NodeOf(g, h)
  BY <1>2, NodesAdded DEF Explains, Sayable
<1>4. OneMoreSaid(s, t, new)
  BY <1>1, SayingMore, Zenon
<1>5. /\ Sayings(t) /\ n \in Nat /\ Len(t) = n + 1 /\ t[n + 1] = new
      /\ \A i \in 1..n : t[i] = s[i]
  BY <1>2, <1>4 DEF OneMoreSaid
<1>6. /\ \A h : Blaming(t, h) = IF Blames(new, h) THEN Blaming(s, h) \union {n + 1}
                               ELSE Blaming(s, h)
      /\ \A x : Marking(t, x) = IF Marks(new, x) THEN Marking(s, x) \union {n + 1}
                               ELSE Marking(s, x)
  <2> HIDE DEF new
  <2>1. QED BY <1>2, <1>4 DEF OneMoreSaid
<1>7. SameUpTo(s, t, n)
  BY <1>5 DEF SameUpTo
<1>8. \A h : Blaming(s, h) \in SUBSET (1..n)
  BY <1>2 DEF Blaming
<1>9. \A x : Marking(s, x) \in SUBSET (1..n)
  BY <1>2 DEF Marking
<1>10. new[1] = a /\ new[2] = flag
  OBVIOUS
<1> HIDE DEF new
<1>11. ASSUME NEW h \in Hosts
       PROVE  /\ NodeExplained(h, NodeOf(p, h), t, Blaming(s, h))
              /\ NodeExplained(h, NodeOf(p, h), s, Blaming(s, h))
  <2>1. NodeExplained(h, NodeOf(p, h), s, Blaming(s, h))
    BY <1>3 DEF Explains
  <2>2. QED BY <1>5, <1>8, <2>1, NodeStays
<1>12. ASSUME NEW x \in Hosts \X Hosts
       PROVE  EdgeExplained(EdgeOf(p, x), t, Marking(s, x))
  <2>1. EdgeExplained(EdgeOf(p, x), s, Marking(s, x))
    BY <1>3 DEF Explains, EdgeOf
  <2>2. QED BY <1>5, <1>9, <2>1, EdgeStays
<1>13. PICK d : d = GraphAlert(g, a)
  OBVIOUS
<1>14. CASE a.severity = "LOW"
  <2>1. d = p
    BY <1>2, <1>13, <1>14 DEF GraphAlert
  <2>2. \A h : Blaming(t, h) = Blaming(s, h)
    BY <1>6, <1>10, <1>14 DEF Blames
  <2>3. \A x : Marking(t, x) = Marking(s, x)
    BY <1>6, <1>10, <1>14 DEF Marks
  <2>4. QED BY <1>3, <1>5, <1>11, <1>12, <1>13, <2>1, <2>2, <2>3 DEF Explains
<1>15. CASE a.severity # "LOW"
  <2>1. PICK points : points = Points(a.severity) * a.confidence
    OBVIOUS
  <2>2. PICK nodes, edges, timeline :
          p = [nodes |-> nodes, edges |-> edges, timeline |-> timeline]
    BY <1>3 DEF Drawn
  <2>3. p.nodes = nodes /\ p.edges = edges
    BY <2>2
  <2>4. PICK one : one = [nodes EXCEPT ![a.src] = Hit(@, a.ts, points)]
    OBVIOUS
  <2>5. PICK both : both = [one EXCEPT ![a.dst] = Hit(@, a.ts, (points * 8) \div 10)]
    OBVIOUS
  <2>6. d = [nodes |-> IF spreads THEN both ELSE one,
             edges |-> IF spreads THEN [edges EXCEPT ![e].lateral = TRUE]
                       ELSE IF calls THEN [edges EXCEPT ![e].c2 = TRUE] ELSE edges,
             timeline |-> Append(p.timeline, a)]
    <3>1. d = RedrawnBy(p, a)
      BY <1>2, <1>13, <1>15, GraphAlertIs
    <3>2. one = Struck(p.nodes, a.src, a.ts, AlertPoints(a))
      BY <2>1, <2>3, <2>4 DEF Struck, AlertPoints
    <3>3. both = Struck(one, a.dst, a.ts, (AlertPoints(a) * 8) \div 10)
      BY <2>1, <2>5 DEF Struck, AlertPoints
    <3>4. d = Redrawn(p, a, one, both)
      BY <3>1, <3>2, <3>3 DEF RedrawnBy
    <3>5. e \in DOMAIN p.edges <=> flag
      BY <1>3
    <3>6. QED BY <2>3, <3>4, <3>5 DEF Redrawn
  <2>7. /\ points \in Int /\ (points * 8) \div 10 \in Int /\ a.ts \in Nat \ {0}
        /\ Weight(t[n + 1][1], a.src) = points
        /\ Weight(t[n + 1][1], a.dst) = (points * 8) \div 10
        /\ a.src \in Hosts /\ a.dst \in Hosts /\ a.src # a.dst /\ t[n + 1][1].ts = a.ts
    BY <1>5, <1>10, <1>15, <2>1, PointsOf DEF Sayable
  <2>8. PICK after : after = IF spreads THEN both ELSE one
    OBVIOUS
  <2>9. PICK over : over = IF spreads THEN [edges EXCEPT ![e].lateral = TRUE]
                           ELSE IF calls THEN [edges EXCEPT ![e].c2 = TRUE] ELSE edges
    OBVIOUS
  <2>10. /\ d = [nodes |-> d.nodes, edges |-> d.edges, timeline |-> d.timeline]
         /\ d.nodes = after /\ d.edges = over
    BY <2>6, <2>8, <2>9
  <2>11. /\ DOMAIN after = DOMAIN nodes
         /\ after[a.src] = Hit(nodes[a.src], a.ts, points)
         /\ after[a.dst] = IF spreads THEN Hit(nodes[a.dst], a.ts, (points * 8) \div 10)
                           ELSE nodes[a.dst]
         /\ \A h \in DOMAIN nodes : h # a.src /\ h # a.dst => after[h] = nodes[h]
    <3> HIDE DEF spreads
    <3>1. QED BY <1>3, <2>3, <2>4, <2>5, <2>7, <2>8
  <2>12. DOMAIN over = DOMAIN edges /\ \A x \in DOMAIN edges : x # e => over[x] = edges[x]
    <3> HIDE DEF spreads, calls, e
    <3>1. QED BY <2>9
  <2>13. ASSUME NEW h \in Hosts PROVE NodeExplained(h, NodeOf(d, h), t, Blaming(t, h))
    <3>1. PICK is \in SUBSET (1..n) : is = Blaming(s, h)
      BY <1>8
    <3>2. NodeExplained(h, NodeOf(p, h), s, is) /\ NodeExplained(h, NodeOf(p, h), t, is)
      BY <1>11, <3>1
    <3>3. Blames(new, h) <=> h = a.src \/ (h = a.dst /\ spreads)
      BY <1>10, <1>15, Zenon DEF Blames
    <3>4. CASE h = a.src
      <4>1. NodeOf(d, h) = Hit(NodeOf(p, h), a.ts, points)
        BY <1>3, <2>3, <2>10, <2>11, <3>4 DEF NodeOf
      <4>2. NodeExplained(h, NodeOf(d, h), t, is \union {n + 1})
        <5>1. PICK k \in Int : k = points /\ Weight(t[n + 1][1], h) = k
          BY <2>7, <3>4
        <5>2. PICK ts \in Nat \ {0} : ts = a.ts
          BY <2>7
        <5>3. PICK node : node = NodeOf(p, h)
          OBVIOUS
        <5>4. /\ Sayings(s) /\ n \in Nat /\ n = Len(s)
              /\ t[n + 1][1].ts = ts /\ NodeExplained(h, node, s, is)
          BY <1>1, <1>2, <1>5, <2>7, <3>2, <5>3, <5>2
        <5>5. NodeExplained(h, Hit(node, ts, k), t, is \union {n + 1})
          BY <1>7, <5>1, <5>4, HitIs, Zenon
        <5>6. QED BY <4>1, <5>1, <5>3, <5>5, <5>2
      <4>3. Blames(new, h)
        BY <3>3, <3>4, Zenon
      <4>4. QED BY <1>6, <3>1, <4>2, <4>3
    <3>5. CASE h = a.dst /\ spreads
      <4>1. NodeOf(d, h) = Hit(NodeOf(p, h), a.ts, (points * 8) \div 10)
        BY <1>3, <2>3, <2>10, <2>11, <3>5 DEF NodeOf
      <4>2. NodeExplained(h, NodeOf(d, h), t, is \union {n + 1})
        <5>1. PICK k \in Int : k = (points * 8) \div 10 /\ Weight(t[n + 1][1], h) = k
          BY <2>7, <3>5
        <5>2. PICK ts \in Nat \ {0} : ts = a.ts
          BY <2>7
        <5>3. PICK node : node = NodeOf(p, h)
          OBVIOUS
        <5>4. /\ Sayings(s) /\ n \in Nat /\ n = Len(s)
              /\ t[n + 1][1].ts = ts /\ NodeExplained(h, node, s, is)
          BY <1>1, <1>2, <1>5, <2>7, <3>2, <5>3, <5>2
        <5>5. NodeExplained(h, Hit(node, ts, k), t, is \union {n + 1})
          BY <1>7, <5>1, <5>4, HitIs, Zenon
        <5>6. QED BY <4>1, <5>1, <5>3, <5>5, <5>2
      <4>3. Blames(new, h)
        BY <3>3, <3>5, Zenon
      <4>4. QED BY <1>6, <3>1, <4>2, <4>3
    <3>6. CASE h # a.src /\ ~(h = a.dst /\ spreads)
      <4>1. NodeOf(d, h) = NodeOf(p, h)
        <5> HIDE DEF spreads
        <5>1. QED BY <1>3, <2>3, <2>10, <2>11, <3>6 DEF NodeOf
      <4>2. QED BY <1>6, <3>1, <3>2, <3>3, <3>6, <4>1
    <3>7. QED BY <3>4, <3>5, <3>6
  <2>14. ASSUME NEW x \in Hosts \X Hosts PROVE EdgeExplained(EdgeOf(d, x), t, Marking(t, x))
    <3>1. PICK is \in SUBSET (1..n) : is = Marking(s, x)
      BY <1>9
    <3>2. EdgeExplained(EdgeOf(p, x), t, is)
      BY <1>12, <3>1
    <3>3. Marks(new, x) <=> flag /\ x = e
      BY <1>10, <1>15 DEF Marks
    <3>4. CASE ~(flag /\ x = e)
      <4>1. EdgeOf(d, x) = EdgeOf(p, x)
        <5>1. CASE x # e
          BY <2>3, <2>10, <2>12, <5>1 DEF EdgeOf
        <5>2. CASE ~flag
          BY <2>3, <2>9, <2>10, <5>2 DEF EdgeOf
        <5>3. QED BY <3>4, <5>1, <5>2
      <4>2. QED BY <1>6, <3>1, <3>2, <3>3, <3>4, <4>1
    <3>5. CASE flag /\ x = e
      <4>1. x \in DOMAIN edges /\ EdgeOf(p, x) = edges[x]
        BY <1>3, <2>3, <3>5 DEF EdgeOf
      <4>2. PICK edge : edge = edges[x]
        OBVIOUS
      <4>3. EdgeExplained(edge, t, is)
        BY <3>2, <4>1, <4>2
      <4>4. PICK more : more = over[x]
        OBVIOUS
      <4>5. /\ more.lateral \in BOOLEAN /\ more.c2 \in BOOLEAN
            /\ more = [flows |-> more.flows, lateral |-> more.lateral, c2 |-> more.c2]
            /\ more.lateral <=> edge.lateral \/ a.category = "LATERAL_MOVEMENT"
            /\ more.c2 <=> edge.c2 \/ a.category \in {"MALICIOUS_C2", "C2_BEACONING"}
        <5>1. PICK flows, lateral, c2 :
                edge = [flows |-> flows, lateral |-> lateral, c2 |-> c2]
          BY <4>3 DEF EdgeExplained
        <5>2. /\ edge.lateral = lateral /\ edge.c2 = c2
              /\ lateral \in BOOLEAN /\ c2 \in BOOLEAN
          BY <4>3, <5>1 DEF EdgeExplained
        <5>3. CASE a.category = "LATERAL_MOVEMENT"
          <6>1. over = [edges EXCEPT ![x].lateral = TRUE]
            BY <2>9, <3>5, <5>3
          <6>2. over[x] = [edge EXCEPT !.lateral = TRUE]
            BY <4>1, <4>2, <6>1
          <6>3. over[x] = [flows |-> flows, lateral |-> TRUE, c2 |-> c2]
            BY <5>1, <6>2
          <6>4. QED BY <4>4, <5>2, <5>3, <6>3
        <5>4. CASE a.category \in {"MALICIOUS_C2", "C2_BEACONING"}
          <6>1. over = [edges EXCEPT ![x].c2 = TRUE]
            BY <2>9, <3>5, <5>4
          <6>2. over[x] = [edge EXCEPT !.c2 = TRUE]
            BY <4>1, <4>2, <6>1
          <6>3. over[x] = [flows |-> flows, lateral |-> lateral, c2 |-> TRUE]
            BY <5>1, <6>2
          <6>4. QED BY <4>4, <5>2, <5>4, <6>3
        <5>5. CASE a.category \notin {"LATERAL_MOVEMENT", "MALICIOUS_C2", "C2_BEACONING"}
          <6>1. over = edges
            BY <2>9, <3>5, <5>5
          <6>2. QED BY <4>2, <4>4, <5>1, <5>2, <5>5, <6>1
        <5>6. QED BY <5>3, <5>4, <5>5
      <4>6. EdgeOf(d, x) = more
        BY <2>10, <2>12, <4>1, <4>4 DEF EdgeOf
      <4>7. Marking(t, x) = is \union {n + 1} /\ t[n + 1][1] = a
        <5>1. Marks(new, x)
          BY <3>3, <3>5, Zenon
        <5>2. QED BY <1>5, <1>6, <1>10, <3>1, <5>1
      <4>8. PICK js : js = is \union {n + 1}
        OBVIOUS
      <4>9. (\E i \in js : t[i][1].category = "LATERAL_MOVEMENT")
              <=> edge.lateral \/ a.category = "LATERAL_MOVEMENT"
        BY <4>3, <4>7, <4>8 DEF EdgeExplained
      <4>10. (\E i \in js : t[i][1].category \in {"MALICIOUS_C2", "C2_BEACONING"})
               <=> edge.c2 \/ a.category \in {"MALICIOUS_C2", "C2_BEACONING"}
        BY <4>3, <4>7, <4>8 DEF EdgeExplained
      <4>11. EdgeExplained(more, t, js)
        BY <4>5, <4>9, <4>10 DEF EdgeExplained
      <4>12. QED BY <4>6, <4>7, <4>8, <4>11
    <3>6. QED BY <3>4, <3>5
  <2>15. Drawn(d)
    BY <1>3, <2>3, <2>10, <2>11, <2>12 DEF Drawn
  <2>16. QED BY <1>3, <1>5, <1>13, <2>3, <2>10, <2>12, <2>13, <2>14, <2>15 DEF Explains
<1>16. QED BY <1>14, <1>15

LEMMA RecordedIs ==
  ASSUME NEW g, NEW a
  PROVE  Recorded(g, <<>>) = g /\ Recorded(g, <<a>>) = GraphAlert(g, a)
<1>1. Recorded(g, <<>>) = g
  <2> DEFINE Is(f) == f = [i \in 0..Len(<<>>) |-> IF i = 0 THEN g
                                                  ELSE GraphAlert(f[i - 1], <<>>[i])]
             drawn == CHOOSE f : Is(f)
  <2>1. Recorded(g, <<>>) = drawn[Len(<<>>)]
    BY Zenon DEF Recorded
  <2>2. PICK w : w = [i \in 0..0 |-> g]
    OBVIOUS
  <2>3. Is(w)
    <3>1. \A i \in 0..0 : i = 0
      OBVIOUS
    <3>2. Len(<<>>) = 0
      OBVIOUS
    <3>3. w = [i \in 0..0 |-> IF i = 0 THEN g ELSE GraphAlert(w[i - 1], <<>>[i])]
      BY <2>2, <3>1
    <3>4. QED BY <3>2, <3>3
  <2>4. Is(drawn)
    <3> HIDE DEF Is
    <3>1. QED BY <2>3, Zenon
  <2> HIDE DEF drawn
  <2>5. drawn[0] = g
    BY <2>4
  <2>6. QED BY <2>1, <2>5
<1>2. Recorded(g, <<a>>) = GraphAlert(g, a)
  <2> DEFINE as == <<a>>
             Is(f) == f = [i \in 0..Len(<<a>>) |-> IF i = 0 THEN g
                                                   ELSE GraphAlert(f[i - 1], <<a>>[i])]
             drawn == CHOOSE f : Is(f)
  <2>1. Recorded(g, <<a>>) = drawn[Len(<<a>>)]
    BY Zenon DEF Recorded
  <2>2. PICK next : next = GraphAlert(g, a)
    OBVIOUS
  <2>3. PICK w : w = [i \in 0..1 |-> IF i = 0 THEN g ELSE next]
    OBVIOUS
  <2>4. Len(<<a>>) = 1 /\ <<a>>[1] = a
    OBVIOUS
  <2>5. Is(w)
    <3>1. \A i \in 0..1 : i = 0 \/ i = 1
      OBVIOUS
    <3>2. w[0] = g
      BY <2>3
    <3>3. ASSUME NEW i \in 0..1
          PROVE  w[i] = IF i = 0 THEN g ELSE GraphAlert(w[i - 1], <<a>>[i])
      <4>1. CASE i = 0
        BY <2>3, <4>1
      <4>2. CASE i = 1
        <5>1. w[i] = next /\ w[i - 1] = g /\ <<a>>[i] = a
          BY <2>3, <2>4, <4>2
        <5>2. QED BY <2>2, <4>2, <5>1
      <4>3. QED BY <3>1, <4>1, <4>2
    <3>4. w = [i \in 0..1 |-> w[i]]
      BY <2>3
    <3>5. w = [i \in 0..1 |-> IF i = 0 THEN g ELSE GraphAlert(w[i - 1], <<a>>[i])]
      BY <3>3, <3>4
    <3>6. QED BY <2>4, <3>5
  <2>6. Is(drawn)
    <3> HIDE DEF Is
    <3>1. QED BY <2>5, Zenon
  <2> HIDE DEF drawn
  <2>7. drawn = [i \in 0..1 |-> IF i = 0 THEN g ELSE GraphAlert(drawn[i - 1], <<a>>[i])]
    BY <2>4, <2>6
  <2>8. drawn[0] = g
    BY <2>7
  <2>9. drawn[1] = GraphAlert(drawn[1 - 1], <<a>>[1])
    BY <2>7
  <2>10. drawn[1] = GraphAlert(g, a)
    BY <2>4, <2>8, <2>9
  <2>11. QED BY <2>1, <2>4, <2>10
<1>3. QED BY <1>1, <1>2

LEMMA TaggedIs ==
  ASSUME NEW g, NEW s, IsSequence(s), NEW a
  PROVE  /\ s \o Tagged(g, <<>>) = s
         /\ s \o Tagged(g, <<a>>) = Append(s, <<a, <<a.src, a.dst>> \in DOMAIN g.edges>>)
<1>1. PICK one : one = <<a, <<a.src, a.dst>> \in DOMAIN g.edges>>
  OBVIOUS
<1>2. Tagged(g, <<>>) = <<>>
  BY DEF Tagged
<1>3. Tagged(g, <<a>>) = <<one>>
  <2>1. DOMAIN <<a>> = 1..1 /\ <<a>>[1] = a
    OBVIOUS
  <2>2. \A i \in 1..1 : <<a>>[i] = a
    BY <2>1
  <2>3. Tagged(g, <<a>>) = [i \in 1..1 |-> one]
    BY <1>1, <2>1, <2>2 DEF Tagged
  <2>4. QED BY <2>3
<1>4. PICK S : S = ToSet(s) \union {one}
  OBVIOUS
<1>5. s \in Seq(S) /\ one \in S
  BY <1>4 DEF IsSequence
<1>6. s \o <<>> = s /\ s \o <<one>> = Append(s, one)
  BY <1>5
<1>7. QED BY <1>1, <1>2, <1>3, <1>6

GraphInv ==
  clock \in Nat /\ clock >= 10 /\ sure \in [Hosts -> Int] /\ Explains(graph, said)

\* What the lists and the filter say of a flow: nothing, or one alert.
LEMMA IntelAlertsAre ==
  ASSUME clock \in Nat, clock >= 10, sure \in [Hosts -> Int], NEW x \in Hosts, NEW y \in Hosts, x # y,
         NEW late \in Lateness
  PROVE  LET found == IntelAlerts(x, y, clock - late)
         IN  found = <<>> \/ \E a : Sayable(a) /\ found = <<a>>
<1>1. clock - late \in Nat \ {0}
  <2>1. late \in 0..9
    BY KindsAssumption
  <2>2. QED BY <2>1
<1>2. PICK ts \in Nat \ {0} : ts = clock - late
  BY <1>1
<1>3. ASSUME NEW h PROVE ListSeverity(h) \in Severities \union {"none"}
  <2> DEFINE hits == {i \in DOMAIN Ranges : h \in Ranges[i][1]}
  <2>1. CASE h \in DOMAIN Listed
    BY <2>1, KindsAssumption DEF ListSeverity
  <2>2. CASE h \notin DOMAIN Listed /\ hits # {}
    <3>1. DOMAIN Ranges = 1..Len(Ranges) /\ Len(Ranges) \in Nat
      BY KindsAssumption
    <3>2. hits \in SUBSET Nat
      BY <3>1
    <3>3. Min(hits) \in hits
      <4> HIDE DEF hits
      <4>1. QED BY <2>2, <3>2, MinIs
    <3>4. Min(hits) \in 1..Len(Ranges)
      BY <3>1, <3>3
    <3>5. Ranges[Min(hits)] \in (SUBSET Hosts) \X Severities
      <4> HIDE DEF hits
      <4>1. QED BY <3>4, KindsAssumption
    <3>6. Ranges[Min(hits)][2] \in Severities
      BY <3>5
    <3>7. QED BY <2>2, <3>6 DEF ListSeverity
  <2>3. CASE h \notin DOMAIN Listed /\ hits = {}
    BY <2>3 DEF ListSeverity
  <2>4. QED BY <2>1, <2>2, <2>3
<1>4. ASSUME NEW severity \in Severities, NEW confidence \in Int, NEW at \in Nat \ {0}
      PROVE  Sayable(C2(x, y, severity, confidence, at))
  BY DEF Sayable, C2
<1>5. ListAlerts(x, y) = <<>> \/ \E a : Sayable(a) /\ ListAlerts(x, y) = <<a>>
  <2>1. PICK severity : severity = IF ListSeverity(y) # "none" THEN ListSeverity(y)
                                   ELSE ListSeverity(x)
    OBVIOUS
  <2>2. CASE severity = "none"
    BY <2>1, <2>2 DEF ListAlerts
  <2>3. CASE severity # "none"
    <3>1. severity \in Severities
      BY <1>3, <2>1, <2>3
    <3>2. PICK a : a = C2(x, y, severity, 98, clock)
      OBVIOUS
    <3>3. Sayable(a)
      BY <1>4, <3>1, <3>2
    <3>4. ListAlerts(x, y) = <<a>>
      BY <2>1, <2>3, <3>2 DEF ListAlerts
    <3>5. QED BY <3>3, <3>4
  <2>4. QED BY <2>2, <2>3
<1>6. BloomAlerts(x, y, ts) = <<>> \/ \E a : Sayable(a) /\ BloomAlerts(x, y, ts) = <<a>>
  <2>1. PICK a, b : /\ a = C2(x, y, "CRITICAL", sure[y], ts)
                  /\ b = C2(x, y, "HIGH", sure[x], ts)
    OBVIOUS
  <2>2. Sayable(a) /\ Sayable(b)
    BY <1>4, <2>1 DEF Severities
  <2>3. BloomAlerts(x, y, ts) = IF Query(intel, y) THEN <<a>>
                                ELSE IF Query(intel, x) THEN <<b>> ELSE <<>>
    BY <2>1 DEF BloomAlerts
  <2>4. QED BY <2>2, <2>3
<1>7. IntelAlerts(x, y, ts) = IF ListAlerts(x, y) # <<>> THEN ListAlerts(x, y)
                              ELSE BloomAlerts(x, y, ts)
  BY DEF IntelAlerts
<1>8. QED BY <1>2, <1>5, <1>6, <1>7

LEMMA GraphStep == GraphInv /\ [IntelNext]_intelVars => GraphInv'
<1> SUFFICES ASSUME GraphInv, [IntelNext]_intelVars PROVE GraphInv'
  OBVIOUS
<1>1. /\ clock \in Nat /\ clock >= 10 /\ clock + 1 \in Nat /\ clock + 1 >= 10
      /\ sure \in [Hosts -> Int]
  BY DEF GraphInv
<1>2. Explains(graph, said) /\ Sayings(said) /\ IsSequence(said)
  BY DEF GraphInv, Explains, Sayings
<1>3. ASSUME NEW g, NEW s, Explains(g, s), NEW a, Sayable(a)
      PROVE  Explains(GraphAlert(g, a), s \o Tagged(g, <<a>>))
  <2>1. PICK flag \in BOOLEAN : flag <=> <<a.src, a.dst>> \in DOMAIN g.edges
    <3>1. (<<a.src, a.dst>> \in DOMAIN g.edges) =>
            (TRUE <=> <<a.src, a.dst>> \in DOMAIN g.edges)
      OBVIOUS
    <3>2. ~(<<a.src, a.dst>> \in DOMAIN g.edges) =>
            (FALSE <=> <<a.src, a.dst>> \in DOMAIN g.edges)
      OBVIOUS
    <3>3. QED BY <3>1, <3>2
  <2>2. flag = (<<a.src, a.dst>> \in DOMAIN g.edges)
    BY <2>1
  <2>3. s \o Tagged(g, <<a>>) = Append(s, <<a, flag>>)
    BY <1>3, <2>2, TaggedIs DEF Explains, Sayings
  <2>4. QED BY <1>3, <2>1, <2>3, AlertIsExplained, Zenon
<1>4. ASSUME UNCHANGED <<clock, graph, said>>, sure' \in [Hosts -> Int] PROVE GraphInv'
  <2>1. clock' = clock /\ Explains(graph', said')
    BY <1>2, <1>4
  <2>2. QED BY <1>1, <1>4, <2>1 DEF GraphInv
<1>5. ASSUME clock' = clock + 1, sure' = sure, Explains(graph', said') PROVE GraphInv'
  BY <1>1, <1>5 DEF GraphInv
<1>6. ASSUME NEW x \in Hosts, NEW y \in Hosts, NEW late \in Lateness, x # y, Flow(x, y, late)
      PROVE  GraphInv'
  <2>1. PICK found, drawn :
          found = IntelAlerts(x, y, clock - late) /\ drawn = GraphFlow(graph, x, y)
    OBVIOUS
  <2>2. /\ clock' = clock + 1 /\ sure' = sure /\ graph' = Recorded(drawn, found)
        /\ said' = said \o Tagged(drawn, found)
    BY <1>6, <2>1 DEF Flow
  <2>3. Explains(drawn, said)
    BY <1>2, <2>1, FlowIsExplained
  <2>4. found = <<>> \/ \E a : Sayable(a) /\ found = <<a>>
    BY <1>1, <1>6, <2>1, IntelAlertsAre
  <2>5. CASE found = <<>>
    <3>1. graph' = drawn /\ said' = said
      BY <1>2, <2>2, <2>5, RecordedIs, TaggedIs
    <3>2. QED BY <1>5, <2>2, <2>3, <3>1
  <2>6. CASE \E a : Sayable(a) /\ found = <<a>>
    <3>1. PICK a : Sayable(a) /\ found = <<a>>
      BY <2>6
    <3>2. graph' = GraphAlert(drawn, a) /\ said' = said \o Tagged(drawn, <<a>>)
      BY <2>2, <3>1, RecordedIs
    <3>3. Explains(graph', said')
      BY <1>3, <2>3, <3>1, <3>2
    <3>4. QED BY <1>5, <2>2, <3>3
  <2>7. QED BY <2>4, <2>5, <2>6
<1>7. ASSUME NEW x \in Hosts, NEW y \in Hosts, NEW kind \in OtherAlerts, x # y,
             OtherAlert(x, y, kind)
      PROVE  GraphInv'
  <2>1. PICK a : a = [category |-> kind[1], severity |-> kind[2], confidence |-> kind[3],
                      src |-> x, dst |-> y, ts |-> clock]
    OBVIOUS
  <2>2. Sayable(a)
    BY <1>1, <1>7, <2>1, KindsAssumption DEF Sayable
  <2>3. /\ clock' = clock + 1 /\ sure' = sure /\ graph' = GraphAlert(graph, a)
        /\ said' = said \o Tagged(graph, <<a>>)
    BY <1>7, <2>1 DEF OtherAlert
  <2>4. QED BY <1>2, <1>3, <1>5, <2>2, <2>3
<1>8. ASSUME NEW h \in Hosts, NEW confidence \in Confidences, AddCustomIoc(h, confidence)
      PROVE  GraphInv'
  <2>1. confidence \in Int
    BY KindsAssumption
  <2>2. sure' \in [Hosts -> Int]
    BY <1>1, <1>8, <2>1 DEF AddCustomIoc
  <2>3. QED BY <1>4, <1>8, <2>2 DEF AddCustomIoc
<1>9. ASSUME NEW h \in Hosts, RemoveCustomIoc(h) PROVE GraphInv'
  <2>1. sure' \in [Hosts -> Int]
    BY <1>1, <1>9 DEF RemoveCustomIoc, FeedSure
  <2>2. QED BY <1>4, <1>9, <2>1 DEF RemoveCustomIoc
<1>10. ASSUME NEW feed \in Feeds, SyncFeed(feed) PROVE GraphInv'
  <2>1. sure' \in [Hosts -> Int]
    BY <1>1, <1>10 DEF SyncFeed, FeedSure
  <2>2. QED BY <1>4, <1>10, <2>1 DEF SyncFeed
<1>11. CASE UNCHANGED intelVars
  BY <1>1, <1>4, <1>11 DEF intelVars
<1>12. QED BY <1>6, <1>7, <1>8, <1>9, <1>10, <1>11 DEF IntelNext

LEMMA InitialGraph == IntelInit => GraphInv
<1> SUFFICES ASSUME IntelInit PROVE GraphInv
  OBVIOUS
<1>1. clock = 10 /\ graph = EmptyGraph /\ said = <<>> /\ sure \in [Hosts -> Int]
  BY DEF IntelInit, FeedSure
<1>2. DOMAIN graph.nodes = {} /\ DOMAIN graph.edges = {} /\ Drawn(graph)
  BY <1>1 DEF EmptyGraph, Drawn
<1>3. IsSequence(said) /\ Len(said) = 0
  BY <1>1 DEF IsSequence, ToSet
<1>4. ASSUME NEW h PROVE Blaming(said, h) = {} /\ Marking(said, h) = {}
  BY <1>3 DEF Blaming, Marking
<1>5. ASSUME NEW h PROVE NodeExplained(h, NodeOf(graph, h), said, {})
  <2>1. NodeOf(graph, h) = NewNode
    BY <1>2 DEF NodeOf
  <2>2. Cardinality({}) = 0
    BY FS_EmptySet
  <2>3. QED BY <2>1, <2>2 DEF NodeExplained, RiskExplained, NewNode, FullRisk
<1>6. ASSUME NEW e PROVE EdgeExplained(EdgeOf(graph, e), said, {})
  <2>1. EdgeOf(graph, e) = NewEdge
    BY <1>2 DEF EdgeOf
  <2>2. QED BY <2>1 DEF EdgeExplained, NewEdge
<1>7. Sayings(said)
  BY <1>3 DEF Sayings
<1>8. /\ \A h \in Hosts : NodeExplained(h, NodeOf(graph, h), said, Blaming(said, h))
      /\ \A e \in Hosts \X Hosts : EdgeExplained(EdgeOf(graph, e), said, Marking(said, e))
  BY <1>4, <1>5, <1>6, Zenon
<1>9. QED BY <1>1, <1>2, <1>7, <1>8 DEF GraphInv, Explains

LEMMA AgainstIs == ASSUME Sayings(said), NEW h PROVE Against(h) = Blaming(said, h)
<1>1. DOMAIN said = 1..Len(said)
  BY DEF Sayings, IsSequence
<1>2. QED BY <1>1 DEF Against, Blaming, Blames

LEMMA ExplainedGraph == GraphInv => CompromiseIsExplained
<1> SUFFICES ASSUME GraphInv PROVE CompromiseIsExplained
  OBVIOUS
<1>1. Explains(graph, said) /\ Drawn(graph) /\ Sayings(said) /\ DOMAIN said = 1..Len(said)
  BY DEF GraphInv, Explains, Sayings, IsSequence
<1>2. ASSUME NEW h \in DOMAIN graph.nodes
      PROVE  /\ graph.nodes[h].alerts = Cardinality(Against(h))
             /\ graph.nodes[h].compromised =
                  IF Against(h) = {} THEN 0 ELSE said[Min(Against(h))][1].ts
             /\ RiskExplained(h, graph.nodes[h].risk, said, Against(h))
  <2>1. h \in Hosts /\ NodeOf(graph, h) = graph.nodes[h]
    BY <1>1 DEF Drawn, NodeOf
  <2>2. NodeExplained(h, graph.nodes[h], said, Against(h))
    BY <1>1, <2>1, AgainstIs DEF Explains
  <2>3. QED BY <2>2 DEF NodeExplained
<1>3. ASSUME NEW e \in DOMAIN graph.edges, NEW over,
             over = {i \in DOMAIN said : /\ said[i][2] /\ said[i][1].severity # "LOW"
                                         /\ <<said[i][1].src, said[i][1].dst>> = e}
      PROVE  LET kinds == {said[i][1].category : i \in over}
             IN  /\ graph.edges[e].lateral <=> "LATERAL_MOVEMENT" \in kinds
                 /\ graph.edges[e].c2 <=> kinds \cap {"MALICIOUS_C2", "C2_BEACONING"} # {}
  <2>1. e \in Hosts \X Hosts /\ EdgeOf(graph, e) = graph.edges[e]
    BY <1>1 DEF Drawn, EdgeOf
  <2>2. over = Marking(said, e)
    BY <1>1, <1>3 DEF Marking, Marks
  <2>3. EdgeExplained(graph.edges[e], said, over)
    BY <1>1, <2>1, <2>2 DEF Explains
  <2>4. QED BY <2>3 DEF EdgeExplained
<1>4. ASSUME NEW h \in DOMAIN graph.nodes
      PROVE  /\ \A i \in Against(h) :
                  Clipped(Weight(said[i][1], h)) <= graph.nodes[h].risk
             /\ \/ graph.nodes[h].risk = 0
                \/ \E i \in Against(h) :
                     Clipped(Weight(said[i][1], h)) = graph.nodes[h].risk
  <2>1. RiskExplained(h, graph.nodes[h].risk, said, Against(h))
    BY <1>2, <1>4
  <2>2. \A i \in Against(h) : Clipped(Weight(said[i][1], h)) <= graph.nodes[h].risk
    BY <2>1, Zenon DEF RiskExplained
  <2>3. \/ graph.nodes[h].risk = 0
        \/ \E i \in Against(h) : Clipped(Weight(said[i][1], h)) = graph.nodes[h].risk
    BY <2>1, Zenon DEF RiskExplained
  <2>4. QED BY <2>2, <2>3, Zenon
<1>5. QED BY <1>2, <1>3, <1>4 DEF CompromiseIsExplained

\* The graph blames a host for what was recorded of it and nothing else, and
\* marks an edge exactly by the alerts that came after it was drawn, for any
\* lists, networks and kinds of alerts, late flows included (graph.py 123-198).
THEOREM CompromiseAlwaysExplained == IntelSpec => []CompromiseIsExplained
<1>1. QED BY InitialGraph, GraphStep, ExplainedGraph, PTL DEF IntelSpec

-----------------------------------------------------------------------------
(***************************************************************************)
(* The searches.  A walk of the property grows at its end, the search for  *)
(* patient zero at its beginning; both are the same walks.  Level i of the *)
(* search has the hosts whose shortest walk to the target has length i.    *)
(* As many levels are not empty as there are nodes, at most.               *)
(***************************************************************************)

AreWalks(walk, rel, n) ==
  /\ rel \subseteq Hosts \X Hosts /\ n \in Nat \ {0}
  /\ DOMAIN walk = 1..n /\ walk[1] = rel
  /\ \A k \in 2..n : \A x, y \in Hosts :
       <<x, y>> \in walk[k] <=>
         \E h \in Hosts : <<x, h>> \in walk[k - 1] /\ <<h, y>> \in rel

LEMMA WalksAre ==
  ASSUME NEW rel \in SUBSET (Hosts \X Hosts), NEW n \in Nat \ {0}, n = Cardinality(Hosts)
  PROVE  AreWalks(Walks(rel), rel, n)
<1> DEFINE Longer(w) == {e \in Hosts \X Hosts :
                         \E h \in Hosts : <<e[1], h>> \in w /\ <<h, e[2]>> \in rel}
           Is(f) == f = [k \in 1..Cardinality(Hosts) |-> IF k = 1 THEN rel ELSE
                           {e \in Hosts \X Hosts :
                              \E h \in Hosts :
                                <<e[1], h>> \in f[k - 1] /\ <<h, e[2]>> \in rel}]
           walk == CHOOSE f : Is(f)
           A == SUBSET (Hosts \X Hosts)
<1>1. Walks(rel) = walk
  BY Zenon DEF Walks
<1>2. PICK m \in Nat : n = m + 1
  <2>1. n - 1 \in Nat /\ n = (n - 1) + 1
    OBVIOUS
  <2>2. QED BY <2>1
<1>3. PICK f \in [0..m -> A] :
        \A i \in 0..m : f[i] = IF i = 0 THEN rel ELSE Longer(f[i - 1])
  <2> DEFINE step == [p \in A \X (1..m) |-> Longer(p[1])]
  <2>1. \A w \in A : Longer(w) \in A
    OBVIOUS
  <2> HIDE DEF Longer
  <2>2. \A w \in A, i \in 1..m : step[<<w, i>>] = Longer(w)
    OBVIOUS
  <2>3. \A w \in A : \A i \in 1..m : step[<<w, i>>] \in A
    <3> HIDE DEF step, A
    <3>1. QED BY <2>1, <2>2
  <2>4. rel \in A
    OBVIOUS
  <2> HIDE DEF step, A
  <2>5. \E f \in [0..m -> A] : Looped(f, m, rel, step)
    BY <2>3, <2>4, LoopExists, Zenon
  <2>6. PICK f \in [0..m -> A] : Looped(f, m, rel, step)
    BY <2>5
  <2>7. \A i \in 0..m : i # 0 => i \in 1..m /\ i - 1 \in 0..m
    OBVIOUS
  <2>8. \A i \in 0..m : f[i] = IF i = 0 THEN rel ELSE Longer(f[i - 1])
    BY <2>2, <2>6, <2>7 DEF Looped
  <2>9. QED BY <2>8
<1>4. PICK w : w = [k \in 1..n |-> f[k - 1]]
  OBVIOUS
<1>5. Is(w)
  <2> HIDE DEF Longer, A
  <2>1. ASSUME NEW k \in 1..n PROVE w[k] = IF k = 1 THEN rel ELSE Longer(w[k - 1])
    <3>1. k - 1 \in 0..m /\ w[k] = f[k - 1] /\ (k - 1 = 0 <=> k = 1)
      BY <1>2, <1>4
    <3>2. k # 1 => w[k - 1] = f[k - 1 - 1]
      BY <1>2, <1>4
    <3>3. QED BY <1>3, <3>1, <3>2
  <2>2. w = [k \in 1..n |-> IF k = 1 THEN rel ELSE Longer(w[k - 1])]
    BY <1>4, <2>1
  <2>3. QED BY <2>2 DEF Longer
<1>6. Is(walk)
  <2> HIDE DEF Is
  <2>1. QED BY <1>5, Zenon
<1> HIDE DEF walk
<1>7. walk = [k \in 1..n |-> IF k = 1 THEN rel ELSE Longer(walk[k - 1])]
  BY <1>6
<1>8. DOMAIN walk = 1..n /\ walk[1] = rel
  <2> HIDE DEF Longer
  <2>1. 1 \in 1..n
    OBVIOUS
  <2>2. QED BY <1>7, <2>1
<1>9. ASSUME NEW k \in 2..n, NEW x \in Hosts, NEW y \in Hosts
      PROVE  <<x, y>> \in walk[k] <=>
               \E h \in Hosts : <<x, h>> \in walk[k - 1] /\ <<h, y>> \in rel
  <2>1. walk[k] = Longer(walk[k - 1])
    <3> HIDE DEF Longer
    <3>1. k \in 1..n /\ k # 1
      OBVIOUS
    <3>2. QED BY <1>7, <3>1
  <2>2. QED BY <2>1
<1>10. AreWalks(walk, rel, n)
  BY <1>8, <1>9 DEF AreWalks
<1>11. QED BY <1>1, <1>10

\* A walk may also be taken apart at its beginning.
StartsAt(walk, rel, j) ==
  \A u, v \in Hosts :
    <<u, v>> \in walk[j] <=> \E h \in Hosts : <<u, h>> \in rel /\ <<h, v>> \in walk[j - 1]

LEMMA WalksFromTheStart ==
  ASSUME NEW walk, NEW rel, NEW n, AreWalks(walk, rel, n), NEW k \in 2..n,
         NEW x \in Hosts, NEW y \in Hosts
  PROVE  <<x, y>> \in walk[k] <=>
           \E h \in Hosts : <<x, h>> \in rel /\ <<h, y>> \in walk[k - 1]
<1> DEFINE N == {i \in Nat : i + 2 <= n => StartsAt(walk, rel, i + 2)}
<1>1. /\ n \in Nat \ {0} /\ walk[1] = rel
      /\ \A j \in 2..n : \A u, v \in Hosts :
           <<u, v>> \in walk[j] <=>
             \E h \in Hosts : <<u, h>> \in walk[j - 1] /\ <<h, v>> \in rel
  BY DEF AreWalks
<1>2. 0 \in N
  <2> SUFFICES ASSUME 2 <= n PROVE StartsAt(walk, rel, 2)
    OBVIOUS
  <2>1. 2 \in 2..n /\ 2 - 1 = 1
    BY <1>1
  <2>2. QED BY <1>1, <2>1 DEF StartsAt
<1>3. ASSUME NEW i \in Nat, i \in N PROVE i + 1 \in N
  <2> SUFFICES ASSUME i + 3 <= n PROVE StartsAt(walk, rel, i + 3)
    <3>1. i + 1 + 2 = i + 3
      OBVIOUS
    <3>2. QED BY <3>1
  <2>1. PICK j \in Nat : j = i + 2
    OBVIOUS
  <2>2. j \in 2..n /\ j + 1 \in 2..n /\ j + 1 - 1 = j /\ j + 1 = i + 3
    BY <1>1, <2>1
  <2>3. \A u, v \in Hosts :
          <<u, v>> \in walk[j] <=>
            \E h \in Hosts : <<u, h>> \in rel /\ <<h, v>> \in walk[j - 1]
    <3>1. StartsAt(walk, rel, j)
      BY <1>1, <1>3, <2>1, <2>2
    <3>2. QED BY <3>1 DEF StartsAt
  <2>4. \A u, v \in Hosts :
          <<u, v>> \in walk[j] <=>
            \E h \in Hosts : <<u, h>> \in walk[j - 1] /\ <<h, v>> \in rel
    BY <1>1, <2>2
  <2>5. ASSUME NEW u \in Hosts, NEW v \in Hosts
        PROVE  <<u, v>> \in walk[j + 1] <=>
                 \E h \in Hosts : <<u, h>> \in rel /\ <<h, v>> \in walk[j]
    <3>1. <<u, v>> \in walk[j + 1] <=>
            \E m \in Hosts : <<u, m>> \in walk[j] /\ <<m, v>> \in rel
      <4>1. PICK l \in 2..n : l = j + 1 /\ l - 1 = j
        BY <2>2
      <4>2. <<u, v>> \in walk[l] <=>
              \E m \in Hosts : <<u, m>> \in walk[l - 1] /\ <<m, v>> \in rel
        BY <1>1
      <4>3. QED BY <4>1, <4>2
    <3>2. ASSUME NEW m \in Hosts, <<u, m>> \in walk[j], <<m, v>> \in rel
          PROVE  \E h \in Hosts : <<u, h>> \in rel /\ <<h, v>> \in walk[j]
      <4>1. PICK h \in Hosts : <<u, h>> \in rel /\ <<h, m>> \in walk[j - 1]
        BY <2>3, <3>2
      <4>2. <<h, v>> \in walk[j]
        BY <2>4, <3>2, <4>1
      <4>3. QED BY <4>1, <4>2
    <3>3. ASSUME NEW h \in Hosts, <<u, h>> \in rel, <<h, v>> \in walk[j]
          PROVE  \E m \in Hosts : <<u, m>> \in walk[j] /\ <<m, v>> \in rel
      <4>1. PICK m \in Hosts : <<h, m>> \in walk[j - 1] /\ <<m, v>> \in rel
        BY <2>4, <3>3
      <4>2. <<u, m>> \in walk[j]
        BY <2>3, <3>3, <4>1
      <4>3. QED BY <4>1, <4>2
    <3>4. QED BY <3>1, <3>2, <3>3
  <2>6. StartsAt(walk, rel, j + 1)
    <3>1. PICK l : l = j + 1 /\ l - 1 = j
      BY <2>2
    <3>2. \A u, v \in Hosts :
            <<u, v>> \in walk[l] <=>
              \E h \in Hosts : <<u, h>> \in rel /\ <<h, v>> \in walk[l - 1]
      BY <2>5, <3>1
    <3>3. StartsAt(walk, rel, l)
      BY <3>2 DEF StartsAt
    <3>4. QED BY <3>1, <3>3
  <2>7. QED BY <2>2, <2>6
<1>4. Nat \subseteq N
  <2> HIDE DEF N
  <2>1. QED BY <1>2, <1>3, Induction
<1>5. k - 2 \in Nat /\ k - 2 + 2 = k
  BY <1>1
<1>6. StartsAt(walk, rel, k)
  <2>1. k - 2 \in N
    BY <1>4, <1>5
  <2>2. QED BY <1>1, <1>5, <2>1
<1>7. QED BY <1>6 DEF StartsAt

\* lv is the search for those from whom the target can be reached over rel,
\* m levels and one more.
AreLevels(lv, rel, target, m) ==
  /\ target \in Hosts /\ m \in Nat /\ DOMAIN lv = 0..m + 1
  /\ lv[0] = <<{target}, {}>>
  /\ \A i \in 1..m + 1 :
       /\ lv[i][1] = {p \in Hosts :
                        p \notin lv[i - 1][2] /\ \E h \in lv[i - 1][1] : <<p, h>> \in rel}
       /\ lv[i][2] = lv[i - 1][2] \union lv[i][1]

\* What is at some level was seen by every later one, and is at no other.
LEMMA LevelsAreSeen ==
  ASSUME NEW lv, NEW rel, NEW target, NEW m, AreLevels(lv, rel, target, m),
         NEW i \in 0..m + 1
  PROVE  \A p : p \in lv[i][2] <=> \E j \in 1..i : p \in lv[j][1]
<1> DEFINE N == {k \in Nat : k <= m + 1 =>
                   \A p : p \in lv[k][2] <=> \E j \in 1..k : p \in lv[j][1]}
<1>1. m \in Nat /\ lv[0][2] = {}
  BY DEF AreLevels
<1>2. 0 \in N
  BY <1>1
<1>3. ASSUME NEW k \in Nat, k \in N PROVE k + 1 \in N
  <2> SUFFICES ASSUME k + 1 <= m + 1, NEW p
               PROVE  p \in lv[k + 1][2] <=> \E j \in 1..k + 1 : p \in lv[j][1]
    OBVIOUS
  <2>1. PICK l \in 1..m + 1 : l = k + 1 /\ l - 1 = k
    BY <1>1
  <2>2. lv[l][2] = lv[k][2] \union lv[l][1]
    BY <2>1 DEF AreLevels
  <2>3. p \in lv[k][2] <=> \E j \in 1..k : p \in lv[j][1]
    BY <1>1, <1>3
  <2>4. \A j : j \in 1..l <=> j \in 1..k \/ j = l
    BY <2>1
  <2>5. p \in lv[l][2] <=> \E j \in 1..l : p \in lv[j][1]
    BY <2>2, <2>3, <2>4
  <2>6. QED BY <2>1, <2>5
<1>4. Nat \subseteq N
  <2> HIDE DEF N
  <2>1. QED BY <1>2, <1>3, Induction
<1>5. i \in Nat /\ i <= m + 1
  BY <1>1
<1>6. QED BY <1>4, <1>5

LEMMA OneLevel ==
  ASSUME NEW lv, NEW rel, NEW target, NEW m, AreLevels(lv, rel, target, m),
         NEW i \in 1..m + 1, NEW j \in 1..m + 1, NEW p, p \in lv[i][1], p \in lv[j][1]
  PROVE  i = j
<1>1. m \in Nat
  BY DEF AreLevels
<1>2. ASSUME NEW a \in 1..m + 1, NEW b \in 1..m + 1, a < b, p \in lv[a][1]
      PROVE  p \notin lv[b][1]
  <2>1. b - 1 \in 0..m + 1 /\ a \in 1..b - 1
    BY <1>1, <1>2
  <2>2. p \in lv[b - 1][2]
    BY <1>2, <2>1, LevelsAreSeen
  <2>3. QED BY <2>2 DEF AreLevels
<1>3. ~(i < j) /\ ~(j < i)
  BY <1>2
<1>4. QED BY <1>1, <1>3

\* A level that is not empty has one before it that is not, and so as many
\* hosts were seen as there are levels.
LEMMA LastLevelIsEmpty ==
  ASSUME NEW lv, NEW rel, NEW target, NEW m, AreLevels(lv, rel, target, m),
         NEW nodes, IsFiniteSet(nodes), Cardinality(nodes) = m,
         \A i \in 1..m + 1 : lv[i][1] \subseteq nodes
  PROVE  lv[m + 1][1] = {}
<1> DEFINE Seen(k) == lv[k][2]
           N == {k \in Nat : k <= m + 1 /\ lv[k][1] # {} =>
                   IsFiniteSet(lv[k][2]) /\ Cardinality(lv[k][2]) >= k}
<1>1. m \in Nat /\ lv[0][2] = {}
  BY DEF AreLevels
<1>2. 0 \in N
  <2>1. IsFiniteSet({}) /\ Cardinality({}) = 0
    BY FS_EmptySet
  <2>2. QED BY <1>1, <2>1
<1>3. ASSUME NEW k \in Nat, k \in N PROVE k + 1 \in N
  <2> SUFFICES ASSUME k + 1 <= m + 1, lv[k + 1][1] # {}
               PROVE  IsFiniteSet(lv[k + 1][2]) /\ Cardinality(lv[k + 1][2]) >= k + 1
    OBVIOUS
  <2>1. PICK l \in 1..m + 1 : l = k + 1 /\ l - 1 = k
    BY <1>1
  <2>2. /\ lv[l][2] = lv[k][2] \union lv[l][1]
        /\ lv[l][1] = {p \in Hosts :
                         p \notin lv[k][2] /\ \E h \in lv[k][1] : <<p, h>> \in rel}
    BY <2>1 DEF AreLevels
  <2>3. lv[k][1] # {}
    BY <2>1, <2>2
  <2>4. IsFiniteSet(lv[k][2]) /\ Cardinality(lv[k][2]) >= k
    BY <1>1, <1>3, <2>3
  <2>5. PICK p : p \in lv[l][1]
    BY <2>1
  <2>6. PICK more : more = lv[k][2] \union {p}
    OBVIOUS
  <2>7. IsFiniteSet(more) /\ Cardinality(more) = Cardinality(lv[k][2]) + 1
    BY <2>2, <2>4, <2>5, <2>6, FS_AddElement
  <2>8. more \subseteq lv[l][2]
    BY <2>2, <2>5, <2>6
  <2>9. IsFiniteSet(lv[l][2])
    <3>1. \A q \in lv[l][2] : \E j \in 1..l : q \in lv[j][1]
      <4>1. l \in 0..m + 1
        BY <1>1
      <4>2. QED BY <4>1, LevelsAreSeen
    <3>2. lv[l][2] \subseteq nodes
      BY <1>1, <3>1
    <3>3. QED BY <3>2, FS_Subset
  <2>10. Cardinality(more) <= Cardinality(lv[l][2])
    BY <2>8, <2>9, FS_Subset
  <2>11. Cardinality(lv[k][2]) \in Nat /\ Cardinality(lv[l][2]) \in Nat
    BY <2>4, <2>9, FS_CardinalityType
  <2>12. QED BY <2>1, <2>4, <2>7, <2>9, <2>10, <2>11
<1>4. Nat \subseteq N
  <2> HIDE DEF N
  <2>1. QED BY <1>2, <1>3, Induction
<1>5. ASSUME lv[m + 1][1] # {} PROVE FALSE
  <2>1. PICK l \in 1..m + 1 : l = m + 1 /\ l \in Nat
    BY <1>1
  <2>2. IsFiniteSet(lv[l][2]) /\ Cardinality(lv[l][2]) >= l
    BY <1>1, <1>4, <1>5, <2>1
  <2>3. \A q \in lv[l][2] : \E j \in 1..l : q \in lv[j][1]
    <3>1. l \in 0..m + 1
      BY <1>1
    <3>2. QED BY <3>1, LevelsAreSeen
  <2>4. lv[l][2] \subseteq nodes
    BY <1>1, <2>1, <2>3
  <2>5. Cardinality(lv[l][2]) <= m
    BY <2>4, FS_Subset
  <2>6. Cardinality(lv[l][2]) \in Nat
    BY <2>2, FS_CardinalityType
  <2>7. QED BY <1>1, <2>1, <2>2, <2>5, <2>6
<1>6. QED BY <1>5

\* The hosts at level i are those whose shortest walk has length i.
LEMMA LevelsAreDistances ==
  ASSUME NEW lv, NEW rel, NEW target, NEW m, AreLevels(lv, rel, target, m),
         lv[m + 1][1] = {}, NEW walk, NEW n, AreWalks(walk, rel, n), m <= n, NEW p \in Hosts
  PROVE  /\ \A i \in 1..m : p \in lv[i][1] => <<p, target>> \in walk[i]
         /\ \A k \in 1..n : <<p, target>> \in walk[k] =>
              \E j \in 1..k : j <= m /\ p \in lv[j][1]
<1>1. /\ m \in Nat /\ n \in Nat \ {0} /\ target \in Hosts /\ walk[1] = rel
      /\ lv[0] = <<{target}, {}>>
  BY DEF AreLevels, AreWalks
<1>2. \A i \in 1..m + 1 :
        /\ lv[i][1] = {q \in Hosts :
                         q \notin lv[i - 1][2] /\ \E h \in lv[i - 1][1] : <<q, h>> \in rel}
        /\ lv[i][2] = lv[i - 1][2] \union lv[i][1]
  BY DEF AreLevels
<1>3. \A i \in 1..m : \A q \in Hosts : q \in lv[i][1] => <<q, target>> \in walk[i]
  <2> DEFINE N == {k \in Nat : k + 1 <= m => \A q \in Hosts : q \in lv[k + 1][1] =>
                                               <<q, target>> \in walk[k + 1]}
  <2>1. 0 \in N
    <3> SUFFICES ASSUME 1 <= m, NEW q \in Hosts, q \in lv[1][1]
                 PROVE  <<q, target>> \in walk[1]
      OBVIOUS
    <3>1. PICK l \in 1..m + 1 : l = 1 /\ l - 1 = 0
      BY <1>1
    <3>2. PICK h \in lv[l - 1][1] : <<q, h>> \in rel
      BY <1>2, <3>1
    <3>3. h = target
      BY <1>1, <3>1, <3>2
    <3>4. QED BY <1>1, <3>2, <3>3
  <2>2. ASSUME NEW k \in Nat, k \in N PROVE k + 1 \in N
    <3> SUFFICES ASSUME k + 2 <= m, NEW q \in Hosts, q \in lv[k + 2][1]
                 PROVE  <<q, target>> \in walk[k + 2]
      <4>1. k + 1 + 1 = k + 2
        OBVIOUS
      <4>2. QED BY <4>1
    <3>1. PICK l \in 2..n : l = k + 2 /\ l \in 1..m + 1 /\ l - 1 = k + 1 /\ l - 1 \in 1..m
      BY <1>1
    <3>2. PICK h \in lv[l - 1][1] : <<q, h>> \in rel
      BY <1>2, <3>1
    <3>3. h \in Hosts
      <4>1. PICK j \in 1..m + 1 : j = l - 1
        BY <1>1, <3>1
      <4>2. lv[j][1] \subseteq Hosts
        BY <1>2
      <4>3. QED BY <3>2, <4>1, <4>2
    <3>4. <<h, target>> \in walk[l - 1]
      BY <2>2, <3>1, <3>2, <3>3
    <3>5. <<q, target>> \in walk[l]
      BY <1>1, <3>2, <3>3, <3>4, WalksFromTheStart
    <3>6. QED BY <3>1, <3>5
  <2>3. Nat \subseteq N
    <3> HIDE DEF N
    <3>1. QED BY <2>1, <2>2, Induction
  <2>4. ASSUME NEW i \in 1..m, NEW q \in Hosts, q \in lv[i][1] PROVE <<q, target>> \in walk[i]
    <3>1. PICK k \in Nat : i = k + 1
      <4>1. i - 1 \in Nat /\ i = (i - 1) + 1
        BY <1>1
      <4>2. QED BY <4>1
    <3>2. k \in N
      BY <2>3
    <3>3. QED BY <1>1, <2>4, <3>1, <3>2
  <2>5. QED BY <2>4
<1>4. \A k \in 1..n : \A q \in Hosts : <<q, target>> \in walk[k] =>
        \E j \in 1..k : j <= m /\ q \in lv[j][1]
  <2> DEFINE Found(k) == \A q \in Hosts : <<q, target>> \in walk[k] =>
                           \E j \in 1..k : j <= m /\ q \in lv[j][1]
             N == {k \in Nat : k + 1 <= n => Found(k + 1)}
  <2>1. ASSUME NEW j \in 0..m, NEW h \in lv[j][1], NEW q \in Hosts, <<q, h>> \in rel
        PROVE  \E i \in 1..j + 1 : i <= m /\ q \in lv[i][1]
    <3>1. PICK l \in 1..m + 1 : l = j + 1 /\ l - 1 = j
      BY <1>1
    <3>2. q \in lv[j][2] \/ q \in lv[l][1]
      BY <1>2, <2>1, <3>1
    <3>3. CASE q \in lv[j][2]
      <4>1. PICK i \in 1..j : q \in lv[i][1]
        <5>1. j \in 0..m + 1
          BY <1>1
        <5>2. QED BY <3>3, <5>1, LevelsAreSeen
      <4>2. i \in 1..j + 1 /\ i <= m
        BY <1>1
      <4>3. QED BY <4>1, <4>2
    <3>4. CASE q \in lv[l][1]
      <4>1. l # m + 1
        BY <3>4
      <4>2. l \in 1..j + 1 /\ l <= m
        BY <1>1, <3>1, <4>1
      <4>3. QED BY <3>4, <4>2
    <3>5. QED BY <3>2, <3>3, <3>4
  <2>2. 0 \in N
    <3> SUFFICES ASSUME NEW q \in Hosts, <<q, target>> \in walk[1]
                 PROVE  \E j \in 1..1 : j <= m /\ q \in lv[j][1]
      BY <1>1
    <3>1. 0 \in 0..m /\ target \in lv[0][1] /\ 0 + 1 = 1
      BY <1>1
    <3>2. QED BY <1>1, <2>1, <3>1
  <2>3. ASSUME NEW k \in Nat, k \in N PROVE k + 1 \in N
    <3> SUFFICES ASSUME k + 2 <= n, NEW q \in Hosts, <<q, target>> \in walk[k + 2]
                 PROVE  \E j \in 1..k + 2 : j <= m /\ q \in lv[j][1]
      <4>1. k + 1 + 1 = k + 2
        OBVIOUS
      <4>2. QED BY <4>1
    <3>1. PICK l \in 2..n : l = k + 2 /\ l - 1 = k + 1
      BY <1>1
    <3>2. PICK h \in Hosts : <<q, h>> \in rel /\ <<h, target>> \in walk[k + 1]
      <4>1. \E h \in Hosts : <<q, h>> \in rel /\ <<h, target>> \in walk[l - 1]
        <5>1. <<q, target>> \in walk[l]
          BY <3>1
        <5>2. target \in Hosts /\ AreWalks(walk, rel, n) /\ l \in 2..n /\ q \in Hosts
          BY <1>1
        <5>3. <<q, target>> \in walk[l] <=>
                \E h \in Hosts : <<q, h>> \in rel /\ <<h, target>> \in walk[l - 1]
          BY <5>2, WalksFromTheStart
        <5>4. QED BY <5>1, <5>3
      <4>2. QED BY <3>1, <4>1
    <3>3. PICK j \in 1..k + 1 : j <= m /\ h \in lv[j][1]
      BY <1>1, <2>3, <3>2
    <3>4. PICK i \in 1..j + 1 : i <= m /\ q \in lv[i][1]
      <4>1. j \in 0..m
        BY <1>1, <3>3
      <4>2. QED BY <2>1, <3>2, <3>3, <4>1
    <3>5. i \in 1..k + 2
      OBVIOUS
    <3>6. QED BY <3>4, <3>5
  <2>4. Nat \subseteq N
    <3> HIDE DEF N
    <3>1. QED BY <2>2, <2>3, Induction
  <2>5. ASSUME NEW i \in 1..n PROVE Found(i)
    <3>1. PICK k \in Nat : i = k + 1
      <4>1. i - 1 \in Nat /\ i = (i - 1) + 1
        BY <1>1
      <4>2. QED BY <4>1
    <3>2. k \in N
      BY <2>4
    <3> HIDE DEF Found
    <3>3. QED BY <1>1, <3>1, <3>2
  <2>6. QED BY <2>5
<1>5. QED BY <1>3, <1>4

\* The causal edges, and the search for patient zero over them.
Causes(g, target) == {e \in DOMAIN g.edges : IsCausal(g, e[1], e[2], target)}

LEMMA ParentsAre ==
  ASSUME NEW g, Drawn(g), NEW target, NEW level \in SUBSET Hosts, NEW seen
  PROVE  \A p : p \in Parents(g, level, seen, target) <=>
                  /\ p \in Hosts /\ p \notin seen
                  /\ \E h \in level : <<p, h>> \in Causes(g, target)
<1>1. ASSUME NEW p, NEW h
      PROVE  <<p, h>> \in Causes(g, target) <=>
               <<p, h>> \in DOMAIN g.edges /\ IsCausal(g, p, h, target)
  <2>1. <<p, h>>[1] = p /\ <<p, h>>[2] = h
    OBVIOUS
  <2>2. PICK e : e = <<p, h>> /\ e[1] = p /\ e[2] = h
    BY <2>1
  <2>3. e \in Causes(g, target) <=> e \in DOMAIN g.edges /\ IsCausal(g, e[1], e[2], target)
    BY DEF Causes
  <2>4. QED BY <2>2, <2>3
<1>2. ASSUME NEW p, NEW h
      PROVE  p \in In(g, h) <=> p \in Hosts /\ <<p, h>> \in DOMAIN g.edges
  <2>1. <<p, h>> \in DOMAIN g.edges => p \in DOMAIN g.nodes
    <3>1. <<p, h>>[1] = p
      OBVIOUS
    <3>2. PICK e : e = <<p, h>> /\ e[1] = p
      BY <3>1
    <3>3. e \in DOMAIN g.edges => e[1] \in DOMAIN g.nodes
      BY DEF Drawn
    <3>4. QED BY <3>2, <3>3
  <2>2. QED BY <2>1 DEF In, Drawn
<1>3. \A p : p \in Parents(g, level, seen, target) <=>
               \E h \in level : p \in In(g, h) \ seen /\ IsCausal(g, p, h, target)
  BY DEF Parents
<1>4. \A p : p \in Parents(g, level, seen, target) <=>
               /\ p \in Hosts /\ p \notin seen
               /\ \E h \in level : <<p, h>> \in Causes(g, target)
  BY <1>1, <1>2, <1>3
<1>5. QED BY <1>4

LEMMA LevelsAre ==
  ASSUME NEW g, Drawn(g), NEW target \in DOMAIN g.nodes, NEW m \in Nat,
         m = Cardinality(DOMAIN g.nodes)
  PROVE  AreLevels(Levels(g, target), Causes(g, target), target, m)
<1> DEFINE New(w) == Parents(g, w[1], w[2], target)
           Next1(w) == <<New(w), w[2] \union New(w)>>
           Is(f) == f = [i \in 0..Cardinality(DOMAIN g.nodes) + 1 |->
                           IF i = 0 THEN <<{target}, {}>>
                           ELSE <<Parents(g, f[i - 1][1], f[i - 1][2], target),
                                  f[i - 1][2] \union
                                    Parents(g, f[i - 1][1], f[i - 1][2], target)>>]
           lv == CHOOSE f : Is(f)
           S == SUBSET Hosts
           A == S \X S
           base == <<{target}, {}>>
<1>1. Levels(g, target) = lv
  BY Zenon DEF Levels
<1>2. PICK n \in Nat : n = m + 1
  OBVIOUS
<1>3. target \in Hosts
  BY DEF Drawn
<1>4. ASSUME NEW w \in A
      PROVE  New(w) = {p \in Hosts :
                         p \notin w[2] /\ \E h \in w[1] : <<p, h>> \in Causes(g, target)}
  <2>1. PICK level \in SUBSET Hosts : w[1] = level
    OBVIOUS
  <2>2. PICK seen : w[2] = seen
    OBVIOUS
  <2>3. \A p : p \in Parents(g, level, seen, target) <=>
                 /\ p \in Hosts /\ p \notin seen
                 /\ \E h \in level : <<p, h>> \in Causes(g, target)
    BY ParentsAre, Zenon
  <2>4. QED BY <2>1, <2>2, <2>3
<1>5. \A w \in A : Next1(w) \in A
  <2>1. ASSUME NEW w \in A PROVE Next1(w) \in A
    <3>1. New(w) \in S /\ w[2] \in S
      BY <1>4
    <3> HIDE DEF New
    <3>2. QED BY <3>1
  <2>2. QED BY <2>1
<1>6. PICK f \in [0..n -> A] :
        \A i \in 0..n : f[i] = IF i = 0 THEN base ELSE Next1(f[i - 1])
  <2> HIDE DEF Next1
  <2> DEFINE step == [p \in A \X (1..n) |-> Next1(p[1])]
  <2>1. \A w \in A, i \in 1..n : step[<<w, i>>] = Next1(w)
    <3> HIDE DEF A
    <3>1. QED OBVIOUS
  <2>2. \A w \in A : \A i \in 1..n : step[<<w, i>>] \in A
    <3> HIDE DEF step, A
    <3>1. QED BY <1>5, <2>1
  <2>3. base \in A
    BY <1>3
  <2> HIDE DEF step, A, base
  <2>4. \E f \in [0..n -> A] : Looped(f, n, base, step)
    BY <2>2, <2>3, LoopExists, Zenon
  <2>5. PICK f \in [0..n -> A] : Looped(f, n, base, step)
    BY <2>4
  <2>6. \A i \in 0..n : i # 0 => i \in 1..n /\ i - 1 \in 0..n
    OBVIOUS
  <2>7. \A i \in 0..n : f[i] = IF i = 0 THEN base ELSE Next1(f[i - 1])
    BY <2>1, <2>5, <2>6 DEF Looped
  <2>8. QED BY <2>7
<1>7. Is(f)
  <2> HIDE DEF New, A
  <2>1. f = [i \in 0..n |-> IF i = 0 THEN base ELSE Next1(f[i - 1])]
    <3> HIDE DEF Next1, base
    <3>1. QED BY <1>6
  <2>2. n = Cardinality(DOMAIN g.nodes) + 1
    BY <1>2
  <2>3. QED BY <2>1, <2>2 DEF New
<1>8. Is(lv)
  <2> HIDE DEF Is
  <2>1. QED BY <1>7, Zenon
<1> HIDE DEF lv
<1>9. lv = [i \in 0..n |-> IF i = 0 THEN base ELSE Next1(lv[i - 1])]
  BY <1>2, <1>8
<1> DEFINE N == {k \in Nat : k <= n => lv[k] = f[k]}
<1>10. \A k \in 0..n : lv[k] = f[k]
  <2> HIDE DEF Next1, base, A
  <2>1. 0 \in N
    BY <1>6, <1>9
  <2>2. ASSUME NEW k \in Nat, k \in N PROVE k + 1 \in N
    <3> SUFFICES ASSUME k + 1 <= n PROVE lv[k + 1] = f[k + 1]
      OBVIOUS
    <3>1. PICK l \in 0..n : l = k + 1 /\ l - 1 = k /\ l # 0
      OBVIOUS
    <3>2. lv[k] = f[k]
      BY <2>2, <3>1
    <3>3. QED BY <1>6, <1>9, <3>1, <3>2
  <2>3. Nat \subseteq N
    <3> HIDE DEF N
    <3>1. QED BY <2>1, <2>2, Induction
  <2>4. QED BY <2>3
<1>11. DOMAIN lv = 0..n /\ lv[0] = base
  <2> HIDE DEF Next1, base
  <2>1. 0 \in 0..n
    OBVIOUS
  <2>2. QED BY <1>9, <2>1
<1>12. ASSUME NEW i \in 1..n
       PROVE  /\ lv[i][1] = {p \in Hosts : p \notin lv[i - 1][2] /\
                               \E h \in lv[i - 1][1] : <<p, h>> \in Causes(g, target)}
              /\ lv[i][2] = lv[i - 1][2] \union lv[i][1]
  <2>1. i \in 0..n /\ i - 1 \in 0..n /\ i # 0
    OBVIOUS
  <2>2. PICK w \in A : w = lv[i - 1]
    <3> HIDE DEF A, Next1
    <3>1. QED BY <1>6, <1>10, <2>1
  <2>3. lv[i] = Next1(w)
    <3> HIDE DEF A, Next1, base
    <3>1. QED BY <1>9, <2>1, <2>2
  <2>4. lv[i][1] = New(w) /\ lv[i][2] = w[2] \union New(w)
    <3> HIDE DEF New
    <3>1. QED BY <2>3
  <2>5. QED BY <1>4, <2>2, <2>4
<1>13. AreLevels(lv, Causes(g, target), target, m)
  <2> HIDE DEF A, Next1
  <2>1. QED BY <1>2, <1>3, <1>11, <1>12 DEF AreLevels
<1>14. QED BY <1>1, <1>13

LEMMA MaxIs ==
  ASSUME NEW m \in Nat, NEW S \in SUBSET (0..m), S # {}
  PROVE  Max(S) \in S /\ \A x \in S : x <= Max(S)
<1> DEFINE T == {m - x : x \in S}
<1>1. T \in SUBSET Nat /\ T # {}
  <2>1. \A x \in S : m - x \in Nat
    OBVIOUS
  <2>2. PICK x : x \in S
    OBVIOUS
  <2>3. m - x \in T
    BY <2>2
  <2>4. QED BY <2>1, <2>3
<1>2. PICK y \in T : \A z \in T : y <= z
  <2> HIDE DEF T
  <2>1. QED BY <1>1, Least
<1>3. PICK x \in S : y = m - x
  BY <1>2
<1>4. ASSUME NEW z \in S PROVE x >= z
  <2>1. m - z \in T
    OBVIOUS
  <2>2. y <= m - z
    BY <1>2, <2>1
  <2>3. QED BY <1>3, <2>2
<1>5. QED BY <1>4 DEF Max

LEMMA ShortestIs ==
  ASSUME NEW lv, NEW rel, NEW target, NEW m, AreLevels(lv, rel, target, m),
         lv[m + 1][1] = {}, NEW walk, NEW n, AreWalks(walk, rel, n), m <= n, NEW p \in Hosts
  PROVE  /\ Shortest(walk, p, target) \in 0..m
         /\ \A i \in 1..m : Shortest(walk, p, target) = i <=> p \in lv[i][1]
<1>1. m \in Nat /\ n \in Nat \ {0} /\ DOMAIN walk = 1..n
  BY DEF AreLevels, AreWalks
<1>2. \A i \in 1..m : p \in lv[i][1] => <<p, target>> \in walk[i]
  BY LevelsAreDistances
<1>3. \A k \in 1..n : <<p, target>> \in walk[k] => \E j \in 1..k : j <= m /\ p \in lv[j][1]
  BY LevelsAreDistances
<1>4. PICK lengths : lengths = {k \in 1..n : <<p, target>> \in walk[k]}
  OBVIOUS
<1>5. Shortest(walk, p, target) = IF lengths = {} THEN 0 ELSE Min(lengths)
  BY <1>1, <1>4 DEF Shortest
<1>6. CASE lengths = {}
  <2>1. \A i \in 1..m : p \notin lv[i][1]
    BY <1>1, <1>2, <1>4, <1>6
  <2>2. QED BY <1>1, <1>5, <1>6, <2>1
<1>7. CASE lengths # {}
  <2>1. PICK k \in lengths : k = Min(lengths) /\ \A x \in lengths : k <= x
    <3>1. lengths \in SUBSET Nat
      BY <1>4
    <3>2. QED BY <1>7, <3>1, MinIs
  <2>2. k \in 1..n /\ <<p, target>> \in walk[k]
    BY <1>4, <2>1
  <2>3. PICK j \in 1..k : j <= m /\ p \in lv[j][1]
    BY <1>3, <2>2
  <2>4. j \in 1..m /\ j \in 1..m + 1
    BY <1>1, <2>2, <2>3
  <2>5. j \in lengths
    BY <1>1, <1>2, <1>4, <2>3, <2>4
  <2>6. k = j
    BY <2>1, <2>2, <2>3, <2>5
  <2>7. \A i \in 1..m : p \in lv[i][1] => i = j
    <3>1. ASSUME NEW i \in 1..m, p \in lv[i][1] PROVE i = j
      <4>1. i \in 1..m + 1
        BY <1>1
      <4>2. QED BY <2>3, <2>4, <3>1, <4>1, OneLevel
    <3>2. QED BY <3>1
  <2>8. QED BY <1>1, <1>5, <1>7, <2>1, <2>3, <2>4, <2>6, <2>7
<1>8. QED BY <1>6, <1>7

\* The deepest level is that of the hosts furthest away.
LEMMA RootsAre ==
  ASSUME NEW g, Drawn(g), NEW target \in DOMAIN g.nodes
  PROVE  LET cause == Walks(Causes(g, target))
             furthest == Max({Shortest(cause, p, target) : p \in Hosts})
         IN  /\ furthest \in Nat
             /\ Roots(g, target) = IF furthest = 0 THEN {target}
                                   ELSE {p \in Hosts : Shortest(cause, p, target) = furthest}
<1>1. PICK m \in Nat, n \in Nat \ {0} :
        m = Cardinality(DOMAIN g.nodes) /\ n = Cardinality(Hosts) /\ m <= n
  <2>1. DOMAIN g.nodes \in SUBSET Hosts /\ IsFiniteSet(Hosts) /\ target \in Hosts
    BY HostsAreFinite DEF Drawn
  <2>2. /\ Cardinality(DOMAIN g.nodes) \in Nat /\ Cardinality(Hosts) \in Nat
        /\ Cardinality(DOMAIN g.nodes) <= Cardinality(Hosts)
    BY <2>1, FS_Subset, FS_CardinalityType
  <2>3. Cardinality(Hosts) # 0
    BY <2>1, FS_EmptySet
  <2>4. QED BY <2>2, <2>3
<1>2. PICK rel \in SUBSET (Hosts \X Hosts) : rel = Causes(g, target)
  BY DEF Drawn, Causes
<1>3. PICK lv : lv = Levels(g, target) /\ AreLevels(lv, rel, target, m)
  <2>1. AreLevels(Levels(g, target), Causes(g, target), target, m)
    BY <1>1, LevelsAre, Zenon
  <2>2. QED BY <1>2, <2>1
<1>4. PICK walk : walk = Walks(Causes(g, target)) /\ AreWalks(walk, rel, n)
  BY <1>1, <1>2, WalksAre
<1>5. /\ target \in Hosts /\ DOMAIN lv = 0..m + 1 /\ lv[0][1] = {target}
      /\ \A i \in 1..m + 1 : \A p \in lv[i][1] : p \in Hosts /\ \E h : <<p, h>> \in rel
  <2>1. target \in Hosts /\ DOMAIN lv = 0..m + 1 /\ lv[0] = <<{target}, {}>>
    BY <1>3 DEF AreLevels
  <2>2. lv[0][1] = {target}
    BY <2>1
  <2>3. ASSUME NEW i \in 1..m + 1, NEW p \in lv[i][1]
        PROVE  p \in Hosts /\ \E h : <<p, h>> \in rel
    <3>1. lv[i][1] = {q \in Hosts :
                        q \notin lv[i - 1][2] /\ \E h \in lv[i - 1][1] : <<q, h>> \in rel}
      BY <1>3 DEF AreLevels
    <3>2. QED BY <2>3, <3>1
  <2>4. QED BY <2>1, <2>2, <2>3
<1>6. lv[m + 1][1] = {}
  <2>1. \A i \in 1..m + 1 : lv[i][1] \subseteq DOMAIN g.nodes
    <3>1. ASSUME NEW e \in rel PROVE e[1] \in DOMAIN g.nodes
      BY <1>2 DEF Causes, Drawn
    <3>2. ASSUME NEW p, NEW h, <<p, h>> \in rel PROVE p \in DOMAIN g.nodes
      <4>1. <<p, h>>[1] = p
        OBVIOUS
      <4>2. <<p, h>>[1] \in DOMAIN g.nodes
        BY <3>1, <3>2
      <4>3. QED BY <4>1, <4>2
    <3>3. QED BY <1>5, <3>2
  <2>2. PICK nodes : nodes = DOMAIN g.nodes /\ IsFiniteSet(nodes) /\ Cardinality(nodes) = m
    <3>1. DOMAIN g.nodes \in SUBSET Hosts /\ IsFiniteSet(Hosts)
      BY HostsAreFinite DEF Drawn
    <3>2. QED BY <1>1, <3>1, FS_Subset
  <2>3. \A i \in 1..m + 1 : lv[i][1] \subseteq nodes
    BY <2>1, <2>2
  <2>4. QED BY <1>3, <2>2, <2>3, LastLevelIsEmpty
<1> DEFINE Away(p) == Shortest(walk, p, target)
<1>7. ASSUME NEW p \in Hosts
      PROVE  Away(p) \in 0..m /\ \A i \in 1..m : Away(p) = i <=> p \in lv[i][1]
  BY <1>1, <1>3, <1>4, <1>6, ShortestIs
<1> HIDE DEF Away
<1>8. PICK D : D = {Away(p) : p \in Hosts}
  OBVIOUS
<1>9. PICK far \in D : far = Max(D) /\ \A x \in D : x <= far
  <2>1. D \in SUBSET (0..m) /\ D # {}
    BY <1>5, <1>7, <1>8
  <2>2. QED BY <2>1, MaxIs
<1>10. PICK T : T = {i \in DOMAIN lv : lv[i][1] # {}}
  OBVIOUS
<1>11. T \in SUBSET (0..m) /\ 0 \in T
  <2>1. \A i \in 0..m + 1 : i \in 0..m \/ i = m + 1
    OBVIOUS
  <2>2. 0 \in 0..m + 1
    OBVIOUS
  <2>3. QED BY <1>5, <1>6, <1>10, <2>1, <2>2
<1>12. PICK last \in T : last = Max(T) /\ \A x \in T : x <= last
  <2>1. T # {}
    BY <1>11
  <2>2. QED BY <1>11, <2>1, MaxIs
<1>13. last \in 0..m /\ far \in 0..m
  BY <1>7, <1>8, <1>9, <1>11, <1>12
<1>14. last <= far
  <2>1. CASE last = 0
    BY <1>13, <2>1
  <2>2. CASE last # 0
    <3>1. last \in 1..m /\ last \in 1..m + 1
      BY <1>13, <2>2
    <3>2. PICK p \in Hosts : p \in lv[last][1]
      BY <1>5, <1>10, <1>12, <3>1
    <3>3. last \in D
      BY <1>7, <1>8, <3>1, <3>2
    <3>4. QED BY <1>9, <3>3
  <2>3. QED BY <2>1, <2>2
<1>15. far <= last
  <2>1. CASE far = 0
    BY <1>13, <2>1
  <2>2. CASE far # 0
    <3>1. far \in 1..m /\ far \in 0..m + 1
      BY <1>13, <2>2
    <3>2. PICK p \in Hosts : far = Away(p)
      BY <1>8, <1>9
    <3>3. far \in T
      BY <1>5, <1>7, <1>10, <3>1, <3>2
    <3>4. QED BY <1>12, <3>3
  <2>3. QED BY <2>1, <2>2
<1>16. far = last
  BY <1>13, <1>14, <1>15
<1>17. Roots(g, target) = lv[last][1]
  BY <1>3, <1>10, <1>12 DEF Roots
<1>18. Roots(g, target) = IF far = 0 THEN {target} ELSE {p \in Hosts : Away(p) = far}
  <2>1. CASE far = 0
    BY <1>5, <1>16, <1>17, <2>1
  <2>2. CASE far # 0
    <3>1. far \in 1..m /\ far \in 1..m + 1
      BY <1>13, <2>2
    <3>2. \A p : p \in lv[far][1] <=> p \in Hosts /\ Away(p) = far
      BY <1>5, <1>7, <3>1
    <3>3. QED BY <1>16, <1>17, <2>2, <3>2
  <2>3. QED BY <2>1, <2>2
<1>19. far = Max({Shortest(walk, p, target) : p \in Hosts})
  BY <1>8, <1>9 DEF Away
<1>20. Roots(g, target) = IF far = 0 THEN {target}
                          ELSE {p \in Hosts : Shortest(walk, p, target) = far}
  BY <1>18 DEF Away
<1>21. far \in Nat
  BY <1>13
<1>22. QED BY <1>4, <1>19, <1>20, <1>21, Zenon

\* The hosts within each number of hops.
WithinHops(w, g, host, depth) ==
  /\ w \in [0..depth -> SUBSET Hosts] /\ w[0] = {host}
  /\ \A i \in 1..depth : w[i] = w[i - 1] \union UNION {Out(g, h) : h \in w[i - 1]}
  /\ BlastRadius(g, host, depth) = [i \in 1..depth |-> w[i] \ w[i - 1]]

LEMMA BlastRadiusIs ==
  ASSUME NEW g, Drawn(g), NEW host \in Hosts, NEW depth \in Nat
  PROVE  \E w : WithinHops(w, g, host, depth)
<1> DEFINE Wider(w) == w \union UNION {Out(g, h) : h \in w}
           Is(f) == f = [i \in 0..depth |->
                           IF i = 0 THEN {host}
                           ELSE f[i - 1] \union UNION {Out(g, h) : h \in f[i - 1]}]
           within == CHOOSE f : Is(f)
           A == SUBSET Hosts
           base == {host}
<1>1. BlastRadius(g, host, depth) = [i \in 1..depth |-> within[i] \ within[i - 1]]
  BY Zenon DEF BlastRadius
<1>2. \A w \in A : Wider(w) \in A
  BY DEF Out, Drawn
<1>3. PICK f \in [0..depth -> A] :
        \A i \in 0..depth : f[i] = IF i = 0 THEN base ELSE Wider(f[i - 1])
  <2> HIDE DEF Wider
  <2> DEFINE step == [p \in A \X (1..depth) |-> Wider(p[1])]
  <2>1. \A w \in A, i \in 1..depth : step[<<w, i>>] = Wider(w)
    <3> HIDE DEF A
    <3>1. QED OBVIOUS
  <2>2. \A w \in A : \A i \in 1..depth : step[<<w, i>>] \in A
    <3> HIDE DEF step, A
    <3>1. QED BY <1>2, <2>1
  <2>3. base \in A
    OBVIOUS
  <2> HIDE DEF step, A, base
  <2>4. \E f \in [0..depth -> A] : Looped(f, depth, base, step)
    BY <2>2, <2>3, LoopExists, Zenon
  <2>5. PICK f \in [0..depth -> A] : Looped(f, depth, base, step)
    BY <2>4
  <2>6. \A i \in 0..depth : i # 0 => i \in 1..depth /\ i - 1 \in 0..depth
    OBVIOUS
  <2>7. \A i \in 0..depth : f[i] = IF i = 0 THEN base ELSE Wider(f[i - 1])
    BY <2>1, <2>5, <2>6 DEF Looped
  <2>8. QED BY <2>7
<1>4. Is(f)
  <2> HIDE DEF A
  <2>1. f = [i \in 0..depth |-> IF i = 0 THEN base ELSE Wider(f[i - 1])]
    <3> HIDE DEF Wider, base
    <3>1. QED BY <1>3
  <2>2. QED BY <2>1
<1>5. Is(within)
  <2> HIDE DEF Is
  <2>1. QED BY <1>4, Zenon
<1> HIDE DEF within
<1>6. within = [i \in 0..depth |-> IF i = 0 THEN base ELSE Wider(within[i - 1])]
  BY <1>5
<1> DEFINE N == {k \in Nat : k <= depth => within[k] = f[k]}
<1>7. \A k \in 0..depth : within[k] = f[k]
  <2> HIDE DEF Wider, base, A
  <2>1. 0 \in N
    BY <1>3, <1>6
  <2>2. ASSUME NEW k \in Nat, k \in N PROVE k + 1 \in N
    <3> SUFFICES ASSUME k + 1 <= depth PROVE within[k + 1] = f[k + 1]
      OBVIOUS
    <3>1. PICK l \in 0..depth : l = k + 1 /\ l - 1 = k /\ l # 0
      OBVIOUS
    <3>2. within[k] = f[k]
      BY <2>2, <3>1
    <3>3. QED BY <1>3, <1>6, <3>1, <3>2
  <2>3. Nat \subseteq N
    <3> HIDE DEF N
    <3>1. QED BY <2>1, <2>2, Induction
  <2>4. QED BY <2>3
<1>8. f[0] = {host}
  <2>1. 0 \in 0..depth
    OBVIOUS
  <2>2. QED BY <1>3, <2>1
<1>9. ASSUME NEW i \in 1..depth
      PROVE  f[i] = f[i - 1] \union UNION {Out(g, h) : h \in f[i - 1]}
  <2>1. i \in 0..depth /\ i # 0
    OBVIOUS
  <2>2. f[i] = Wider(f[i - 1])
    <3> HIDE DEF Wider, A
    <3>1. QED BY <1>3, <2>1
  <2>3. QED BY <2>2
<1>10. BlastRadius(g, host, depth) = [i \in 1..depth |-> f[i] \ f[i - 1]]
  <2>1. \A i \in 1..depth : within[i] = f[i] /\ within[i - 1] = f[i - 1]
    <3>1. \A i \in 1..depth : i \in 0..depth /\ i - 1 \in 0..depth
      OBVIOUS
    <3>2. QED BY <1>7, <3>1
  <2> HIDE DEF A
  <2>2. QED BY <1>1, <2>1
<1>11. WithinHops(f, g, host, depth)
  BY <1>3, <1>8, <1>9, <1>10 DEF WithinHops
<1>12. QED BY <1>11

\* The hosts at one hop and at two.
LEMMA BlastRadiusIsShortest ==
  ASSUME NEW g, Drawn(g), NEW host \in Hosts, NEW depth \in {1, 2}, NEW i \in 1..depth
  PROVE  BlastRadius(g, host, depth)[i] =
           {d \in Hosts \ {host} : Shortest(Walks(DOMAIN g.edges), host, d) = i}
<1>1. PICK n \in Nat \ {0} :
        n = Cardinality(Hosts) /\ \A d \in Hosts : d # host => n >= 2
  <2>1. Cardinality(Hosts) \in Nat /\ Cardinality(Hosts) # 0
    BY HostsAreFinite, FS_CardinalityType, FS_EmptySet
  <2>2. ASSUME NEW d \in Hosts, d # host PROVE Cardinality(Hosts) >= 2
    <3>1. IsFiniteSet({host}) /\ Cardinality({host}) = 1
      BY FS_Singleton
    <3>2. PICK both \in SUBSET Hosts : both = {host} \union {d}
      OBVIOUS
    <3>3. Cardinality(both) = 2
      BY <2>2, <3>1, <3>2, FS_AddElement
    <3>4. Cardinality(both) <= Cardinality(Hosts)
      BY HostsAreFinite, FS_Subset
    <3>5. QED BY <2>1, <3>3, <3>4
  <2>3. QED BY <2>1, <2>2
<1>2. PICK rel \in SUBSET (Hosts \X Hosts) : rel = DOMAIN g.edges
  BY DEF Drawn
<1>3. PICK walk : walk = Walks(DOMAIN g.edges) /\ AreWalks(walk, rel, n)
  BY <1>1, <1>2, WalksAre
<1>4. /\ DOMAIN walk = 1..n /\ walk[1] = rel
      /\ \A x, y \in Hosts : n >= 2 =>
           (<<x, y>> \in walk[2] <=> \E h \in Hosts : <<x, h>> \in rel /\ <<h, y>> \in rel)
  <2>1. n >= 2 => 2 \in 2..n /\ 2 - 1 = 1
    OBVIOUS
  <2>2. QED BY <1>3, <2>1 DEF AreWalks
<1>5. \A x \in Hosts : \A d : d \in Out(g, x) <=> d \in Hosts /\ <<x, d>> \in rel
  <2>1. ASSUME NEW x, NEW d, <<x, d>> \in rel PROVE d \in DOMAIN g.nodes
    <3>1. <<x, d>>[2] = d
      OBVIOUS
    <3>2. \A e \in rel : e[2] \in DOMAIN g.nodes
      BY <1>2 DEF Drawn
    <3>3. QED BY <2>1, <3>1, <3>2
  <2>2. QED BY <1>2, <2>1 DEF Out, Drawn
<1>6. ASSUME NEW d \in Hosts, d # host
      PROVE  /\ Shortest(walk, host, d) = 1 <=> <<host, d>> \in rel
             /\ Shortest(walk, host, d) = 2 <=>
                  /\ <<host, d>> \notin rel
                  /\ \E h \in Hosts : <<host, h>> \in rel /\ <<h, d>> \in rel
  <2>1. PICK lengths : lengths = {k \in 1..n : <<host, d>> \in walk[k]}
    OBVIOUS
  <2>2. Shortest(walk, host, d) = IF lengths = {} THEN 0 ELSE Min(lengths)
    BY <1>4, <2>1 DEF Shortest
  <2>3. 1 \in 1..n /\ 2 \in 1..n
    BY <1>1, <1>6
  <2>4. lengths # {} => Min(lengths) \in lengths /\ \A x \in lengths : Min(lengths) <= x
    <3>1. lengths \in SUBSET Nat
      BY <2>1
    <3>2. QED BY <3>1, MinIs
  <2>5. 1 \in lengths <=> <<host, d>> \in rel
    BY <1>4, <2>1, <2>3
  <2>6. 2 \in lengths <=> \E h \in Hosts : <<host, h>> \in rel /\ <<h, d>> \in rel
    BY <1>1, <1>4, <1>6, <2>1, <2>3
  <2>7. \A k \in lengths : k \in Nat /\ k >= 1
    BY <2>1
  <2>8. Shortest(walk, host, d) = 1 <=> 1 \in lengths
    BY <2>2, <2>4, <2>7
  <2>9. Shortest(walk, host, d) = 2 <=> 2 \in lengths /\ 1 \notin lengths
    BY <2>2, <2>4, <2>7
  <2>10. QED BY <2>5, <2>6, <2>8, <2>9
<1>7. depth \in Nat
  OBVIOUS
<1>8. PICK w :
        /\ w \in [0..depth -> SUBSET Hosts] /\ w[0] = {host}
        /\ \A j \in 1..depth : w[j] = w[j - 1] \union UNION {Out(g, h) : h \in w[j - 1]}
        /\ BlastRadius(g, host, depth) = [j \in 1..depth |-> w[j] \ w[j - 1]]
  <2>1. PICK w : WithinHops(w, g, host, depth)
    BY <1>7, BlastRadiusIs, Zenon
  <2>2. QED BY <2>1 DEF WithinHops
<1>9. \A d : d \in w[1] <=> d = host \/ d \in Out(g, host)
  <2>1. 1 \in 1..depth /\ 1 - 1 = 0
    OBVIOUS
  <2>2. QED BY <1>8, <2>1
<1>10. ASSUME NEW d \in Hosts, d # host
       PROVE  d \in BlastRadius(g, host, depth)[i] <=> Shortest(walk, host, d) = i
  <2>1. CASE i = 1
    <3>1. BlastRadius(g, host, depth)[1] = w[1] \ {host}
      <4>1. 1 \in 1..depth /\ 1 - 1 = 0
        OBVIOUS
      <4>2. QED BY <1>8, <4>1
    <3>2. QED BY <1>5, <1>6, <1>9, <1>10, <2>1, <3>1
  <2>2. CASE i = 2
    <3>1. 2 \in 1..depth /\ 2 - 1 = 1
      BY <2>2
    <3>2. BlastRadius(g, host, depth)[2] = w[2] \ w[1]
      BY <1>8, <3>1
    <3>3. \A x : x \in w[2] <=> x \in w[1] \/ \E h \in w[1] : x \in Out(g, h)
      BY <1>8, <3>1
    <3>4. d \in w[2] \ w[1] <=>
            d \notin Out(g, host) /\ \E h \in Out(g, host) : d \in Out(g, h)
      BY <1>9, <1>10, <3>3
    <3>5. QED BY <1>5, <1>6, <1>10, <2>2, <3>2, <3>4
  <2>3. i = 1 \/ i = 2
    OBVIOUS
  <2>4. QED BY <2>1, <2>2, <2>3
<1>11. BlastRadius(g, host, depth)[i] \subseteq Hosts \ {host}
  <2>1. BlastRadius(g, host, depth)[i] = w[i] \ w[i - 1]
    BY <1>8
  <2>2. w[i] \in SUBSET Hosts
    BY <1>8
  <2>3. host \in w[i - 1]
    <3>1. i - 1 = 0 \/ i - 1 = 1
      OBVIOUS
    <3>2. QED BY <1>8, <1>9, <3>1
  <2>4. QED BY <2>1, <2>2, <2>3
<1>12. BlastRadius(g, host, depth)[i] = {d \in Hosts \ {host} : Shortest(walk, host, d) = i}
  BY <1>10, <1>11
<1>13. QED BY <1>3, <1>12

\* The view of the compromised hosts, and of those next to one.
LEMMA ViewIs ==
  ASSUME GraphInv, NEW h \in DOMAIN graph.nodes
  PROVE  h \in CompromisedView(graph).nodes <=>
           \/ Against(h) # {}
           \/ \E e \in DOMAIN graph.edges :
                h \in {e[1], e[2]} /\ Against(e[1]) \cup Against(e[2]) # {}
<1>1. Explains(graph, said) /\ Drawn(graph) /\ Sayings(said)
  BY DEF GraphInv, Explains
<1>2. PICK bad : bad = {x \in DOMAIN graph.nodes : graph.nodes[x].compromised # 0}
  OBVIOUS
<1>3. ASSUME NEW x \in DOMAIN graph.nodes PROVE x \in bad <=> Against(x) # {}
  <2>1. x \in Hosts /\ NodeOf(graph, x) = graph.nodes[x]
    BY <1>1 DEF Drawn, NodeOf
  <2>2. PICK is : is = Blaming(said, x) /\ is = Against(x)
    BY <1>1, AgainstIs
  <2>3. NodeExplained(x, graph.nodes[x], said, is)
    BY <1>1, <2>1, <2>2 DEF Explains
  <2>4. is # {} => said[Min(is)][1].ts # 0
    <3>1. is \in SUBSET (1..Len(said)) /\ is \in SUBSET Nat
      BY <2>2 DEF Blaming
    <3>2. is # {} => Min(is) \in 1..Len(said)
      BY <3>1, MinIs
    <3>3. QED BY <1>1, <3>2 DEF Sayings, Sayable
  <2>5. QED BY <1>2, <2>2, <2>3, <2>4 DEF NodeExplained
<1>4. CompromisedView(graph).nodes =
        bad \union UNION {Out(graph, x) \union In(graph, x) : x \in bad}
  BY <1>2 DEF CompromisedView
<1>5. h \in CompromisedView(graph).nodes <=>
        h \in bad \/ \E x \in bad : h \in Out(graph, x) \/ h \in In(graph, x)
  BY <1>4
<1>6. \A x : /\ h \in Out(graph, x) <=> <<x, h>> \in DOMAIN graph.edges
             /\ h \in In(graph, x) <=> <<h, x>> \in DOMAIN graph.edges
  BY DEF Out, In
<1>7. ASSUME NEW x \in bad, <<x, h>> \in DOMAIN graph.edges \/ <<h, x>> \in DOMAIN graph.edges
      PROVE  \E e \in DOMAIN graph.edges :
               h \in {e[1], e[2]} /\ Against(e[1]) \cup Against(e[2]) # {}
  <2>1. Against(x) # {}
    BY <1>2, <1>3
  <2>2. CASE <<x, h>> \in DOMAIN graph.edges
    <3>1. <<x, h>>[1] = x /\ <<x, h>>[2] = h
      OBVIOUS
    <3>2. PICK e \in DOMAIN graph.edges : e[1] = x /\ e[2] = h
      BY <2>2, <3>1
    <3>3. QED BY <2>1, <3>2
  <2>3. CASE <<h, x>> \in DOMAIN graph.edges
    <3>1. <<h, x>>[1] = h /\ <<h, x>>[2] = x
      OBVIOUS
    <3>2. PICK e \in DOMAIN graph.edges : e[1] = h /\ e[2] = x
      BY <2>3, <3>1
    <3>3. QED BY <2>1, <3>2
  <2>4. QED BY <1>7, <2>2, <2>3
<1>8. ASSUME NEW e \in DOMAIN graph.edges, h \in {e[1], e[2]},
             Against(e[1]) \cup Against(e[2]) # {}
      PROVE  h \in bad \/ \E x \in bad : h \in Out(graph, x) \/ h \in In(graph, x)
  <2>1. e \in Hosts \X Hosts /\ e[1] \in DOMAIN graph.nodes /\ e[2] \in DOMAIN graph.nodes
    BY <1>1 DEF Drawn
  <2>2. e = <<e[1], e[2]>>
    BY <2>1
  <2>3. e[1] \in bad \/ e[2] \in bad
    BY <1>3, <1>8, <2>1
  <2>4. CASE h = e[1]
    <3>1. h \in In(graph, e[2])
      BY <1>6, <2>2, <2>4
    <3>2. QED BY <2>3, <2>4, <3>1
  <2>5. CASE h = e[2]
    <3>1. h \in Out(graph, e[1])
      BY <1>6, <2>2, <2>5
    <3>2. QED BY <2>3, <2>5, <3>1
  <2>6. QED BY <1>8, <2>4, <2>5
<1>9. QED
  <2>1. Against(h) # {} <=> h \in bad
    BY <1>3
  <2>2. QED BY <1>5, <1>6, <1>7, <1>8, <2>1

LEMMA ShortestSearches == GraphInv => SearchesAreShortest
<1> SUFFICES ASSUME GraphInv, NEW h \in DOMAIN graph.nodes, NEW cause, NEW furthest,
                    cause = Walks({e \in DOMAIN graph.edges :
                                     IsCausal(graph, e[1], e[2], h)}),
                    furthest = Max({Shortest(cause, p, h) : p \in Hosts})
             PROVE
       /\ \A p \in Roots(graph, h) \ {h} : Shortest(cause, p, h) > 0
       /\ ~(Shortest(cause, h, h) > 0) => Roots(graph, h) =
            IF furthest = 0 THEN {h}
            ELSE {p \in Hosts : Shortest(cause, p, h) = furthest}
       /\ \A depth \in {1, 2} : \A i \in 1..depth :
            BlastRadius(graph, h, depth)[i] =
              {d \in Hosts \ {h} : Shortest(Walks(DOMAIN graph.edges), h, d) = i}
       /\ h \in CompromisedView(graph).nodes <=>
            \/ Against(h) # {}
            \/ \E e \in DOMAIN graph.edges :
                 h \in {e[1], e[2]} /\ Against(e[1]) \cup Against(e[2]) # {}
  BY DEF SearchesAreShortest
<1>1. Drawn(graph) /\ h \in Hosts
  BY DEF GraphInv, Explains, Drawn
<1>2. /\ furthest \in Nat
      /\ Roots(graph, h) = IF furthest = 0 THEN {h}
                           ELSE {p \in Hosts : Shortest(cause, p, h) = furthest}
  <2>1. Causes(graph, h) = {e \in DOMAIN graph.edges : IsCausal(graph, e[1], e[2], h)}
    BY DEF Causes
  <2>2. cause = Walks(Causes(graph, h))
    BY <2>1
  <2>3. LET c == Walks(Causes(graph, h))
            f == Max({Shortest(c, p, h) : p \in Hosts})
        IN  /\ f \in Nat
            /\ Roots(graph, h) = IF f = 0 THEN {h}
                                 ELSE {p \in Hosts : Shortest(c, p, h) = f}
    BY <1>1, RootsAre, Zenon
  <2>4. QED BY <2>2, <2>3, Zenon
<1>3. \A p \in Roots(graph, h) \ {h} : Shortest(cause, p, h) > 0
  <2>1. CASE furthest = 0
    BY <1>2, <2>1
  <2>2. CASE furthest # 0
    <3>1. furthest > 0
      BY <1>2, <2>2
    <3>2. \A p \in Roots(graph, h) : Shortest(cause, p, h) = furthest
      BY <1>2, <2>2
    <3>3. QED BY <3>1, <3>2
  <2>3. QED BY <2>1, <2>2
<1>4. \A depth \in {1, 2} : \A i \in 1..depth :
        BlastRadius(graph, h, depth)[i] =
          {d \in Hosts \ {h} : Shortest(Walks(DOMAIN graph.edges), h, d) = i}
  BY <1>1, BlastRadiusIsShortest
<1>5. h \in CompromisedView(graph).nodes <=>
        \/ Against(h) # {}
        \/ \E e \in DOMAIN graph.edges :
             h \in {e[1], e[2]} /\ Against(e[1]) \cup Against(e[2]) # {}
  BY ViewIs
<1>6. QED BY <1>2, <1>4, <1>5, <1>3, Zenon

\* However the flows and the alerts come, the searches of the graph are those
\* of its shortest walks.
THEOREM SearchesAlwaysShortest == IntelSpec => []SearchesAreShortest
<1>1. QED BY InitialGraph, GraphStep, ShortestSearches, PTL DEF IntelSpec

-----------------------------------------------------------------------------
(* Flows: the profiles and the sessions against the history *)

\* A history M that goes on where L ends.
Continues(M, L, e) ==
  /\ IsSequence(L) /\ Len(L) \in Nat /\ Len(M) = Len(L) + 1
  /\ M[Len(L) + 1] = e /\ \A i \in 1..Len(L) : M[i] = L[i]

LEMMA AppendContinues ==
  ASSUME NEW L, IsSequence(L), NEW e PROVE Continues(Append(L, e), L, e)
BY SequenceGrows DEF Continues

\* The hosts that h reached to administer them, in the first i flows of L, and
\* the clients of a port of h.
Reached(L, h, i) ==
  {L[j].flow.dst : j \in
     {k \in 1..i : /\ L[k].flow.src = h
                   /\ L[k].flow.dport \in ManagementPorts
                   /\ {h, L[k].flow.dst} \subseteq Internal}}
ClientsOf(L, h, port, i) ==
  {L[j].flow.src : j \in
     {k \in 1..i : L[k].flow.dst = h /\ L[k].flow.dport = port}}

\* The roles that exempt from the lateral rule, and what earns them.
Exempting == {"ADMIN_MANAGEMENT", "INFRASTRUCTURE_DC"}
EarnedBy(L, h, i) ==
  \/ Cardinality(Reached(L, h, i)) >= RoleNeeds.admin
  \/ \E port \in {88, 389} : Cardinality(ClientsOf(L, h, port, i)) >= RoleNeeds.dc
  \/ Cardinality(ClientsOf(L, h, 445, i)) >= RoleNeeds.smb

IsProfile(p) ==
  p = [inbound |-> p.inbound, targets |-> p.targets, roles |-> p.roles, acc |-> p.acc]

\* The tables of a profile hold nothing that the history does not.
TablesAreSeen(p, L) ==
  /\ \A key \in DOMAIN p.inbound :
       p.inbound[key] \subseteq ClientsOf(L, key[1], key[2], Len(L))
  /\ \A h \in DOMAIN p.targets : p.targets[h] \subseteq Reached(L, h, Len(L))

RolesAreEarned(p, L) ==
  \A h \in DOMAIN p.roles : p.roles[h] \in Exempting => EarnedBy(L, h, Len(L))

LEMMA HistoriesAreFinite ==
  ASSUME NEW L, NEW h, NEW i \in Nat
  PROVE  /\ IsFiniteSet(Reached(L, h, i))
         /\ \A port : IsFiniteSet(ClientsOf(L, h, port, i))
<1>1. \A S \in SUBSET (1..i) : IsFiniteSet(S)
  <2>1. IsFiniteSet(1..i)
    BY 1 \in Int, i \in Int, FS_Interval
  <2>2. QED BY <2>1, FS_Subset
<1>2. IsFiniteSet(Reached(L, h, i))
  <2> DEFINE S == {k \in 1..i : /\ L[k].flow.src = h
                                /\ L[k].flow.dport \in ManagementPorts
                                /\ {h, L[k].flow.dst} \subseteq Internal}
             f == [j \in S |-> L[j].flow.dst]
  <2>1. IsFiniteSet(S)
    BY <1>1
  <2>2. f \in Surjection(S, Reached(L, h, i))
    BY DEF Reached, Surjection
  <2>3. QED BY <2>1, <2>2, FS_Surjection DEF ExistsSurjection
<1>3. ASSUME NEW port PROVE IsFiniteSet(ClientsOf(L, h, port, i))
  <2> DEFINE S == {k \in 1..i : L[k].flow.dst = h /\ L[k].flow.dport = port}
             f == [j \in S |-> L[j].flow.src]
  <2>1. IsFiniteSet(S)
    BY <1>1
  <2>2. f \in Surjection(S, ClientsOf(L, h, port, i))
    BY DEF ClientsOf, Surjection
  <2>3. QED BY <2>1, <2>2, FS_Surjection DEF ExistsSurjection
<1>4. QED BY <1>2, <1>3

\* What a longer history shows.
LEMMA HistoriesGrow ==
  ASSUME NEW M, NEW L, NEW e, Continues(M, L, e), NEW h, NEW port
  PROVE  /\ Reached(L, h, Len(L)) \subseteq Reached(M, h, Len(M))
         /\ ClientsOf(L, h, port, Len(L)) \subseteq ClientsOf(M, h, port, Len(M))
<1>1. PICK l \in Nat : l = Len(L)
  BY DEF Continues
<1>2. Len(M) = l + 1 /\ \A i \in 1..l : M[i] = L[i]
  BY <1>1 DEF Continues
<1>3. 1..l \subseteq 1..l + 1
  OBVIOUS
<1>4. Reached(L, h, l) \subseteq Reached(M, h, l + 1)
  BY <1>2, <1>3 DEF Reached
<1>5. ClientsOf(L, h, port, l) \subseteq ClientsOf(M, h, port, l + 1)
  BY <1>2, <1>3 DEF ClientsOf
<1>6. QED BY <1>1, <1>2, <1>4, <1>5

LEMMA HistoriesStay ==
  ASSUME NEW M, NEW L, NEW e, Continues(M, L, e), NEW h, NEW port,
         NEW i \in 1..Len(L)
  PROVE  Reached(M, h, i) = Reached(L, h, i)
         /\ ClientsOf(M, h, port, i) = ClientsOf(L, h, port, i)
<1>1. PICK l \in Nat : l = Len(L)
  BY DEF Continues
<1>2. i \in 1..l /\ \A k \in 1..l : M[k] = L[k]
  BY <1>1 DEF Continues
<1>3. \A k \in 1..i : M[k] = L[k]
  BY <1>2
<1>4. QED BY <1>3 DEF Reached, ClientsOf

\* What was earned stays earned.
LEMMA EarningsLast ==
  ASSUME NEW M, NEW L, NEW e, Continues(M, L, e), NEW h
  PROVE  /\ \A i \in 1..Len(L) : EarnedBy(M, h, i) <=> EarnedBy(L, h, i)
         /\ EarnedBy(L, h, Len(L)) => EarnedBy(M, h, Len(M))
<1>1. PICK l \in Nat, m \in Nat : l = Len(L) /\ m = Len(M)
  BY DEF Continues
<1>2. \A i \in 1..l : EarnedBy(M, h, i) <=> EarnedBy(L, h, i)
  <2>1. TAKE i \in 1..l
  <2>2. ASSUME NEW port
        PROVE  /\ Reached(M, h, i) = Reached(L, h, i)
               /\ ClientsOf(M, h, port, i) = ClientsOf(L, h, port, i)
    <3>1. i \in 1..Len(L)
      BY <1>1
    <3>2. QED BY <3>1, HistoriesStay
  <2>3. QED BY <2>2 DEF EarnedBy
<1>3. /\ Cardinality(Reached(L, h, l)) \in Nat /\ Cardinality(Reached(M, h, m)) \in Nat
      /\ Cardinality(Reached(L, h, l)) <= Cardinality(Reached(M, h, m))
  <2>1. IsFiniteSet(Reached(L, h, l)) /\ IsFiniteSet(Reached(M, h, m))
    BY HistoriesAreFinite
  <2>2. Reached(L, h, l) \in SUBSET Reached(M, h, m)
    BY <1>1, HistoriesGrow
  <2>3. QED BY <2>1, <2>2, FS_Subset, FS_CardinalityType
<1>4. ASSUME NEW port
      PROVE  /\ Cardinality(ClientsOf(L, h, port, l)) \in Nat
             /\ Cardinality(ClientsOf(M, h, port, m)) \in Nat
             /\ Cardinality(ClientsOf(L, h, port, l))
                  <= Cardinality(ClientsOf(M, h, port, m))
  <2>1. IsFiniteSet(ClientsOf(L, h, port, l)) /\ IsFiniteSet(ClientsOf(M, h, port, m))
    BY HistoriesAreFinite
  <2>2. ClientsOf(L, h, port, l) \in SUBSET ClientsOf(M, h, port, m)
    BY <1>1, HistoriesGrow
  <2>3. QED BY <2>1, <2>2, FS_Subset, FS_CardinalityType
<1>5. RoleNeeds.admin \in Nat /\ RoleNeeds.dc \in Nat /\ RoleNeeds.smb \in Nat
  BY RoleNeedsAssumption
<1>6. ASSUME EarnedBy(L, h, l) PROVE EarnedBy(M, h, m)
  <2>1. CASE Cardinality(Reached(L, h, l)) >= RoleNeeds.admin
    <3>1. Cardinality(Reached(M, h, m)) >= RoleNeeds.admin
      BY <1>3, <1>5, <2>1
    <3>2. QED BY <3>1 DEF EarnedBy
  <2>2. ASSUME NEW port \in {88, 389},
               Cardinality(ClientsOf(L, h, port, l)) >= RoleNeeds.dc
        PROVE  EarnedBy(M, h, m)
    <3>1. Cardinality(ClientsOf(M, h, port, m)) >= RoleNeeds.dc
      BY <1>4, <1>5, <2>2
    <3>2. QED BY <3>1 DEF EarnedBy
  <2>3. CASE Cardinality(ClientsOf(L, h, 445, l)) >= RoleNeeds.smb
    <3>1. Cardinality(ClientsOf(M, h, 445, m)) >= RoleNeeds.smb
      BY <1>4, <1>5, <2>3
    <3>2. QED BY <3>1 DEF EarnedBy
  <2>4. QED BY <1>6, <2>1, <2>2, <2>3 DEF EarnedBy
<1>7. QED BY <1>1, <1>2, <1>6

\* A count of the profile is at most that of the history.
LEMMA CountsAreSeen ==
  ASSUME NEW p, NEW L, Len(L) \in Nat, TablesAreSeen(p, L), NEW h
  PROVE  /\ \A port : /\ Clients(p, h, port) \in Nat
                      /\ Clients(p, h, port)
                           <= Cardinality(ClientsOf(L, h, port, Len(L)))
                      /\ Cardinality(ClientsOf(L, h, port, Len(L))) \in Nat
         /\ Cardinality(Lookup(p.targets, h, {})) \in Nat
         /\ Cardinality(Lookup(p.targets, h, {}))
              <= Cardinality(Reached(L, h, Len(L)))
         /\ Cardinality(Reached(L, h, Len(L))) \in Nat
<1>1. ASSUME NEW port
      PROVE  /\ Clients(p, h, port) \in Nat
             /\ Clients(p, h, port) <= Cardinality(ClientsOf(L, h, port, Len(L)))
             /\ Cardinality(ClientsOf(L, h, port, Len(L))) \in Nat
  <2>1. PICK C : C = Lookup(p.inbound, <<h, port>>, {})
    OBVIOUS
  <2>2. IsFiniteSet(ClientsOf(L, h, port, Len(L)))
    BY HistoriesAreFinite
  <2>3. C \in SUBSET ClientsOf(L, h, port, Len(L))
    BY <2>1 DEF Lookup, TablesAreSeen
  <2>4. IsFiniteSet(C) /\ Cardinality(C) <= Cardinality(ClientsOf(L, h, port, Len(L)))
    BY <2>2, <2>3, FS_Subset
  <2>5. QED BY <2>1, <2>2, <2>4, FS_CardinalityType DEF Clients
<1>2. PICK T : T = Lookup(p.targets, h, {})
  OBVIOUS
<1>3. IsFiniteSet(Reached(L, h, Len(L)))
  BY HistoriesAreFinite
<1>4. T \in SUBSET Reached(L, h, Len(L))
  BY <1>2 DEF Lookup, TablesAreSeen
<1>5. IsFiniteSet(T) /\ Cardinality(T) <= Cardinality(Reached(L, h, Len(L)))
  BY <1>3, <1>4, FS_Subset
<1>6. QED BY <1>1, <1>2, <1>3, <1>5, FS_CardinalityType

\* A role that exempts is one the history earns, or one the host had.
LEMMA RoleOfIs ==
  ASSUME NEW p, NEW L, Len(L) \in Nat, TablesAreSeen(p, L), NEW h,
         RoleOf(p, h) \in Exempting
  PROVE  EarnedBy(L, h, Len(L)) \/ Role(p, h) = RoleOf(p, h)
<1> DEFINE c(port) == Clients(p, h, port)
           big(port) == Cardinality(ClientsOf(L, h, port, Len(L)))
<1>1. \A port : c(port) \in Nat /\ c(port) <= big(port) /\ big(port) \in Nat
  BY CountsAreSeen
<1>2. PICK a \in Nat, A \in Nat :
        /\ a = Cardinality(Lookup(p.targets, h, {}))
        /\ A = Cardinality(Reached(L, h, Len(L))) /\ a <= A
  BY CountsAreSeen
<1>3. RoleNeeds.admin \in Nat /\ RoleNeeds.dc \in Nat /\ RoleNeeds.smb \in Nat
  BY RoleNeedsAssumption
<1>4. CASE c(88) >= RoleNeeds.dc \/ c(389) >= RoleNeeds.dc \/ c(445) >= RoleNeeds.smb
  <2>1. big(88) >= RoleNeeds.dc \/ big(389) >= RoleNeeds.dc \/ big(445) >= RoleNeeds.smb
    <3> HIDE DEF c, big
    <3> QED BY <1>1, <1>3, <1>4
  <2>2. QED BY <2>1 DEF EarnedBy
<1>5. CASE a >= RoleNeeds.admin
  <2>1. A >= RoleNeeds.admin
    BY <1>2, <1>3, <1>5
  <2>2. QED BY <1>2, <2>1 DEF EarnedBy
<1>6. CASE /\ ~(c(88) >= RoleNeeds.dc \/ c(389) >= RoleNeeds.dc \/ c(445) >= RoleNeeds.smb)
           /\ ~(a >= RoleNeeds.admin)
  <2>1. /\ ~(Clients(p, h, 88) >= RoleNeeds.dc) /\ ~(Clients(p, h, 389) >= RoleNeeds.dc)
        /\ ~(Clients(p, h, 445) >= RoleNeeds.smb)
        /\ ~(Cardinality(Lookup(p.targets, h, {})) >= RoleNeeds.admin)
    BY <1>2, <1>6
  <2>2. "INFRASTRUCTURE_DNS" \notin Exempting /\ "INTERNAL_SERVER" \notin Exempting
    BY DEF Exempting
  <2>3. RoleOf(p, h) \in {"INFRASTRUCTURE_DNS", "INTERNAL_SERVER", Role(p, h)}
    BY <2>1 DEF RoleOf
  <2>4. QED BY <2>2, <2>3
<1>7. QED BY <1>4, <1>5, <1>6

\* What evaluating a host does.
LEMMA EvaluatedIs ==
  ASSUME NEW p, IsProfile(p), NEW L, Len(L) \in Nat, TablesAreSeen(p, L),
         RolesAreEarned(p, L), NEW h
  PROVE  /\ IsProfile(Evaluated(p, h)) /\ TablesAreSeen(Evaluated(p, h), L)
         /\ RolesAreEarned(Evaluated(p, h), L)
<1>1. CASE h \in Internal
  <2>1. PICK r : r = RoleOf(p, h)
    OBVIOUS
  <2>2. PICK roles2 : roles2 = Put(p.roles, h, r)
    OBVIOUS
  <2>3. PICK e : e = Evaluated(p, h)
    OBVIOUS
  <2>4. e = [p EXCEPT !.roles = roles2]
    BY <1>1, <2>1, <2>2, <2>3 DEF Evaluated
  <2>5. e = [inbound |-> p.inbound, targets |-> p.targets, roles |-> roles2,
             acc |-> p.acc]
    BY <2>4 DEF IsProfile
  <2>6. IsProfile(e) /\ TablesAreSeen(e, L)
    BY <2>5 DEF IsProfile, TablesAreSeen
  <2>7. r \in Exempting => EarnedBy(L, h, Len(L))
    <3>1. SUFFICES ASSUME r \in Exempting, Role(p, h) = r PROVE EarnedBy(L, h, Len(L))
      BY <2>1, RoleOfIs, Zenon
    <3>2. "WORKSTATION" \notin Exempting
      BY DEF Exempting
    <3>3. QED BY <3>1, <3>2 DEF Role, Lookup, RolesAreEarned
  <2>8. RolesAreEarned(e, L)
    <3>1. SUFFICES ASSUME NEW g \in DOMAIN roles2, roles2[g] \in Exempting
                   PROVE  EarnedBy(L, g, Len(L))
      BY <2>5 DEF RolesAreEarned
    <3>2. CASE g = h
      <4>1. roles2[h] = r
        BY <2>2 DEF Put
      <4>2. QED BY <2>7, <3>1, <3>2, <4>1
    <3>3. CASE g # h
      <4>1. g \in DOMAIN p.roles /\ roles2[g] = p.roles[g]
        <5>1. /\ DOMAIN roles2 = DOMAIN p.roles \union {h}
              /\ \A y \in DOMAIN p.roles : y # h => roles2[y] = p.roles[y]
          BY <2>2 DEF Put
        <5>2. QED BY <3>1, <3>3, <5>1
      <4>2. QED BY <3>1, <4>1 DEF RolesAreEarned
    <3>4. QED BY <3>2, <3>3
  <2>9. QED BY <2>3, <2>6, <2>8
<1>2. CASE h \notin Internal
  BY <1>2 DEF Evaluated
<1>3. QED BY <1>1, <1>2

\* What a flow tells the profile.
LEMMA ProfiledIs ==
  ASSUME NEW M, NEW L, NEW e, Continues(M, L, e), NEW p, IsProfile(p),
         TablesAreSeen(p, L), RolesAreEarned(p, L)
  PROVE  /\ IsProfile(Profiled(p, e.flow)) /\ TablesAreSeen(Profiled(p, e.flow), M)
         /\ RolesAreEarned(Profiled(p, e.flow), M)
<1>1. PICK f : f = e.flow
  OBVIOUS
<1>2. PICK l \in Nat, m \in Nat : l = Len(L) /\ m = Len(M) /\ m = l + 1
  BY DEF Continues
<1>3. M[m].flow = f /\ m \in 1..m
  BY <1>1, <1>2 DEF Continues
<1>4. PICK in2 : in2 = IF f.dst \in Internal
                       THEN Put(p.inbound, <<f.dst, f.dport>>,
                                Lookup(p.inbound, <<f.dst, f.dport>>, {}) \cup {f.src})
                       ELSE p.inbound
  OBVIOUS
<1>5. PICK to2 : to2 = IF {f.src, f.dst} \subseteq Internal /\ f.dport \in ManagementPorts
                       THEN Put(p.targets, f.src, Lookup(p.targets, f.src, {}) \cup {f.dst})
                       ELSE p.targets
  OBVIOUS
<1>6. PICK q : q = [inbound |-> in2, targets |-> to2, roles |-> p.roles, acc |-> p.acc]
  OBVIOUS
<1>7. Observed(p, f) = Evaluated(Evaluated(q, f.dst), f.src)
  <2>1. q = [p EXCEPT !.inbound = in2, !.targets = to2]
    <3>1. PICK a, b, c, d : p = [inbound |-> a, targets |-> b, roles |-> c, acc |-> d]
      BY DEF IsProfile
    <3>2. q = [inbound |-> in2, targets |-> to2, roles |-> c, acc |-> d]
      BY <1>6, <3>1
    <3>3. PICK r : r = [p EXCEPT !.inbound = in2]
      OBVIOUS
    <3>4. r = [inbound |-> in2, targets |-> b, roles |-> c, acc |-> d]
      BY <3>1, <3>3
    <3>5. [r EXCEPT !.targets = to2] = [inbound |-> in2, targets |-> to2, roles |-> c,
                                        acc |-> d]
      BY <3>4
    <3>6. QED BY <3>2, <3>3, <3>5
  <2>2. q = [p EXCEPT
              !.inbound = IF f.dst \in Internal
                          THEN Put(@, <<f.dst, f.dport>>,
                                   Lookup(@, <<f.dst, f.dport>>, {}) \cup {f.src})
                          ELSE @,
              !.targets = IF {f.src, f.dst} \subseteq Internal
                             /\ f.dport \in ManagementPorts
                          THEN Put(@, f.src, Lookup(@, f.src, {}) \cup {f.dst})
                          ELSE @]
    BY <1>4, <1>5, <2>1
  <2>3. QED BY <2>2 DEF Observed
<1>8. \A key \in DOMAIN in2 : in2[key] \subseteq ClientsOf(M, key[1], key[2], m)
  <2>1. SUFFICES ASSUME NEW key \in DOMAIN in2, NEW s \in in2[key]
                 PROVE  s \in ClientsOf(M, key[1], key[2], m)
    OBVIOUS
  <2>2. ClientsOf(L, key[1], key[2], l) \subseteq ClientsOf(M, key[1], key[2], m)
    BY <1>2, HistoriesGrow
  <2>3. CASE key \in DOMAIN p.inbound /\ s \in p.inbound[key]
    BY <1>2, <2>2, <2>3 DEF TablesAreSeen
  <2>4. CASE key = <<f.dst, f.dport>> /\ s = f.src
    BY <1>3, <2>4 DEF ClientsOf
  <2>5. (key \in DOMAIN p.inbound /\ s \in p.inbound[key])
          \/ (key = <<f.dst, f.dport>> /\ s = f.src)
    BY <1>4, <2>1 DEF Put, Lookup
  <2>6. QED BY <2>3, <2>4, <2>5
<1>9. \A h \in DOMAIN to2 : to2[h] \subseteq Reached(M, h, m)
  <2>1. SUFFICES ASSUME NEW h \in DOMAIN to2, NEW d \in to2[h]
                 PROVE  d \in Reached(M, h, m)
    OBVIOUS
  <2>2. Reached(L, h, l) \subseteq Reached(M, h, m)
    BY <1>2, HistoriesGrow
  <2>3. CASE h \in DOMAIN p.targets /\ d \in p.targets[h]
    BY <1>2, <2>2, <2>3 DEF TablesAreSeen
  <2>4. CASE h = f.src /\ d = f.dst /\ {f.src, f.dst} \subseteq Internal
             /\ f.dport \in ManagementPorts
    BY <1>3, <2>4 DEF Reached
  <2>5. \/ h \in DOMAIN p.targets /\ d \in p.targets[h]
        \/ /\ h = f.src /\ d = f.dst /\ {f.src, f.dst} \subseteq Internal
           /\ f.dport \in ManagementPorts
    BY <1>5, <2>1 DEF Put, Lookup
  <2>6. QED BY <2>3, <2>4, <2>5
<1>10. IsProfile(q) /\ TablesAreSeen(q, M)
  BY <1>2, <1>6, <1>8, <1>9 DEF IsProfile, TablesAreSeen
<1>11. RolesAreEarned(q, M)
  <2>1. SUFFICES ASSUME NEW h \in DOMAIN p.roles, p.roles[h] \in Exempting
                 PROVE  EarnedBy(M, h, Len(M))
    BY <1>6 DEF RolesAreEarned
  <2>2. EarnedBy(L, h, Len(L))
    BY <2>1 DEF RolesAreEarned
  <2>3. QED BY <2>2, EarningsLast
<1>12. PICK q1 : q1 = Evaluated(q, f.dst)
  OBVIOUS
<1>13. IsProfile(q1) /\ TablesAreSeen(q1, M) /\ RolesAreEarned(q1, M)
  BY <1>2, <1>10, <1>11, <1>12, EvaluatedIs
<1>14. PICK q2 : q2 = Observed(p, f)
  OBVIOUS
<1>15. IsProfile(q2) /\ TablesAreSeen(q2, M) /\ RolesAreEarned(q2, M)
  BY <1>2, <1>7, <1>12, <1>13, <1>14, EvaluatedIs
<1>16. PICK acc2 : acc2 = Put(q2.acc, f.src, Sampled(Samples(q2, f.src), f.bytes))
  OBVIOUS
<1>17. Profiled(p, f) = [q2 EXCEPT !.acc = acc2]
  BY <1>14, <1>16 DEF Profiled
<1>18. Profiled(p, f) = [inbound |-> q2.inbound, targets |-> q2.targets,
                         roles |-> q2.roles, acc |-> acc2]
  BY <1>15, <1>17 DEF IsProfile
<1>19. QED BY <1>1, <1>15, <1>18 DEF IsProfile, TablesAreSeen, RolesAreEarned

\* The invariant: what the profile holds is what the flows showed, and every
\* exemption so far was earned by the flows before it.
ExemptionsAreEarned(L) ==
  \A i \in 1..Len(L) :
    L[i].exempt /\ L[i].flow.src \notin Trusted => EarnedBy(L, L[i].flow.src, i)

ProfileInv ==
  /\ IsSequence(analysed) /\ IsProfile(profile)
  /\ TablesAreSeen(profile, analysed) /\ RolesAreEarned(profile, analysed)
  /\ ExemptionsAreEarned(analysed)

\* What a flow leaves behind in the history.
LEMMA AnalyzeIs ==
  ASSUME NEW f, NEW gap, Analyze(f, gap), IsSequence(analysed)
  PROVE  \E e : /\ Continues(analysed', analysed, e) /\ e.flow = f
                /\ e.exempt = IsExempt(f, profile') /\ e.ts = (wallClock + gap) - f.late
                /\ e.forgot = DOMAIN sessions \ DOMAIN Pruned(sessions, e.ts)
<1>1. PICK at : at = wallClock + gap
  OBVIOUS
<1>2. PICK e : e = Judgement(f, at)
  OBVIOUS
<1>3. analysed' = Append(analysed, e)
  BY <1>2, <1>1 DEF Analyze
<1>4. e.flow = f /\ e.exempt = IsExempt(f, profile')
  BY <1>2 DEF Judgement
<1>5. /\ e.ts = at - f.late
      /\ e.forgot = DOMAIN sessions \ DOMAIN Pruned(sessions, at - f.late)
  BY <1>2, Zenon DEF Judgement
<1>6. Continues(analysed', analysed, e)
  BY <1>3, AppendContinues
<1>7. e.forgot = DOMAIN sessions \ DOMAIN Pruned(sessions, e.ts)
  BY <1>5, Zenon
<1>8. e.ts = (wallClock + gap) - f.late
  BY <1>5, <1>1, Zenon
<1>9. QED BY <1>4, <1>6, <1>7, <1>8

LEMMA ProfileStep == ProfileInv /\ [FlowNext]_flowVars => ProfileInv'
<1> SUFFICES ASSUME ProfileInv, [FlowNext]_flowVars PROVE ProfileInv'
  OBVIOUS
<1>1. ASSUME NEW f, NEW gap, Analyze(f, gap) PROVE ProfileInv'
  <2>1. PICK e : /\ Continues(analysed', analysed, e) /\ e.flow = f
                 /\ e.exempt = IsExempt(f, profile')
    BY <1>1, AnalyzeIs DEF ProfileInv
  <2>2. profile' = Profiled(profile, f)
    BY <1>1 DEF Analyze
  <2>3. /\ IsProfile(profile') /\ TablesAreSeen(profile', analysed')
        /\ RolesAreEarned(profile', analysed')
    BY <2>1, <2>2, ProfiledIs DEF ProfileInv
  <2>4. IsSequence(analysed')
    <3>1. PICK g : analysed' = Append(analysed, g)
      BY <1>1 DEF Analyze
    <3>2. QED BY <3>1, SequenceGrows DEF ProfileInv
  <2>5. ExemptionsAreEarned(analysed')
    <3>1. PICK l \in Nat : l = Len(analysed) /\ Len(analysed') = l + 1
      BY <2>1 DEF Continues
    <3>2. /\ analysed'[l + 1] = e
          /\ \A i \in 1..l : analysed'[i] = analysed[i]
      BY <2>1, <3>1 DEF Continues
    <3>3. SUFFICES ASSUME NEW i \in 1..l + 1, analysed'[i].exempt,
                          analysed'[i].flow.src \notin Trusted
                   PROVE  EarnedBy(analysed', analysed'[i].flow.src, i)
      BY <3>1 DEF ExemptionsAreEarned
    <3>4. CASE i = l + 1
      <4>1. IsExempt(f, profile') /\ f.src \notin Trusted
        BY <2>1, <3>2, <3>3, <3>4
      <4>2. Role(profile', f.src) \in Exempting
        BY <4>1 DEF IsExempt, Exempting
      <4>3. f.src \in DOMAIN profile'.roles /\ profile'.roles[f.src] \in Exempting
        BY <4>2 DEF Role, Lookup, Exempting
      <4>4. EarnedBy(analysed', f.src, Len(analysed'))
        BY <2>3, <4>3 DEF RolesAreEarned
      <4>5. QED BY <2>1, <3>1, <3>2, <3>4, <4>4
    <3>5. CASE i \in 1..l
      <4>1. PICK s : s = analysed[i].flow.src
        OBVIOUS
      <4>2. EarnedBy(analysed, s, i)
        BY <3>1, <3>2, <3>3, <3>5, <4>1 DEF ProfileInv, ExemptionsAreEarned
      <4>3. EarnedBy(analysed', s, i)
        BY <2>1, <3>1, <3>5, <4>2, EarningsLast
      <4>4. QED BY <3>2, <3>5, <4>1, <4>3
    <3>6. QED BY <3>4, <3>5
  <2>6. QED BY <2>3, <2>4, <2>5 DEF ProfileInv
<1>2. ASSUME NEW rule, LoadRule(rule) PROVE ProfileInv'
  BY <1>2 DEF LoadRule, ProfileInv
<1>3. CASE UNCHANGED flowVars
  BY <1>3 DEF flowVars, ProfileInv
<1>4. QED BY <1>1, <1>2, <1>3 DEF FlowNext

LEMMA InitialProfile == FlowInit => ProfileInv
<1> SUFFICES ASSUME FlowInit PROVE ProfileInv
  OBVIOUS
<1>1. analysed = <<>> /\ profile = NoProfile
  BY DEF FlowInit
<1>2. IsSequence(<<>>) /\ Len(<<>>) = 0
  <2>1. <<>> \in Seq({}) /\ Len(<<>>) = 0
    OBVIOUS
  <2>2. QED BY <2>1, SequenceIs
<1>3. QED BY <1>1, <1>2 DEF ProfileInv, NoProfile, IsProfile, TablesAreSeen,
                            RolesAreEarned, ExemptionsAreEarned

LEMMA ExemptionsOfTheInvariant == ProfileInv => ExemptionIsEarned
<1> SUFFICES ASSUME ProfileInv, NEW i \in 1..Len(analysed), analysed[i].exempt,
                    analysed[i].flow.src \notin Trusted
             PROVE  EarnedBy(analysed, analysed[i].flow.src, i)
  BY DEF ExemptionIsEarned, latest, EarnedBy, Reached, ClientsOf
<1>1. QED BY DEF ProfileInv, ExemptionsAreEarned

\* Whatever the flows and their order, no source is exempt by accident.
THEOREM ExemptionAlwaysEarned == FlowSpec => []ExemptionIsEarned
<1>1. QED BY InitialProfile, ProfileStep, ExemptionsOfTheInvariant, PTL DEF FlowSpec

-----------------------------------------------------------------------------
(* Flows: the two sides of a session *)

\* The flows of L, of its first n, of a conversation since its session was
\* last forgotten, and those one end sent.
LiveUpTo(L, n, k) ==
  {i \in 1..n : Key(L[i].flow) = k /\ \A j \in i + 1..n : k \notin L[j].forgot}
FlowsOf(L, k) == LiveUpTo(L, Len(L), k)
FlowsFrom(L, k, end) ==
  {i \in FlowsOf(L, k) : <<L[i].flow.src, L[i].flow.sport>> = end}

BytesOf(L, is) == [i \in is |-> L[i].flow.bytes]
Carried(L, is) == SumFunction(BytesOf(L, is))
Inside(is, L) == is \subseteq 1..Len(L)
BytesAreCounted(L) == \A i \in 1..Len(L) : L[i].flow.bytes \in Nat
TimesAreWhole(L) == \A i \in 1..Len(L) : L[i].ts \in Int

IsSession(s) ==
  s = [client |-> s.client, server |-> s.server, sent |-> s.sent,
       received |-> s.received, clientFlags |-> s.clientFlags,
       serverFlags |-> s.serverFlags, first |-> s.first, last |-> s.last,
       status |-> s.status]

\* What the session of a conversation says of the history, its status, and the
\* time it was last heard of.
CountsSides(s, k, L) ==
  /\ IsSession(s) /\ s.sent \in Nat /\ s.received \in Nat
  /\ {s.client, s.server} = k[1]
  /\ s.sent <= Carried(L, FlowsFrom(L, k, s.client))
  /\ s.received <= Carried(L, FlowsFrom(L, k, s.server))
  /\ s.client # s.server =>
       /\ s.sent = Carried(L, FlowsFrom(L, k, s.client))
       /\ s.received = Carried(L, FlowsFrom(L, k, s.server))
  /\ s.serverFlags # {} => FlowsFrom(L, k, s.server) # {}
  /\ \A x \in s.clientFlags \union s.serverFlags :
       \E i \in FlowsOf(L, k) : x \in L[i].flow.flags
StatusIsShown(s, k, L) ==
  /\ s.status = "ESTABLISHED" => FlowsFrom(L, k, s.server) # {}
  /\ s.status = "RESET" => \E i \in FlowsOf(L, k) : "RST" \in L[i].flow.flags

KeepsLast(s, k, L) == s.last \in Int /\ \A i \in FlowsOf(L, k) : L[i].ts <= s.last

KeepsSides(s, k, L) ==
  CountsSides(s, k, L) /\ StatusIsShown(s, k, L) /\ KeepsLast(s, k, L)

\* Whoever was heard of and not forgotten is in the table; and the last flow
\* made the table forget nobody but the idle.
MissesNothing(table, L) == \A k : FlowsOf(L, k) # {} => k \in DOMAIN table
IdleOnly(L) ==
  Len(L) > 0 =>
    \A k \in L[Len(L)].forgot : \A i \in LiveUpTo(L, Len(L) - 1, k) :
      L[Len(L)].ts - L[i].ts > SessionTimeout

LEMMA CarriedIs ==
  ASSUME NEW L, Len(L) \in Nat, BytesAreCounted(L), NEW is, Inside(is, L)
  PROVE  IsFiniteSet(is) /\ BytesOf(L, is) \in [is -> Nat] /\ Carried(L, is) \in Nat
<1>1. IsFiniteSet(1..Len(L))
  BY 1 \in Int, Len(L) \in Int, FS_Interval
<1>2. is \in SUBSET (1..Len(L)) /\ IsFiniteSet(is)
  BY <1>1, FS_Subset DEF Inside
<1>3. BytesOf(L, is) \in [is -> Nat]
  BY <1>2 DEF BytesOf, BytesAreCounted
<1>4. QED BY <1>2, <1>3, SumIsNatural DEF Carried

LEMMA NothingIsCarried ==
  ASSUME NEW L PROVE Carried(L, {}) = 0
<1>1. IsFiniteSet({}) /\ BytesOf(L, {}) \in [{} -> Nat]
      /\ \A x \in {} : BytesOf(L, {})[x] = 0
  BY FS_EmptySet DEF BytesOf
<1>2. QED BY <1>1, SumOfZeros DEF Carried

\* One flow more: it may make the table forget a conversation, and join one.
LEMMA LiveIs ==
  ASSUME NEW M, NEW L, NEW e, Continues(M, L, e), NEW k
  PROVE  /\ FlowsOf(L, k) \subseteq 1..Len(L)
         /\ FlowsOf(L, k) = LiveUpTo(M, Len(M) - 1, k)
         /\ \A i : i \in FlowsOf(M, k) <=>
              \/ i \in FlowsOf(L, k) /\ k \notin e.forgot
              \/ i = Len(L) + 1 /\ Key(e.flow) = k
<1>1. PICK l \in Nat : l = Len(L) /\ Len(M) = l + 1
  BY DEF Continues
<1>2. M[l + 1] = e /\ \A i \in 1..l : M[i] = L[i]
  BY <1>1 DEF Continues
<1>3. FlowsOf(L, k) \subseteq 1..l
  BY <1>1 DEF FlowsOf, LiveUpTo
<1>4. FlowsOf(L, k) = LiveUpTo(M, l, k)
  <2>1. ASSUME NEW i \in 1..l
        PROVE  /\ M[i] = L[i]
               /\ (\A j \in i + 1..l : k \notin L[j].forgot)
                    <=> (\A j \in i + 1..l : k \notin M[j].forgot)
    <3>1. \A j \in i + 1..l : j \in 1..l
      BY <2>1
    <3>2. QED BY <1>2, <2>1, <3>1
  <2>2. QED BY <1>1, <2>1 DEF FlowsOf, LiveUpTo
<1>5. ASSUME NEW i \in 1..l
      PROVE  i \in FlowsOf(M, k) <=> i \in FlowsOf(L, k) /\ k \notin e.forgot
  <2>1. /\ \A j \in i + 1..l + 1 : j \in i + 1..l \/ j = l + 1
        /\ \A j \in i + 1..l : j \in i + 1..l + 1
        /\ l + 1 \in i + 1..l + 1
    BY <1>5
  <2>2. (\A j \in i + 1..l + 1 : k \notin M[j].forgot)
          <=> (\A j \in i + 1..l : k \notin M[j].forgot) /\ k \notin e.forgot
    BY <1>2, <2>1
  <2>3. i \in 1..l + 1
    BY <1>5
  <2>4. i \in FlowsOf(M, k) <=> i \in LiveUpTo(M, l, k) /\ k \notin e.forgot
    BY <1>1, <1>5, <2>2, <2>3 DEF FlowsOf, LiveUpTo
  <2>5. QED BY <1>4, <2>4
<1>6. l + 1 \in FlowsOf(M, k) <=> Key(e.flow) = k
  <2>1. l + 1 \in 1..l + 1 /\ ~(\E j : j \in l + 1 + 1..l + 1)
    OBVIOUS
  <2>2. QED BY <1>1, <1>2, <2>1 DEF FlowsOf, LiveUpTo
<1>7. \A i : i \in FlowsOf(M, k) => i \in 1..l \/ i = l + 1
  <2>1. FlowsOf(M, k) \subseteq 1..l + 1
    BY <1>1 DEF FlowsOf, LiveUpTo
  <2>2. QED BY <2>1
<1>8. \A i : i \in FlowsOf(M, k) <=>
        \/ i \in FlowsOf(L, k) /\ k \notin e.forgot
        \/ i = l + 1 /\ Key(e.flow) = k
  BY <1>3, <1>5, <1>6, <1>7
<1>9. LiveUpTo(M, Len(M) - 1, k) = LiveUpTo(M, l, k)
  BY <1>1
<1>10. QED BY <1>1, <1>3, <1>4, <1>8, <1>9

\* One flow more: what a conversation that is not forgotten carried.
LEMMA FlowsGrow ==
  ASSUME NEW M, NEW L, NEW e, Continues(M, L, e), BytesAreCounted(L),
         e.flow.bytes \in Nat, NEW k, k \notin e.forgot, NEW end
  PROVE  /\ FlowsOf(M, k) = IF Key(e.flow) = k
                            THEN FlowsOf(L, k) \union {Len(L) + 1} ELSE FlowsOf(L, k)
         /\ FlowsFrom(M, k, end) =
              IF Key(e.flow) = k /\ <<e.flow.src, e.flow.sport>> = end
              THEN FlowsFrom(L, k, end) \union {Len(L) + 1} ELSE FlowsFrom(L, k, end)
<1>1. PICK l \in Nat : l = Len(L) /\ Len(M) = l + 1
  BY DEF Continues
<1>2. M[l + 1] = e /\ \A i \in 1..l : M[i] = L[i]
  BY <1>1 DEF Continues
<1>3. \A i : i \in FlowsOf(M, k) <=>
        i \in FlowsOf(L, k) \/ (i = l + 1 /\ Key(e.flow) = k)
  BY <1>1, LiveIs
<1>4. FlowsOf(L, k) \subseteq 1..l
  BY <1>1, LiveIs
<1>5. \A i : i \in FlowsFrom(M, k, end) <=>
        \/ i \in FlowsFrom(L, k, end)
        \/ i = l + 1 /\ Key(e.flow) = k /\ <<e.flow.src, e.flow.sport>> = end
  BY <1>2, <1>3, <1>4 DEF FlowsFrom
<1>6. QED BY <1>1, <1>3, <1>5

LEMMA CountsStay ==
  ASSUME NEW M, NEW L, NEW e, Continues(M, L, e), BytesAreCounted(L), TimesAreWhole(L),
         e.flow.bytes \in Nat, e.ts \in Int
  PROVE  BytesAreCounted(M) /\ TimesAreWhole(M)
<1>1. PICK l \in Nat : l = Len(L) /\ Len(M) = l + 1
  BY DEF Continues
<1>2. M[l + 1] = e /\ \A i \in 1..l : M[i] = L[i]
  BY <1>1 DEF Continues
<1>3. \A i \in 1..l + 1 : i \in 1..l \/ i = l + 1
  OBVIOUS
<1>4. QED BY <1>1, <1>2, <1>3 DEF BytesAreCounted, TimesAreWhole

LEMMA OneMoreIs ==
  ASSUME NEW is, NEW y, IsFiniteSet(is), y \notin is, NEW b, b \in [is -> Nat],
         NEW c, c \in [is \union {y} -> Nat], \A i \in is : c[i] = b[i]
  PROVE  SumFunction(c) = SumFunction(b) + c[y]
<1>1. QED BY SumOfOneMore

LEMMA CarriedGrows ==
  ASSUME NEW M, NEW L, NEW e, Continues(M, L, e), BytesAreCounted(L),
         e.flow.bytes \in Nat, NEW is, Inside(is, L)
  PROVE  /\ Carried(M, is) = Carried(L, is)
         /\ Carried(M, is \union {Len(L) + 1}) = Carried(L, is) + e.flow.bytes
<1>1. PICK l \in Nat : l = Len(L) /\ Len(M) = l + 1
  BY DEF Continues
<1>2. M[l + 1] = e /\ \A i \in 1..l : M[i] = L[i]
  BY <1>1 DEF Continues
<1>3. is \subseteq 1..l /\ l + 1 \notin is
  BY <1>1 DEF Inside
<1>4. BytesOf(M, is) = BytesOf(L, is)
  BY <1>2, <1>3 DEF BytesOf
<1>5. IsFiniteSet(is) /\ BytesOf(L, is) \in [is -> Nat]
  BY <1>1, CarriedIs
<1>6. PICK js : js = is \union {l + 1}
  OBVIOUS
<1>7. BytesOf(M, js) \in [js -> Nat] /\ BytesOf(M, js)[l + 1] = e.flow.bytes
      /\ \A i \in is : BytesOf(M, js)[i] = BytesOf(L, is)[i]
  BY <1>1, <1>2, <1>3, <1>6 DEF BytesOf, BytesAreCounted
<1>8. SumFunction(BytesOf(M, js)) = SumFunction(BytesOf(L, is)) + BytesOf(M, js)[l + 1]
  <2>1. PICK b, c, y : b = BytesOf(L, is) /\ c = BytesOf(M, js) /\ y = l + 1
    OBVIOUS
  <2>2. /\ IsFiniteSet(is) /\ b \in [is -> Nat] /\ y \notin is
        /\ c \in [is \union {y} -> Nat] /\ \A i \in is : c[i] = b[i]
    BY <1>3, <1>5, <1>6, <1>7, <2>1
  <2>3. SumFunction(c) = SumFunction(b) + c[y]
    BY <2>2, OneMoreIs
  <2>4. QED BY <2>1, <2>3
<1>9. QED BY <1>1, <1>4, <1>6, <1>7, <1>8 DEF Carried

\* Sets of flows of L.
LEMMA FlowsAreInside ==
  ASSUME NEW L, NEW k, NEW end
  PROVE  Inside(FlowsOf(L, k), L) /\ Inside(FlowsFrom(L, k, end), L)
BY DEF FlowsOf, FlowsFrom, LiveUpTo, Inside

\* A session that the flow does not join.
LEMMA SidesStay ==
  ASSUME NEW M, NEW L, NEW e, Continues(M, L, e), BytesAreCounted(L),
         e.flow.bytes \in Nat, NEW k, k \notin e.forgot, Key(e.flow) # k,
         NEW s, KeepsSides(s, k, L)
  PROVE  KeepsSides(s, k, M)
<1>1. FlowsOf(M, k) = FlowsOf(L, k)
  BY FlowsGrow
<1>2. /\ FlowsFrom(M, k, s.client) = FlowsFrom(L, k, s.client)
      /\ FlowsFrom(M, k, s.server) = FlowsFrom(L, k, s.server)
  BY FlowsGrow
<1>3. /\ Carried(M, FlowsFrom(L, k, s.client)) = Carried(L, FlowsFrom(L, k, s.client))
      /\ Carried(M, FlowsFrom(L, k, s.server)) = Carried(L, FlowsFrom(L, k, s.server))
  <2>1. ASSUME NEW is, Inside(is, L)
        PROVE  /\ Carried(M, is) = Carried(L, is)
               /\ Carried(M, is \union {Len(L) + 1}) = Carried(L, is) + e.flow.bytes
    BY <2>1, CarriedGrows
  <2>2. QED BY <2>1, FlowsAreInside
<1>4. \A i \in FlowsOf(L, k) : M[i] = L[i]
  BY FlowsAreInside DEF Inside, Continues
<1>5. CountsSides(s, k, M)
  BY <1>1, <1>2, <1>3, <1>4 DEF KeepsSides, CountsSides
<1>6. StatusIsShown(s, k, M) /\ KeepsLast(s, k, M)
  BY <1>1, <1>2, <1>4 DEF KeepsSides, StatusIsShown, KeepsLast
<1>7. QED BY <1>5, <1>6 DEF KeepsSides

\* A conversation that one flow joins.
LEMMA ConversationGrows ==
  ASSUME NEW M, NEW L, NEW e, Continues(M, L, e), BytesAreCounted(L),
         e.flow.bytes \in Nat, NEW k, k \notin e.forgot, Key(e.flow) = k, NEW end
  PROVE  /\ Carried(L, FlowsFrom(L, k, end)) \in Nat
         /\ Carried(M, FlowsFrom(M, k, end)) =
              IF <<e.flow.src, e.flow.sport>> = end
              THEN Carried(L, FlowsFrom(L, k, end)) + e.flow.bytes
              ELSE Carried(L, FlowsFrom(L, k, end))
         /\ FlowsFrom(L, k, end) \subseteq FlowsFrom(M, k, end)
         /\ <<e.flow.src, e.flow.sport>> = end => FlowsFrom(M, k, end) # {}
         /\ \A x : (\E i \in FlowsOf(L, k) : x \in L[i].flow.flags) \/ x \in e.flow.flags
                   => \E i \in FlowsOf(M, k) : x \in M[i].flow.flags
<1>1. PICK of, from : of = FlowsOf(L, k) /\ from = FlowsFrom(L, k, end)
  OBVIOUS
<1>2. PICK l \in Nat : l = Len(L)
  BY DEF Continues
<1>3. Inside(of, L) /\ Inside(from, L)
  BY <1>1, FlowsAreInside
<1>4. \A is : Inside(is, L) => Carried(L, is) \in Nat
  BY <1>2, CarriedIs
<1>5. ASSUME NEW is, Inside(is, L)
      PROVE  /\ Carried(M, is) = Carried(L, is)
             /\ Carried(M, is \union {Len(L) + 1}) = Carried(L, is) + e.flow.bytes
  BY <1>5, CarriedGrows
<1>6. FlowsOf(M, k) = of \union {l + 1}
  BY <1>1, <1>2, FlowsGrow
<1>7. FlowsFrom(M, k, end) = IF <<e.flow.src, e.flow.sport>> = end
                             THEN from \union {l + 1} ELSE from
  BY <1>1, <1>2, FlowsGrow
<1>8. M[l + 1] = e /\ \A i \in of : M[i] = L[i]
  BY <1>2, <1>3 DEF Continues, Inside
<1>9. \A x : (\E i \in of : x \in L[i].flow.flags) \/ x \in e.flow.flags
              => \E i \in FlowsOf(M, k) : x \in M[i].flow.flags
  BY <1>6, <1>8
<1>10. /\ Carried(L, from) \in Nat /\ Carried(M, from) = Carried(L, from)
       /\ Carried(M, from \union {l + 1}) = Carried(L, from) + e.flow.bytes
  BY <1>2, <1>3, <1>4, <1>5
<1>11. QED BY <1>1, <1>7, <1>9, <1>10

LEMMA JoinedKeepsSides ==
  ASSUME NEW M, NEW L, NEW e, Continues(M, L, e), BytesAreCounted(L),
         TimesAreWhole(L), e.flow.bytes \in Nat, NEW ts \in Int, ts = e.ts,
         NEW k, k \notin e.forgot, Key(e.flow) = k, NEW s, KeepsSides(s, k, L)
  PROVE  KeepsSides(Joined(s, e.flow, ts), k, M)
<1>1. PICK f : f = e.flow
  OBVIOUS
<1>2. PICK x, y : x = <<f.src, f.sport>> /\ y = <<f.dst, f.dport>>
  OBVIOUS
<1>3. k[1] = {x, y}
  BY <1>1, <1>2 DEF Key
<1>4. s.client = x \/ s.server = x
  BY <1>3 DEF KeepsSides, CountsSides
<1>5. PICK b \in Nat, c \in Nat, d \in Nat :
        b = f.bytes /\ c = s.sent /\ d = s.received
  BY <1>1 DEF KeepsSides, CountsSides
<1>6. PICK first2, last2 : /\ last2 = IF ts > s.last THEN ts ELSE s.last
                           /\ first2 = IF ts < s.first THEN ts ELSE s.first
  OBVIOUS
<1>7. PICK c2 \in Nat, d2 \in Nat : /\ c2 = IF s.client = x THEN c + b ELSE c
                                   /\ d2 = IF s.client = x THEN d ELSE d + b
  <2>1. c \in Nat /\ d \in Nat /\ c + b \in Nat /\ d + b \in Nat
    OBVIOUS
  <2>2. QED BY <2>1, Zenon
<1>8. PICK cf, sf : /\ cf = IF s.client = x THEN s.clientFlags \cup f.flags
                             ELSE s.clientFlags
                    /\ sf = IF s.client = x THEN s.serverFlags
                             ELSE s.serverFlags \cup f.flags
  OBVIOUS
<1>9. PICK n : n = [client |-> s.client, server |-> s.server, sent |-> c2,
                    received |-> d2, clientFlags |-> cf, serverFlags |-> sf,
                    first |-> first2, last |-> last2, status |-> s.status]
  OBVIOUS
<1>10. PICK h : h = Handshake(n, f.proto)
  OBVIOUS
<1>11. PICK j : j = [client |-> s.client, server |-> s.server, sent |-> c2,
                     received |-> d2, clientFlags |-> cf, serverFlags |-> sf,
                     first |-> first2, last |-> last2, status |-> h]
  OBVIOUS
<1>12. Joined(s, f, ts) = j
  <2>1. PICK a1, a2, a3, a4, a5, a6, a7, a8, a9 :
          s = [client |-> a1, server |-> a2, sent |-> a3, received |-> a4,
               clientFlags |-> a5, serverFlags |-> a6, first |-> a7, last |-> a8,
               status |-> a9]
    BY DEF KeepsSides, CountsSides, IsSession
  <2>2. n = [s EXCEPT !.last = IF ts > @ THEN ts ELSE @,
                      !.first = IF ts < @ THEN ts ELSE @,
                      !.sent = IF s.client = x THEN @ + f.bytes ELSE @,
                      !.received = IF s.client = x THEN @ ELSE @ + f.bytes,
                      !.clientFlags = IF s.client = x THEN @ \cup f.flags ELSE @,
                      !.serverFlags = IF s.client = x THEN @ ELSE @ \cup f.flags]
    <3>1. PICK r1 : r1 = [s EXCEPT !.last = last2]
      OBVIOUS
    <3>2. r1 = [client |-> a1, server |-> a2, sent |-> a3, received |-> a4,
                clientFlags |-> a5, serverFlags |-> a6, first |-> a7, last |-> last2,
                status |-> a9]
      BY <2>1, <3>1
    <3>3. PICK r2 : r2 = [r1 EXCEPT !.first = first2]
      OBVIOUS
    <3>4. r2 = [client |-> a1, server |-> a2, sent |-> a3, received |-> a4,
                clientFlags |-> a5, serverFlags |-> a6, first |-> first2,
                last |-> last2, status |-> a9]
      BY <3>2, <3>3
    <3>5. PICK r3 : r3 = [r2 EXCEPT !.sent = c2]
      OBVIOUS
    <3>6. r3 = [client |-> a1, server |-> a2, sent |-> c2, received |-> a4,
                clientFlags |-> a5, serverFlags |-> a6, first |-> first2,
                last |-> last2, status |-> a9]
      BY <3>4, <3>5
    <3>7. PICK r4 : r4 = [r3 EXCEPT !.received = d2]
      OBVIOUS
    <3>8. r4 = [client |-> a1, server |-> a2, sent |-> c2, received |-> d2,
                clientFlags |-> a5, serverFlags |-> a6, first |-> first2,
                last |-> last2, status |-> a9]
      BY <3>6, <3>7
    <3>9. PICK r5 : r5 = [r4 EXCEPT !.clientFlags = cf]
      OBVIOUS
    <3>10. r5 = [client |-> a1, server |-> a2, sent |-> c2, received |-> d2,
                 clientFlags |-> cf, serverFlags |-> a6, first |-> first2,
                 last |-> last2, status |-> a9]
      BY <3>8, <3>9
    <3>11. [r5 EXCEPT !.serverFlags = sf] = n
      <4>1. n = [client |-> a1, server |-> a2, sent |-> c2, received |-> d2,
                 clientFlags |-> cf, serverFlags |-> sf, first |-> first2,
                 last |-> last2, status |-> a9]
        BY <1>9, <2>1
      <4>2. QED BY <3>10, <4>1
    <3>12. n = [s EXCEPT !.last = last2, !.first = first2, !.sent = c2,
                         !.received = d2, !.clientFlags = cf, !.serverFlags = sf]
      BY <3>1, <3>3, <3>5, <3>7, <3>9, <3>11
    <3>13. QED BY <1>5, <1>6, <1>7, <1>8, <3>12
  <2>3. [n EXCEPT !.status = Handshake(n, f.proto)] = j
    BY <1>9, <1>10, <1>11
  <2>4. QED BY <1>2, <2>2, <2>3 DEF Joined
<1>13. CountsSides(j, k, M)
  <2>1. IsSession(j) /\ j.sent \in Nat /\ j.received \in Nat /\ {j.client, j.server} = k[1]
    BY <1>7, <1>11 DEF IsSession, KeepsSides, CountsSides
  <2>2. PICK u \in Nat, v \in Nat :
          /\ u = Carried(L, FlowsFrom(L, k, s.client))
          /\ v = Carried(L, FlowsFrom(L, k, s.server))
    BY ConversationGrows
  <2>3. c <= u /\ d <= v
    BY <1>5, <2>2 DEF KeepsSides, CountsSides
  <2>4. /\ Carried(M, FlowsFrom(M, k, s.client)) = IF x = s.client THEN u + b ELSE u
        /\ Carried(M, FlowsFrom(M, k, s.server)) = IF x = s.server THEN v + b ELSE v
    BY <1>1, <1>2, <1>5, <2>2, ConversationGrows
  <2>5. /\ c2 <= Carried(M, FlowsFrom(M, k, s.client))
        /\ d2 <= Carried(M, FlowsFrom(M, k, s.server))
    BY <1>4, <1>7, <2>3, <2>4
  <2>6. s.client # s.server => /\ c2 = Carried(M, FlowsFrom(M, k, s.client))
                               /\ d2 = Carried(M, FlowsFrom(M, k, s.server))
    <3>1. s.client # s.server => c = u /\ d = v
      BY <1>5, <2>2 DEF KeepsSides, CountsSides
    <3>2. QED BY <1>4, <1>7, <2>4, <3>1
  <2>7. sf # {} => FlowsFrom(M, k, s.server) # {}
    <3>1. FlowsFrom(L, k, s.server) \subseteq FlowsFrom(M, k, s.server)
          /\ (x = s.server => FlowsFrom(M, k, s.server) # {})
      BY <1>1, <1>2, ConversationGrows
    <3>2. s.serverFlags # {} => FlowsFrom(L, k, s.server) # {}
      BY DEF KeepsSides, CountsSides
    <3>3. QED BY <1>4, <1>8, <3>1, <3>2
  <2>8. ASSUME NEW z \in cf \union sf PROVE \E i \in FlowsOf(M, k) : z \in M[i].flow.flags
    <3>1. z \in s.clientFlags \union s.serverFlags \/ z \in e.flow.flags
      BY <1>1, <1>8
    <3>2. (\E i \in FlowsOf(L, k) : z \in L[i].flow.flags) \/ z \in e.flow.flags
      BY <3>1 DEF KeepsSides, CountsSides
    <3>3. QED BY <3>2, ConversationGrows
  <2>9. j.sent = c2 /\ j.received = d2 /\ j.client = s.client /\ j.server = s.server
        /\ j.clientFlags = cf /\ j.serverFlags = sf
    BY <1>11
  <2>10. QED BY <2>1, <2>5, <2>7, <2>8, <2>9, <2>6 DEF CountsSides
<1>14. StatusIsShown(j, k, M)
  <2>1. j.status = h /\ j.server = s.server /\ j.serverFlags = sf /\ j.received = d2
        /\ j.clientFlags = cf
    BY <1>11
  <2>2. h = s.status \/ (h = "RESET" /\ "RST" \in cf \union sf)
          \/ (h = "ESTABLISHED" /\ (sf # {} \/ d2 > 0))
    BY <1>9, <1>10 DEF Handshake
  <2>3. d2 > 0 => FlowsFrom(M, k, s.server) # {}
    <3>1. d2 <= Carried(M, FlowsFrom(M, k, s.server))
      BY <1>13, <2>1 DEF CountsSides
    <3>2. Carried(M, {}) = 0
      BY NothingIsCarried
    <3>3. QED BY <1>7, <3>1, <3>2
  <2>4. sf # {} => FlowsFrom(M, k, s.server) # {}
    BY <1>13, <2>1 DEF CountsSides
  <2>5. CASE h = s.status
    <3>1. h = "ESTABLISHED" => FlowsFrom(M, k, s.server) # {}
      <4>1. FlowsFrom(L, k, s.server) \subseteq FlowsFrom(M, k, s.server)
        BY ConversationGrows
      <4>2. QED BY <2>5, <4>1 DEF KeepsSides, StatusIsShown
    <3>2. h = "RESET" => \E i \in FlowsOf(M, k) : "RST" \in M[i].flow.flags
      <4>1. h = "RESET" => \E i \in FlowsOf(L, k) : "RST" \in L[i].flow.flags
        BY <2>5 DEF KeepsSides, StatusIsShown
      <4>2. QED BY <4>1, ConversationGrows
    <3>3. QED BY <2>1, <3>1, <3>2 DEF StatusIsShown
  <2>6. CASE h = "RESET" /\ "RST" \in cf \union sf
    <3>1. \E i \in FlowsOf(M, k) : "RST" \in M[i].flow.flags
      BY <1>13, <2>1, <2>6 DEF CountsSides
    <3>2. QED BY <2>1, <2>6, <3>1 DEF StatusIsShown
  <2>7. CASE h = "ESTABLISHED" /\ (sf # {} \/ d2 > 0)
    BY <2>1, <2>3, <2>4, <2>7 DEF StatusIsShown
  <2>8. QED BY <2>2, <2>5, <2>6, <2>7
<1>15. KeepsLast(j, k, M)
  <2>1. PICK last \in Int : last = s.last
    BY DEF KeepsSides, KeepsLast
  <2>2. j.last = last2 /\ last2 \in Int /\ last <= last2 /\ ts <= last2
    BY <1>6, <1>11, <2>1
  <2>3. PICK l \in Nat : l = Len(L)
    BY DEF Continues
  <2>4. ASSUME NEW i \in FlowsOf(M, k) PROVE M[i].ts <= last2
    <3>1. CASE i \in FlowsOf(L, k)
      <4>1. i \in 1..l
        BY <2>3, <3>1, FlowsAreInside DEF Inside
      <4>2. PICK t \in Int : t = L[i].ts /\ M[i] = L[i]
        BY <2>3, <4>1 DEF TimesAreWhole, Continues
      <4>3. t <= last
        BY <2>1, <3>1, <4>2 DEF KeepsSides, KeepsLast
      <4>4. t <= last2
        BY <2>2, <4>3
      <4>5. QED BY <4>2, <4>4
    <3>2. CASE i = l + 1
      <4>1. M[i] = e
        BY <2>3, <3>2 DEF Continues
      <4>2. QED BY <2>2, <4>1
    <3>3. QED BY <2>3, <2>4, <3>1, <3>2, LiveIs
  <2>5. QED BY <2>2, <2>4 DEF KeepsLast
<1>16. QED BY <1>1, <1>12, <1>13, <1>14, <1>15 DEF KeepsSides

\* A session that the flow begins, of a conversation that was just forgotten or
\* never heard of since.
LEMMA NewKeepsSides ==
  ASSUME NEW M, NEW L, NEW e, Continues(M, L, e), BytesAreCounted(L),
         e.flow.bytes \in Nat, NEW ts \in Int, ts = e.ts, NEW k, k = Key(e.flow),
         k \in e.forgot \/ FlowsOf(L, k) = {}
  PROVE  KeepsSides(NewSession(e.flow, ts), k, M)
<1>1. PICK f : f = e.flow
  OBVIOUS
<1>2. PICK x, y : x = <<f.src, f.sport>> /\ y = <<f.dst, f.dport>>
  OBVIOUS
<1>3. k[1] = {x, y}
  BY <1>1, <1>2 DEF Key
<1>4. PICK b \in Nat : b = f.bytes
  BY <1>1
<1>5. PICK s : s = NewSession(f, ts)
  OBVIOUS
<1>6. s \in {[client |-> x, server |-> y, sent |-> b, received |-> 0,
              clientFlags |-> f.flags, serverFlags |-> {}, first |-> ts, last |-> ts,
              status |-> "UNANSWERED"],
             [client |-> y, server |-> x, sent |-> 0, received |-> b,
              clientFlags |-> {}, serverFlags |-> f.flags, first |-> ts, last |-> ts,
              status |-> "UNANSWERED"]}
  BY <1>2, <1>4, <1>5 DEF NewSession
<1>7. /\ IsSession(s) /\ s.sent \in Nat /\ s.received \in Nat
      /\ {s.client, s.server} = {x, y} /\ s.last = ts
      /\ s.clientFlags \union s.serverFlags = f.flags /\ s.status = "UNANSWERED"
      /\ s.serverFlags = {} \/ s.server = x
  BY <1>6 DEF IsSession
<1>8. \/ s.client = x /\ s.server = y /\ s.sent = b /\ s.received = 0
      \/ s.client = y /\ s.server = x /\ s.sent = 0 /\ s.received = b
  BY <1>6
<1>9. PICK l \in Nat : l = Len(L) /\ M[l + 1] = e
  BY DEF Continues
<1>10. FlowsOf(M, k) = {l + 1}
  <2>1. \A i : i \in FlowsOf(M, k) <=> i = l + 1
    BY <1>9, LiveIs
  <2>2. QED BY <2>1
<1>11. \A end : FlowsFrom(M, k, end) = IF x = end THEN {l + 1} ELSE {}
  <2>1. <<M[l + 1].flow.src, M[l + 1].flow.sport>> = x
    BY <1>1, <1>2, <1>9
  <2>2. QED BY <1>10, <2>1 DEF FlowsFrom
<1>12. Carried(M, {l + 1}) = b /\ Carried(M, {}) = 0
  <2>1. Inside({}, L)
    BY DEF Inside
  <2>2. Carried(M, {} \union {l + 1}) = Carried(L, {}) + e.flow.bytes
    BY <1>9, <2>1, CarriedGrows
  <2>3. Carried(L, {}) = 0 /\ Carried(M, {}) = 0
    BY NothingIsCarried
  <2>4. {} \union {l + 1} = {l + 1}
    OBVIOUS
  <2>5. QED BY <1>1, <1>4, <2>2, <2>3, <2>4
<1>13. \A end : Carried(M, FlowsFrom(M, k, end)) = IF x = end THEN b ELSE 0
  BY <1>11, <1>12
<1>14. /\ s.sent <= Carried(M, FlowsFrom(M, k, s.client))
       /\ s.received <= Carried(M, FlowsFrom(M, k, s.server))
       /\ s.client # s.server => /\ s.sent = Carried(M, FlowsFrom(M, k, s.client))
                                 /\ s.received = Carried(M, FlowsFrom(M, k, s.server))
  BY <1>8, <1>13
<1>15. s.serverFlags # {} => FlowsFrom(M, k, s.server) # {}
  BY <1>7, <1>11
<1>16. \A z \in s.clientFlags \union s.serverFlags :
         \E i \in FlowsOf(M, k) : z \in M[i].flow.flags
  BY <1>1, <1>7, <1>9, <1>10
<1>17. CountsSides(s, k, M)
  BY <1>3, <1>7, <1>14, <1>15, <1>16 DEF CountsSides
<1>18. StatusIsShown(s, k, M)
  BY <1>7 DEF StatusIsShown
<1>19. KeepsLast(s, k, M)
  BY <1>7, <1>9, <1>10 DEF KeepsLast
<1>20. QED BY <1>1, <1>5, <1>17, <1>18, <1>19 DEF KeepsSides

\* The invariant: every session keeps the two sides of its conversation apart,
\* and the table misses no flow since it last forgot the conversation.
TableIsTrue(table, L) ==
  /\ BytesAreCounted(L) /\ TimesAreWhole(L)
  /\ \A k \in DOMAIN table : KeepsSides(table[k], k, L)
  /\ MissesNothing(table, L)

SessionInv ==
  /\ IsSequence(analysed) /\ TableIsTrue(sessions, analysed) /\ IdleOnly(analysed)
  /\ wallClock \in Int /\ \A f \in traffic : f.bytes \in Nat /\ f.late \in Int

\* Pruning only forgets, and only the idle.
LEMMA PrunedIs ==
  ASSUME NEW table, NEW ts
  PROVE  /\ DOMAIN Pruned(table, ts) \subseteq DOMAIN table
         /\ \A k \in DOMAIN Pruned(table, ts) : Pruned(table, ts)[k] = table[k]
         /\ \A k \in DOMAIN table \ DOMAIN Pruned(table, ts) :
              ~(table[k].last >= ts - SessionTimeout)
<1>1. CASE Cardinality(DOMAIN table) < SessionLimit
  BY <1>1 DEF Pruned
<1>2. CASE ~(Cardinality(DOMAIN table) < SessionLimit)
  <2>1. Pruned(table, ts) =
          [k \in {k \in DOMAIN table : table[k].last >= ts - SessionTimeout} |-> table[k]]
    BY <1>2 DEF Pruned
  <2>2. QED BY <2>1
<1>3. QED BY <1>1, <1>2

\* Whom a flow makes the table forget has been silent for longer than the timeout.
LEMMA ForgottenAreIdle ==
  ASSUME NEW M, NEW L, NEW e, Continues(M, L, e), NEW table, TableIsTrue(table, L),
         e.ts \in Int, e.forgot = DOMAIN table \ DOMAIN Pruned(table, e.ts)
  PROVE  IdleOnly(M)
<1>1. PICK l \in Nat : l = Len(L) /\ Len(M) = l + 1 /\ M[l + 1] = e
  BY DEF Continues
<1>2. ASSUME NEW k \in e.forgot, NEW i \in FlowsOf(L, k)
      PROVE  e.ts - M[i].ts > SessionTimeout
  <2>1. PICK s : s = table[k]
    OBVIOUS
  <2>2. k \in DOMAIN table /\ ~(s.last >= e.ts - SessionTimeout)
    BY <1>2, <2>1, PrunedIs
  <2>3. KeepsLast(s, k, L)
    BY <2>1, <2>2 DEF TableIsTrue, KeepsSides
  <2>4. i \in 1..l
    BY <1>1, <1>2, FlowsAreInside DEF Inside
  <2>5. PICK t \in Int : t = L[i].ts /\ M[i] = L[i]
    BY <1>1, <2>4 DEF TableIsTrue, TimesAreWhole, Continues
  <2>6. PICK last \in Int : last = s.last /\ t <= last
    BY <1>2, <2>3, <2>5 DEF KeepsLast
  <2>7. e.ts - t > SessionTimeout
    BY <2>2, <2>6, SessionAssumption
  <2>8. QED BY <2>5, <2>7
<1>3. \A k : FlowsOf(L, k) = LiveUpTo(M, l + 1 - 1, k)
  BY <1>1, LiveIs
<1>4. QED BY <1>1, <1>2, <1>3 DEF IdleOnly

LEMMA StitchedIsTrue ==
  ASSUME NEW M, NEW L, NEW e, Continues(M, L, e), NEW table, TableIsTrue(table, L),
         e.flow.bytes \in Nat, NEW ts \in Int, ts = e.ts,
         e.forgot = DOMAIN table \ DOMAIN Pruned(table, ts)
  PROVE  TableIsTrue(Stitched(table, e.flow, ts), M)
<1>1. PICK f, k : f = e.flow /\ k = Key(f)
  OBVIOUS
<1>2. PICK kept : kept = Pruned(table, ts)
  OBVIOUS
<1>3. /\ DOMAIN kept \subseteq DOMAIN table
      /\ \A g \in DOMAIN kept : kept[g] = table[g] /\ g \notin e.forgot
      /\ \A g : g \in DOMAIN table /\ g \notin e.forgot => g \in DOMAIN kept
  BY <1>2, PrunedIs
<1>4. PICK s : s = IF k \in DOMAIN kept THEN Joined(kept[k], f, ts) ELSE NewSession(f, ts)
  OBVIOUS
<1>5. PICK t : t = Stitched(table, f, ts)
  OBVIOUS
<1>6. t = Put(kept, k, s)
  BY <1>1, <1>2, <1>4, <1>5 DEF Stitched
<1>7. /\ DOMAIN t = DOMAIN kept \union {k} /\ t[k] = s
      /\ \A g \in DOMAIN kept : g # k => t[g] = kept[g]
  BY <1>6 DEF Put
<1>8. BytesAreCounted(L) /\ TimesAreWhole(L) /\ BytesAreCounted(M) /\ TimesAreWhole(M)
  BY CountsStay DEF TableIsTrue
<1>9. KeepsSides(s, k, M)
  <2>1. CASE k \in DOMAIN kept
    <3>1. PICK r : r = table[k]
      OBVIOUS
    <3>2. KeepsSides(r, k, L) /\ s = Joined(r, f, ts) /\ k \notin e.forgot
      BY <1>3, <1>4, <2>1, <3>1 DEF TableIsTrue
    <3>3. QED BY <1>1, <1>8, <3>2, JoinedKeepsSides
  <2>2. CASE k \notin DOMAIN kept
    <3>1. s = NewSession(f, ts)
      BY <1>4, <2>2
    <3>2. k \in e.forgot \/ FlowsOf(L, k) = {}
      BY <1>3, <2>2 DEF TableIsTrue, MissesNothing
    <3>3. QED BY <1>1, <1>8, <3>1, <3>2, NewKeepsSides
  <2>3. QED BY <2>1, <2>2
<1>10. ASSUME NEW g \in DOMAIN kept, g # k PROVE KeepsSides(t[g], g, M)
  <2>1. PICK r : r = table[g]
    OBVIOUS
  <2>2. KeepsSides(r, g, L) /\ t[g] = r /\ g \notin e.forgot
    BY <1>3, <1>7, <1>10, <2>1 DEF TableIsTrue
  <2>3. KeepsSides(r, g, M)
    BY <1>1, <1>8, <1>10, <2>2, SidesStay
  <2>4. QED BY <2>2, <2>3
<1>11. \A g \in DOMAIN t : KeepsSides(t[g], g, M)
  BY <1>7, <1>9, <1>10
<1>12. MissesNothing(t, M)
  <2>1. SUFFICES ASSUME NEW g, NEW i \in FlowsOf(M, g) PROVE g \in DOMAIN t
    BY DEF MissesNothing
  <2>2. (i \in FlowsOf(L, g) /\ g \notin e.forgot) \/ k = g
    BY <1>1, <2>1, LiveIs
  <2>3. CASE i \in FlowsOf(L, g) /\ g \notin e.forgot
    <3>1. g \in DOMAIN table
      BY <2>3 DEF TableIsTrue, MissesNothing
    <3>2. QED BY <1>3, <1>7, <2>3, <3>1
  <2>4. CASE k = g
    BY <1>7, <2>4
  <2>5. QED BY <2>2, <2>3, <2>4
<1>13. QED BY <1>1, <1>5, <1>8, <1>11, <1>12 DEF TableIsTrue

LEMMA StitchIs ==
  ASSUME NEW f, NEW gap, Analyze(f, gap)
  PROVE  sessions' = Stitched(sessions, f, (wallClock + gap) - f.late)
<1>1. PICK at : at = wallClock + gap
  OBVIOUS
<1>2. sessions' = Stitched(sessions, f, at - f.late)
  BY <1>1 DEF Analyze
<1>3. QED BY <1>1, <1>2, Zenon

LEMMA SessionStep == SessionInv /\ [FlowNext]_flowVars => SessionInv'
<1> SUFFICES ASSUME SessionInv, [FlowNext]_flowVars PROVE SessionInv'
  OBVIOUS
<1>1. ASSUME NEW f \in traffic, NEW gap \in Delays, Analyze(f, gap) PROVE SessionInv'
  <2>1. PICK ts : ts = (wallClock + gap) - f.late
    OBVIOUS
  <2>2. ts \in Int /\ wallClock + gap \in Int /\ f.bytes \in Nat
    BY <1>1, <2>1, ScenesAssumption DEF SessionInv
  <2>3. PICK e : /\ Continues(analysed', analysed, e) /\ e.flow = f /\ e.ts = ts
                 /\ e.forgot = DOMAIN sessions \ DOMAIN Pruned(sessions, e.ts)
    BY <1>1, <2>1, AnalyzeIs DEF SessionInv
  <2>4. /\ sessions' = Stitched(sessions, f, ts) /\ traffic' = traffic
        /\ wallClock' = wallClock + gap
    <3>1. sessions' = Stitched(sessions, f, (wallClock + gap) - f.late)
      BY <1>1, StitchIs
    <3>2. traffic' = traffic /\ wallClock' = wallClock + gap
      BY <1>1 DEF Analyze
    <3>3. QED BY <2>1, <3>1, <3>2, Zenon
  <2>5. TableIsTrue(sessions', analysed')
    <3>1. TableIsTrue(sessions, analysed)
      BY DEF SessionInv
    <3>2. TableIsTrue(Stitched(sessions, e.flow, ts), analysed')
      BY <2>2, <2>3, <3>1, StitchedIsTrue
    <3>3. QED BY <2>3, <2>4, <3>2
  <2>6. IdleOnly(analysed')
    BY <2>2, <2>3, ForgottenAreIdle DEF SessionInv
  <2>7. IsSequence(analysed')
    <3>1. PICK g : analysed' = Append(analysed, g)
      BY <1>1 DEF Analyze
    <3>2. QED BY <3>1, SequenceGrows DEF SessionInv
  <2>8. QED BY <2>2, <2>4, <2>5, <2>6, <2>7 DEF SessionInv
<1>2. ASSUME NEW rule, LoadRule(rule) PROVE SessionInv'
  BY <1>2 DEF LoadRule, SessionInv
<1>3. CASE UNCHANGED flowVars
  BY <1>3 DEF flowVars, SessionInv
<1>4. QED BY <1>1, <1>2, <1>3 DEF FlowNext

LEMMA InitialSessions == FlowInit => SessionInv
<1> SUFFICES ASSUME FlowInit PROVE SessionInv
  OBVIOUS
<1>1. /\ analysed = <<>> /\ sessions = <<>> /\ wallClock \in Int
      /\ \A f \in traffic : f.bytes \in Nat /\ f.late \in Int
  BY ScenesAssumption DEF FlowInit, Epoch
<1>2. IsSequence(<<>>) /\ Len(<<>>) = 0 /\ DOMAIN <<>> = {}
  <2>1. <<>> \in Seq({}) /\ Len(<<>>) = 0 /\ DOMAIN <<>> = {}
    OBVIOUS
  <2>2. QED BY <2>1, SequenceIs
<1>3. \A k : FlowsOf(<<>>, k) = {}
  BY <1>2 DEF FlowsOf, LiveUpTo
<1>4. /\ BytesAreCounted(<<>>) /\ TimesAreWhole(<<>>) /\ MissesNothing(<<>>, <<>>)
      /\ IdleOnly(<<>>)
  BY <1>2, <1>3 DEF BytesAreCounted, TimesAreWhole, MissesNothing, IdleOnly
<1>5. QED BY <1>1, <1>2, <1>4 DEF SessionInv, TableIsTrue

LEMMA SidesOfTheInvariant == SessionInv => SessionsKeepSides
<1> SUFFICES ASSUME SessionInv PROVE SessionsKeepSides
  OBVIOUS
<1>1. \A is : Sum(is, "bytes") = Carried(analysed, is)
  BY DEF Sum, Carried, BytesOf
<1>2. \A n, k : InSessionAt(n, k) = LiveUpTo(analysed, n, k)
  BY DEF InSessionAt, LiveUpTo
<1>3. \A k : InSession(k) = FlowsOf(analysed, k)
  BY <1>2 DEF InSession, FlowsOf, latest
<1>4. \A k, end : From(k, end) = FlowsFrom(analysed, k, end)
  BY <1>3 DEF From, FlowsFrom
<1>5. ASSUME NEW k \in DOMAIN sessions
      PROVE  LET session == sessions[k] IN
             /\ session.client # session.server =>
                  /\ session.sent = Sum(From(k, session.client), "bytes")
                  /\ session.received = Sum(From(k, session.server), "bytes")
             /\ From(k, session.client) \cup From(k, session.server) = InSession(k)
             /\ session.status = "ESTABLISHED" => From(k, session.server) # {}
             /\ session.status = "RESET" =>
                  \E i \in InSession(k) : "RST" \in analysed[i].flow.flags
  <2>1. PICK s : s = sessions[k]
    OBVIOUS
  <2>2. CountsSides(s, k, analysed) /\ StatusIsShown(s, k, analysed)
    BY <2>1 DEF SessionInv, TableIsTrue, KeepsSides
  <2>3. s.client # s.server =>
          /\ s.sent = Sum(From(k, s.client), "bytes")
          /\ s.received = Sum(From(k, s.server), "bytes")
    BY <1>1, <1>4, <2>2 DEF CountsSides
  <2>4. From(k, s.client) \cup From(k, s.server) = InSession(k)
    <3>1. ASSUME NEW i \in FlowsOf(analysed, k)
          PROVE  <<analysed[i].flow.src, analysed[i].flow.sport>> \in {s.client, s.server}
      <4>1. Key(analysed[i].flow) = k
        BY <3>1 DEF FlowsOf, LiveUpTo
      <4>2. <<analysed[i].flow.src, analysed[i].flow.sport>> \in k[1]
        BY <4>1 DEF Key
      <4>3. QED BY <2>2, <4>2 DEF CountsSides
    <3>2. QED BY <1>3, <1>4, <3>1 DEF FlowsFrom
  <2>5. /\ s.status = "ESTABLISHED" => From(k, s.server) # {}
        /\ s.status = "RESET" => \E i \in InSession(k) : "RST" \in analysed[i].flow.flags
    BY <1>3, <1>4, <2>2 DEF StatusIsShown
  <2>6. QED BY <2>1, <2>3, <2>4, <2>5
<1>6. latest > 0 =>
        \A k \in analysed[latest].forgot : \A i \in InSessionAt(latest - 1, k) :
          analysed[latest].ts - analysed[i].ts > SessionTimeout
  BY <1>2 DEF SessionInv, IdleOnly, latest
<1>7. QED BY <1>5, <1>6 DEF SessionsKeepSides

\* However the flows come, a session counts the two sides of its conversation
\* apart, exactly, since it was last forgotten, and only the idle are forgotten.
THEOREM SessionsAlwaysKeepSides == FlowSpec => []SessionsKeepSides
<1>1. QED BY InitialSessions, SessionStep, SidesOfTheInvariant, PTL DEF FlowSpec
=============================================================================
