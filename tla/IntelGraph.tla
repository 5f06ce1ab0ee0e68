------------------------------ MODULE IntelGraph ------------------------------
(***************************************************************************)
(* The indicators and the attack graph at work: what analyze_flow          *)
(* (detector/engine.py) does with them for each flow, the alerts of the    *)
(* other rules reaching the graph through _record_alert, and the routes by *)
(* which an analyst changes the indicators (api/routes/threat_intel.py).   *)
(***************************************************************************)
EXTENDS AttackGraph, BloomIntel

CONSTANTS Listed,      \* threat_intel_matcher: addresses, to their severity
          Ranges,      \* its networks, a sequence of <<addresses, severity>>
          Confidences, \* confidences, in hundredths, an analyst may give
          Feeds,       \* feeds and bundles: sequences of addresses
          OtherAlerts, \* <<category, severity, confidence>> of the other rules
          Lateness,    \* how old the timestamp of a flow may be
          MaxFlows,    \* bound: flows
          MaxOthers,   \* bound: alerts of other rules
          MaxItems     \* bound: items_count up to which indicators are given

ASSUME FeedsAssumption == Feeds \subseteq Seq(Hosts)

\* Addresses are numbers of a fixed width.
ASSUME HostsAreFinite == IsFiniteSet(Hosts)

\* A confidence may be any number, none and negative ones too; no alert is from
\* the time 0, which stands for no time.
Severities == {"LOW", "MEDIUM", "HIGH", "CRITICAL"}
ASSUME KindsAssumption ==
  /\ \A h \in DOMAIN Listed : Listed[h] \in Severities
  /\ Ranges \in Seq((SUBSET Hosts) \X Severities)
  /\ \A kind \in OtherAlerts : kind[2] \in Severities /\ kind[3] \in Int
  /\ Confidences \subseteq Int
  /\ Lateness \subseteq 0..9

VARIABLES clock,   \* datetime.now(), a step each
          intel,   \* engine.bloom_intel
          sure,    \* the confidence of the indicator of each address
          graph,   \* engine.attack_graph
          said     \* history: <<the alert, did its edge exist>>, as recorded

intelVars == <<clock, intel, sure, graph, said>>

\* The confidence of the feed's indicators; the seeds' are from 95 to 98.
FeedSure == 96

IntelInit ==
  /\ clock = 10
  /\ intel = SeedIntel /\ sure = [h \in Hosts |-> FeedSure]
  /\ graph = EmptyGraph /\ said = <<>>

Flows == LET count(e) == graph.edges[e].flows
         IN MapThenSumSet(count, DOMAIN graph.edges)

\* _match_ip of the lists: the address, then the first network with it.
\* "none" when there is none.
ListSeverity(h) ==
  LET hits == {i \in DOMAIN Ranges : h \in Ranges[i][1]}
  IN IF h \in DOMAIN Listed THEN Listed[h]
     ELSE IF hits # {} THEN Ranges[Min(hits)][2] ELSE "none"

C2(s, d, severity, confidence, ts) ==
  [category |-> "MALICIOUS_C2", severity |-> severity, src |-> s, dst |-> d,
   confidence |-> confidence, ts |-> ts]

\* The lists' alert is stamped with the time of the analysis; the
\* destination is asked first.
ListAlerts(s, d) ==
  LET severity == IF ListSeverity(d) # "none" THEN ListSeverity(d) ELSE ListSeverity(s)
  IN IF severity = "none" THEN <<>> ELSE <<C2(s, d, severity, 98, clock)>>

\* The filter's alert is stamped with the time of the flow, and as sure as the
\* indicator.
BloomAlerts(s, d, ts) ==
  IF Query(intel, d) THEN <<C2(s, d, "CRITICAL", sure[d], ts)>>
  ELSE IF Query(intel, s) THEN <<C2(s, d, "HIGH", sure[s], ts)>> ELSE <<>>

\* The filter is asked only about flows the lists do not know.
IntelAlerts(s, d, ts) ==
  IF ListAlerts(s, d) # <<>> THEN ListAlerts(s, d) ELSE BloomAlerts(s, d, ts)

\* _record_alert: the alert reaches the graph.
Recorded(g, alerts) ==
  LET drawn[i \in 0..Len(alerts)] ==
        IF i = 0 THEN g ELSE GraphAlert(drawn[i - 1], alerts[i])
  IN  drawn[Len(alerts)]
Tagged(g, alerts) ==
  [i \in DOMAIN alerts |-> <<alerts[i], <<alerts[i].src, alerts[i].dst>> \in DOMAIN g.edges>>]

\* analyze_flow: the edge is in the graph before the rules are asked.
Flow(s, d, late) ==
  LET found == IntelAlerts(s, d, clock - late)
      drawn == GraphFlow(graph, s, d)
  IN /\ Flows < MaxFlows
     /\ clock' = clock + 1
     /\ graph' = Recorded(drawn, found)
     /\ said' = said \o Tagged(drawn, found)
     /\ UNCHANGED <<intel, sure>>

\* An alert of another rule, or of a correlation of several: its hosts need
\* not have exchanged a flow in this direction.
OtherAlert(s, d, kind) ==
  LET a == [category |-> kind[1], severity |-> kind[2], confidence |-> kind[3],
            src |-> s, dst |-> d, ts |-> clock]
  IN /\ clock' = clock + 1
     /\ graph' = GraphAlert(graph, a)
     /\ said' = said \o Tagged(graph, <<a>>)
     /\ UNCHANGED <<intel, sure>>

\* POST /threat-intel/iocs and DELETE /threat-intel/iocs/{ip}; the latter
\* answers 404 for an address that is not in the table.
AddCustomIoc(h, confidence) ==
  /\ intel' = AddIoc(intel, h)
  /\ sure' = [sure EXCEPT ![h] = confidence]
  /\ UNCHANGED <<clock, graph, said>>

RemoveCustomIoc(h) == /\ h \in intel.table
                      /\ intel' = RemoveIoc(intel, h)
                      /\ sure' = [sure EXCEPT ![h] = FeedSure]
                      /\ UNCHANGED <<clock, graph, said>>

\* POST /threat-intel/sync with a text, or from the public feed; when that
\* cannot be reached the indicators stay as they are.
SyncFeed(feed) == /\ intel' = LoadFeed(intel, feed)
                  /\ sure' = [h \in Hosts |-> IF h \in ToSet(feed) THEN FeedSure
                                               ELSE sure[h]]
                  /\ UNCHANGED <<clock, graph, said>>

Others == clock - 10 - Flows

IntelNext ==
  \/ \E s, d \in Hosts, late \in Lateness : s # d /\ Flow(s, d, late)
  \/ \E s, d \in Hosts, kind \in OtherAlerts :
       s # d /\ Others < MaxOthers /\ OtherAlert(s, d, kind)
  \/ \E h \in Hosts, confidence \in Confidences :
       intel.items < MaxItems /\ AddCustomIoc(h, confidence)
  \/ \E h \in Hosts : RemoveCustomIoc(h)
  \/ \E feed \in Feeds : intel.items < MaxItems /\ SyncFeed(feed)

IntelSpec == IntelInit /\ [][IntelNext]_intelVars
-----------------------------------------------------------------------------
\* How many times the indicators of the table fall on a slot.
Hits(h, slot) == Cardinality({i \in DOMAIN Hashes[h] : Hashes[h][i] = slot})
Load(slot) == SumFunction([h \in intel.table |-> Hits(h, slot)])

(***************************************************************************)
(* Adding, removing and loading feeds, with addresses given twice and      *)
(* removed while others share their slots, keep the filter exactly that of *)
(* the table.  Once a counter was at its limit (255) its removals may      *)
(* empty it while an indicator needs it, and the removal of that one then  *)
(* leaves its other counters up (:62, :77, :81); even so no indicator goes *)
(* undetected that shares none of the counters once at their limit.        *)
(***************************************************************************)
FilterIsExact ==
  /\ \A slot \in Slots \ intel.full : intel.counters[slot] >= Load(slot)
  /\ \A h \in intel.table :
       ToSet(Hashes[h]) \cap intel.full = {} => Query(intel, h)
  /\ intel.full = {} => /\ \A slot \in Slots : intel.counters[slot] = Load(slot)
                        /\ intel.items = Cardinality(intel.table)

\* The recorded alerts that compromise a host: those it is the source of,
\* and lateral movement towards it over an edge that was there.
Against(h) ==
  {i \in DOMAIN said :
     /\ said[i][1].severity # "LOW"
     /\ \/ said[i][1].src = h
        \/ said[i][1].dst = h /\ said[i][2] /\ said[i][1].category = "LATERAL_MOVEMENT"}

\* What an alert weighs for a host, in hundredths of a point: a severity times
\* a confidence, four fifths of it for the target.
Weight(a, h) ==
  LET points == Points(a.severity) * a.confidence
  IN IF a.src = h THEN points ELSE (points * 8) \div 10
Clipped(points) == IF points < 0 THEN 0 ELSE IF points > 10000 THEN 10000 ELSE points

(***************************************************************************)
(* The graph blames a host for what was recorded of it and nothing else:   *)
(* compromised since the first alert recorded against it, whatever the     *)
(* timestamps of later ones, with as many alerts as there were; an edge is *)
(* marked exactly by the alerts raised after it was drawn.  Its risk is    *)
(* what the heaviest of these alerts weighs, between 0 and 100 points,     *)
(* whatever their order -- and nobody's risk without one.  A host may be   *)
(* compromised at no risk at all: an alert compromises by its severity,    *)
(* and an analyst may give an indicator of any confidence (:154, :161).    *)
(***************************************************************************)
CompromiseIsExplained ==
  /\ \A h \in DOMAIN graph.nodes :
       LET node == graph.nodes[h]
       IN /\ node.alerts = Cardinality(Against(h))
          /\ node.compromised =
               IF Against(h) = {} THEN 0 ELSE said[Min(Against(h))][1].ts
          /\ \A i \in Against(h) : Clipped(Weight(said[i][1], h)) <= node.risk
          /\ \/ node.risk = 0
             \/ \E i \in Against(h) : Clipped(Weight(said[i][1], h)) = node.risk
  /\ \A e \in DOMAIN graph.edges :
       LET over == {i \in DOMAIN said : /\ said[i][2] /\ said[i][1].severity # "LOW"
                                        /\ <<said[i][1].src, said[i][1].dst>> = e}
           kinds == {said[i][1].category : i \in over}
       IN /\ graph.edges[e].lateral <=> "LATERAL_MOVEMENT" \in kinds
          /\ graph.edges[e].c2 <=> kinds \cap {"MALICIOUS_C2", "C2_BEACONING"} # {}

\* The length of the shortest walk from s to d over a relation, 0 for none.
Walks(rel) ==
  LET walk[k \in 1..Cardinality(Hosts)] ==
        IF k = 1 THEN rel
        ELSE LET shorter == walk[k - 1]
             IN  {e \in Hosts \X Hosts :
                    \E h \in Hosts : <<e[1], h>> \in shorter /\ <<h, e[2]>> \in rel}
  IN walk
Shortest(walk, s, d) ==
  LET lengths == {k \in DOMAIN walk : <<s, d>> \in walk[k]}
  IN IF lengths = {} THEN 0 ELSE Min(lengths)

(***************************************************************************)
(* The searches of the graph find shortest distances: the blast radius     *)
(* puts every host that can be reached within the depth at its distance    *)
(* and no other.  The patient zero named for a host is one from which the  *)
(* compromise can have come, over causal edges, and of those one of the    *)
(* furthest; the host itself only if it can have come from nobody.         *)
(* That much is promised (graph.py:188, docs/05:45) for a host from which  *)
(* no causal edges lead back to it.  Where they do -- it answered whoever  *)
(* compromised it -- the search, which does not mark the host it starts    *)
(* from (:194), may name the victim itself; nothing is claimed of those    *)
(* but that a named host other than the victim is one the compromise can   *)
(* have come from.                                                         *)
(***************************************************************************)
SearchesAreShortest ==
  LET reach == Walks(DOMAIN graph.edges)
  IN \A h \in DOMAIN graph.nodes :
    LET cause == Walks({e \in DOMAIN graph.edges : IsCausal(graph, e[1], e[2], h)})
        furthest == Max({Shortest(cause, p, h) : p \in Hosts})
        answered == Shortest(cause, h, h) > 0
    IN /\ \A p \in Roots(graph, h) \ {h} : Shortest(cause, p, h) > 0
       /\ ~answered => Roots(graph, h) =
            IF furthest = 0 THEN {h}
            ELSE {p \in Hosts : Shortest(cause, p, h) = furthest}
       /\ \A depth \in {1, 2} : \A i \in 1..depth :
            BlastRadius(graph, h, depth)[i] = {d \in Hosts \ {h} : Shortest(reach, h, d) = i}
       /\ h \in CompromisedView(graph).nodes <=>
            \/ Against(h) # {}
            \/ \E e \in DOMAIN graph.edges :
                 h \in {e[1], e[2]} /\ Against(e[1]) \cup Against(e[2]) # {}
=============================================================================
