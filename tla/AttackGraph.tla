----------------------------- MODULE AttackGraph -----------------------------
(***************************************************************************)
(* AttackGraphEngine (detector/graph.py): the hosts seen, the directed     *)
(* edges between them, which hosts an alert compromised and when, and the  *)
(* two searches over it.                                                   *)
(*                                                                         *)
(* A graph is a record [nodes, edges, timeline].  A node keeps compromised *)
(* (0 or the timestamp of the first alert), risk, in hundredths of a       *)
(* point, and alerts; an edge the flows it carried and its two marks.  The *)
(* degrees the code stores are those of the edges; byte counts and dates   *)
(* are left out.  All roles stay WORKSTATION: no caller passes one         *)
(* (graph.py:125).                                                         *)
(***************************************************************************)
EXTENDS Integers, Sequences, FiniteSets, FiniteSetsExt

EmptyGraph == [nodes |-> <<>>, edges |-> <<>>, timeline |-> <<>>]
NewNode == [compromised |-> 0, risk |-> 0, alerts |-> 0]
NewEdge == [flows |-> 0, lateral |-> FALSE, c2 |-> FALSE]

\* A dictionary with an entry added or replaced.
With(table, key, value) ==
  [x \in DOMAIN table \cup {key} |-> IF x = key THEN value ELSE table[x]]

Known(g, h) == h \in DOMAIN g.nodes
WithNode(g, h) ==
  IF Known(g, h) THEN g ELSE [g EXCEPT !.nodes = With(@, h, NewNode)]
WithNodes(g, s, d) == WithNode(WithNode(g, s), d)

\* ingest_flow
GraphFlow(g, s, d) ==
  LET e == IF <<s, d>> \in DOMAIN g.edges THEN g.edges[<<s, d>>] ELSE NewEdge
  IN [WithNodes(g, s, d) EXCEPT
        !.edges = With(@, <<s, d>>, [e EXCEPT !.flows = @ + 1])]

Points(severity) ==
  CASE severity = "LOW" -> 15 [] severity = "MEDIUM" -> 40
    [] severity = "HIGH" -> 75 [] severity = "CRITICAL" -> 100

\* Mutant: a later alert moves the time of the compromise.
HitAgain(node, ts, points) ==
  [compromised |-> ts, alerts |-> node.alerts + 1,
   risk |-> Max({node.risk, points})]

\* One more alert on a host: only the first sets the time, the risk never
\* falls and stays within 100 points.
Hit(node, ts, points) ==
  [compromised |-> IF node.compromised = 0 THEN ts ELSE node.compromised,
   risk |-> Min({10000, Max({node.risk, points})}),
   alerts |-> node.alerts + 1]

(***************************************************************************)
(* ingest_alert: from MEDIUM up the source is compromised and the alert    *)
(* enters the timeline; when the two hosts have exchanged a flow in that   *)
(* direction, lateral movement marks the edge and the target too, C2 only  *)
(* the edge.  The confidence, in hundredths, may be any number: it comes   *)
(* from whoever gave the indicator.                                        *)
(***************************************************************************)
GraphAlert(g, a) ==
  LET p == WithNodes(g, a.src, a.dst)
      points == Points(a.severity) * a.confidence
      e == <<a.src, a.dst>>
      spreads == e \in DOMAIN p.edges /\ a.category = "LATERAL_MOVEMENT"
      calls == e \in DOMAIN p.edges /\ a.category \in {"MALICIOUS_C2", "C2_BEACONING"}
      source == [p.nodes EXCEPT ![a.src] = Hit(@, a.ts, points)]
  IN IF a.severity = "LOW" THEN p
     ELSE [nodes |-> IF spreads
                     THEN [source EXCEPT ![a.dst] = Hit(@, a.ts, (points * 8) \div 10)]
                     ELSE source,
           edges |-> IF spreads THEN [p.edges EXCEPT ![e].lateral = TRUE]
                     ELSE IF calls THEN [p.edges EXCEPT ![e].c2 = TRUE]
                     ELSE p.edges,
           timeline |-> Append(p.timeline, a)]

Out(g, h) == {d \in DOMAIN g.nodes : <<h, d>> \in DOMAIN g.edges}
In(g, h) == {s \in DOMAIN g.nodes : <<s, h>> \in DOMAIN g.edges}
-----------------------------------------------------------------------------
(***************************************************************************)
(* find_patient_zero(target): breadth first against the edges, from a host *)
(* to those that may have compromised it.  The order in which a level is   *)
(* visited is that of a Python set; the root the code returns is the first *)
(* host it reached on the deepest level, here any host of that level.      *)
(* The target itself is not marked as visited at the start.                *)
(***************************************************************************)
IsCausal(g, parent, child, target) ==
  LET e == g.edges[<<parent, child>>]
      p == g.nodes[parent].compromised
      t == g.nodes[target].compromised
  IN \/ e.lateral \/ e.c2
     \/ p # 0 /\ (t = 0 \/ p <= t)

\* Mutant: whoever talked to the host may have compromised it.
ParentsOfAny(g, level, seen, target) == UNION {In(g, h) \ seen : h \in level}

Parents(g, level, seen, target) ==
  UNION {{p \in In(g, h) \ seen : IsCausal(g, p, h, target)} : h \in level}

\* Level i of the search, <<hosts, hosts seen so far>>, and the deepest one.
Levels(g, target) ==
  LET lv[i \in 0..Cardinality(DOMAIN g.nodes) + 1] ==
        IF i = 0 THEN <<{target}, {}>>
        ELSE LET new == Parents(g, lv[i - 1][1], lv[i - 1][2], target)
             IN <<new, lv[i - 1][2] \cup new>>
  IN lv

Roots(g, target) ==
  LET lv == Levels(g, target)
      last == Max({i \in DOMAIN lv : lv[i][1] # {}})
  IN lv[last][1]

(***************************************************************************)
(* calculate_blast_radius(host, depth): the hosts within depth hops along  *)
(* the edges, by distance.  The score weighs each host by its role over    *)
(* its distance; all roles being equal it grows with this set.             *)
(***************************************************************************)
BlastRadius(g, host, depth) ==
  LET within[i \in 0..depth] ==
        IF i = 0 THEN {host}
        ELSE within[i - 1] \cup UNION {Out(g, h) : h \in within[i - 1]}
  IN [i \in 1..depth |-> within[i] \ within[i - 1]]

\* export_topology_json(True): compromised hosts and their neighbours.
CompromisedView(g) ==
  LET bad == {h \in DOMAIN g.nodes : g.nodes[h].compromised # 0}
      shown == bad \cup UNION {Out(g, h) \cup In(g, h) : h \in bad}
  IN [nodes |-> shown, edges |-> {e \in DOMAIN g.edges : {e[1], e[2]} \subseteq shown}]
=============================================================================
