------------------------------ MODULE FlowEngine ------------------------------
(***************************************************************************)
(* DetectionEngine.analyze_flow (detector/engine.py) up to the payload     *)
(* inspection: a flow is stitched into its session and its source is       *)
(* profiled, then every rule judges it on the state that leaves.  The IoC  *)
(* lists and the attack graph, the payload rules and the recording of the  *)
(* alerts, which read and write none of this state, are the modules        *)
(* IntelGraph, PayloadRules and AlertPipeline; the isolation forest and    *)
(* the plugins, asked last, change none of it either.                      *)
(***************************************************************************)
EXTENDS WindowRules

CONSTANTS Scenes,      \* sets of flows: the traffic of a behaviour is one
          Delays,      \* seconds between one flow and the next
          SigmaRules,  \* Sigma rules an operator may load
          WebCooldown, \* alert_cooldown_secs of the web rule (15)
          MaxAnalysed  \* bound: flows analysed

ASSUME ScenesAssumption ==
  /\ \A scene \in Scenes : \A f \in scene : f.bytes \in Nat /\ f.late \in Int
  /\ Delays \subseteq Nat

VARIABLES traffic,   \* the flows of this behaviour (never changes)
          wallClock, \* time.time(), starting beyond every cooldown
          sessions,  \* biflow_stitcher._sessions
          profile,   \* host_profiler
          rules,     \* the state of each rule
          sigma,     \* sigma_engine.rules
          alerts,    \* what the last analyze_flow raised
          analysed   \* history: the flows analysed and what each raised

flowVars ==
  <<traffic, wallClock, sessions, profile, rules, sigma, alerts, analysed>>

Epoch == 1000

FlowInit ==
  /\ traffic \in Scenes
  /\ wallClock = Epoch
  /\ sessions = <<>> /\ profile = NoProfile
  /\ rules = [scan |-> EmptyRule, flood |-> EmptyRule, exfil |-> EmptyRule,
              dns |-> EmptyRule, beacon |-> EmptyRule,
              lateral |-> EmptyRule, tls |-> <<>>, web |-> <<>>]
  /\ sigma = <<>> /\ alerts = <<>> /\ analysed = <<>>

(***************************************************************************)
(* Sigma: a rule is [id, level, selection]; selection gives the fields it  *)
(* wants a set of values, or a comparison <<op, literal>>.                 *)
(***************************************************************************)
Context(f, table) ==
  [dst_port |-> f.dport, protocol |-> f.proto, bytes |-> f.bytes,
   packets |-> f.packets,
   direction |-> IF f.dst \in Internal THEN "internal" ELSE "outbound",
   upload_ratio |-> IF Key(f) \in DOMAIN table THEN BytesRatio(table[Key(f)])
                    ELSE <<1, 2>>]

\* "> 0.70" of the ratio p / q, and "> n" of a number.
MatchCondition(field, value, expected) ==
  IF field = "upload_ratio" THEN 10 * value[1] > expected.tenths * value[2]
  ELSE IF "above" \in DOMAIN expected THEN value > expected.above
  ELSE value \in expected.oneOf

SigmaMatches(rule, context) ==
  /\ rule.selection # <<>>
  /\ \A field \in DOMAIN rule.selection :
       /\ field \in DOMAIN context
       /\ MatchCondition(field, context[field], rule.selection[field])

SigmaAlerts(loaded, f, table) ==
  LET hit == {id \in DOMAIN loaded : SigmaMatches(loaded[id], Context(f, table))}
  IN SetToSeq({Alert("sigma", id, loaded[id].level) : id \in hit})

\* load_rule_text: a rule replaces the one with its id.
LoadRule(rule) ==
  /\ Lookup(sigma, rule.id, <<>>) # rule
  /\ sigma' = Put(sigma, rule.id, rule)
  /\ UNCHANGED <<traffic, wallClock, sessions, profile, rules, alerts, analysed>>

\* What the history keeps of a flow once it is judged.
Judgement(f, now) ==
  [flow |-> f, at |-> now, ts |-> now - f.late, exempt |-> IsExempt(f, profile'),
   forgot |-> DOMAIN sessions \ DOMAIN Pruned(sessions, now - f.late),
   raised |-> {<<alerts'[i].rule, alerts'[i].key>> : i \in DOMAIN alerts'}]

(***************************************************************************)
(* The rules run in the order of the code; the session and the profile     *)
(* they read already hold this flow.                                       *)
(***************************************************************************)
Analyze(f, gap) ==
  LET now == wallClock + gap
      ts == now - f.late
      scan == PortScan(rules.scan, f, now)
      flood == SynFlood(rules.flood, f, now)
      exfil == Exfiltration(rules.exfil, f, now, sessions', profile')
      dns == DnsTunnel(rules.dns, f, now)
      beacon == Beaconing(rules.beacon, f, ts)
      lateral == LateralMovement(rules.lateral, f, now, profile')
      tls == EncryptedTraffic(rules.tls, f, sessions')
      web == EastWest(rules.web, f, now, WebCooldown)
  IN /\ Len(analysed) < MaxAnalysed
     /\ wallClock' = now
     /\ sessions' = Stitched(sessions, f, ts)
     /\ profile' = Profiled(profile, f)
     /\ rules' = [scan |-> scan.d, flood |-> flood.d, exfil |-> exfil.d,
                  dns |-> dns.d, beacon |-> beacon.d, lateral |-> lateral.d,
                  tls |-> tls.d, web |-> web.d]
     /\ alerts' = scan.alerts \o flood.alerts \o exfil.alerts \o dns.alerts
                  \o beacon.alerts \o lateral.alerts \o tls.alerts
                  \o SigmaAlerts(sigma, f, sessions') \o web.alerts
     /\ analysed' = Append(analysed, Judgement(f, now))
     /\ UNCHANGED <<traffic, sigma>>

FlowNext == \/ \E f \in traffic, gap \in Delays : Analyze(f, gap)
            \/ \E rule \in SigmaRules : LoadRule(rule)

FlowSpec == FlowInit /\ [][FlowNext]_flowVars
-----------------------------------------------------------------------------
(***************************************************************************)
(* What the rules should say, from the whole history instead of their      *)
(* windows.  latest is the number of the flow just analysed.               *)
(***************************************************************************)
latest == Len(analysed)
This == analysed[latest].flow
Past(window, Like(_)) ==
  {i \in 1..latest : /\ Like(analysed[i].flow)
                     /\ analysed[latest].at - analysed[i].at <= window}
Said(rule, key) == <<rule, key>> \in analysed[latest].raised
SaidWithin(rule, key, cooldown) ==
  \E i \in 1..latest - 1 : /\ <<rule, key>> \in analysed[i].raised
                           /\ analysed[latest].at - analysed[i].at < cooldown
Sum(is, field) == SumFunction([i \in is |-> analysed[i].flow[field]])

ScanIsDue ==
  /\ IsProbe(This)
  /\ Cardinality({analysed[i].flow.dport : i \in
        Past(Scan.window, LAMBDA g : g.src = This.src /\ IsProbe(g))}) >= Scan.need
  /\ ~SaidWithin("scan", This.src, Scan.cooldown)

FloodIsDue ==
  LET service == <<This.dst, This.dport>>
      same(g) == <<g.dst, g.dport>> = service /\ IsBareSyn(g)
  IN /\ IsBareSyn(This)
     /\ Cardinality(Past(Flood.window, same)) >= Flood.need
     /\ ~SaidWithin("flood", service, Flood.cooldown)

LateralIsDue ==
  /\ IsAdminFlow(This) /\ ~analysed[latest].exempt
  /\ Cardinality({analysed[i].flow.dst : i \in
        {j \in Past(Lateral.window, LAMBDA g : g.src = This.src /\ IsAdminFlow(g)) :
           ~analysed[j].exempt}}) >= Lateral.need
  /\ ~SaidWithin("lateral", This.src, Lateral.cooldown)

DnsIsDue ==
  LET pair == <<This.src, This.dst>>
      is == Past(Dns.window, LAMBDA g : <<g.src, g.dst>> = pair /\ IsDnsWorth(g))
  IN /\ IsDnsWorth(This)
     /\ \/ BigOnAverage(This)
        \/ Sum(is, "packets") >= Dns.need
           /\ Sum(is, "bytes") > 250 * Sum(is, "packets")
     /\ ~SaidWithin("dns", pair, Dns.cooldown)

\* The baseline of a host: all it ever sent, in megabytes.
Baseline(h) ==
  LET is == {i \in 1..latest : analysed[i].flow.src = h}
      mb(i) == MB(analysed[i].flow.bytes)
  IN [count |-> Cardinality(is), sum |-> MapThenSumSet(mb, is),
      squares |-> MapThenSumSet(LAMBDA i : mb(i) * mb(i), is)]

\* The flows of a conversation, of the first n, since the last time its session
\* was pruned, and those one end sent.
InSessionAt(n, k) ==
  {i \in 1..n : /\ Key(analysed[i].flow) = k
                /\ \A j \in i + 1..n : k \notin analysed[j].forgot}
InSession(k) == InSessionAt(latest, k)
From(k, end) ==
  {i \in InSession(k) : <<analysed[i].flow.src, analysed[i].flow.sport>> = end}
Uploaded == Sum(From(Key(This), <<This.src, This.sport>>), "bytes")
Downloaded == Sum(From(Key(This), <<This.dst, This.dport>>), "bytes")
SenderIsClient ==
  LET first == analysed[Min(InSession(Key(This)))].flow
  IN SourceIsClient(first) <=> <<first.src, first.sport>> = <<This.src, This.sport>>

ExfilIsDue ==
  LET pair == <<This.src, This.dst>>
      is == Past(Exfil.window, LAMBDA g : <<g.src, g.dst>> = pair)
  IN /\ IsOutbound(This)
     /\ \/ This.bytes >= 20000000 \/ Sum(is, "bytes") >= Exfil.need
        \/ This.bytes >= 1000000
           /\ ZAtLeast(Baseline(This.src), This.bytes, BaselineTenths, BaselineNeeds)
     /\ ~SaidWithin("exfil", pair, Exfil.cooldown)

\* The host downloads: what it sent is less than 0.2 of what it received.
ExfilsAreDue ==
  LET said == Said("exfil", <<This.src, This.dst>>)
      download == Downloaded > 0 /\ 5 * Uploaded < Downloaded
  IN /\ said => ExfilIsDue
     /\ ExfilIsDue /\ SenderIsClient => (said <=> ~download)

\* The shape of the flow, and of the last ones of its pair.
IsTlsUpload == This.bytes >= 5000000 /\ This.bytes >= 1150 * Packets(This)
IsTlsBeacon ==
  LET is == SetToSortSeq({i \in 1..latest : /\ BeaconKey(analysed[i].flow) = BeaconKey(This)
                                            /\ IsTlsWorth(analysed[i].flow)}, <)
      last == {i \in DOMAIN is : i > Len(is) - BurstsKept}
      burst(g) == IsBurst([bytes |-> g.bytes, packets |-> Packets(g)])
  IN /\ This.packets \in 5..50 /\ AverageIn(This.bytes, Packets(This), 120, 480)
     /\ Cardinality({i \in last : burst(analysed[is[i]].flow)}) >= 3

TlsIsDue ==
  LET said == Said("tls", BeaconKey(This))
      worth == IsTlsWorth(This) /\ This.src \in Internal /\ This.dst \notin Internal
      mostlyUp == 3 * (Uploaded \div 1000) > 17 * (Downloaded \div 1000)
  IN /\ said => worth /\ (IsTlsUpload \/ IsTlsBeacon)
     /\ worth /\ IsTlsBeacon => said
     /\ worth /\ IsTlsUpload /\ SenderIsClient /\ mostlyUp => said

WebIsDue ==
  LET meta == <<"metadata", This.src, This.dst>>
      dump == <<"database", This.src, This.dport>>
      metaIsDue == This.dst \in Metadata /\ ~SaidWithin("web", meta, WebCooldown)
      dumpIsDue == IsDatabaseDump(This) /\ ~SaidWithin("web", dump, WebCooldown)
  IN /\ Said("web", meta) <=> metaIsDue
     /\ Said("web", dump) <=> dumpIsDue /\ ~metaIsDue

BeaconsAreDue ==
    LET key == BeaconKey(This)
        is == {i \in 1..latest : /\ BeaconKey(analysed[i].flow) = key
                                 /\ IsBeaconWorth(analysed[i].flow)}
        ordered == \A i, j \in is : i < j => analysed[i].ts <= analysed[j].ts
        inside == {i \in is : analysed[latest].ts - analysed[i].ts <= Beacon.window}
        times == [k \in 1..Cardinality(inside) |->
                    [at |-> analysed[SetToSortSeq(inside, <)[k]].ts]]
        spared == \E i \in is \ {latest} :
                    /\ <<"beacon", key>> \in analysed[i].raised
                    /\ analysed[latest].ts - analysed[i].ts < Beacon.cooldown
        due == /\ latest \in is /\ Cardinality(inside) >= Beacon.need /\ ~spared
               /\ Len(Gaps(times)) >= Beacon.need - 1 /\ IsRegular(Gaps(times))
    IN /\ ordered => (Said("beacon", key) <=> due)
       /\ Said("beacon", key) => Cardinality(is) >= Beacon.need

(***************************************************************************)
(* The eight rules that keep state of their own answer as their definition *)
(* over the whole history does: an alert is raised for the flow at hand    *)
(* exactly when the events of its key inside the window suffice and the    *)
(* key was not reported within the cooldown -- nothing stale is counted,   *)
(* nothing recent lost, whatever the other rules, keys and gaps between.   *)
(* Three limits of the code are limits of the claim.                       *)
(*  - A beacon: as long as the times of its connections came in order;     *)
(*    otherwise a report still rests on enough connections.                *)
(*  - The exfiltration rule is silent on a download, and means one of the  *)
(*    host that sends (the comment at bandwidth_exfil.py:109); it asks the *)
(*    ratio of whoever the session takes for the client.  Only where that  *)
(*    is the host itself is its silence what the flows say: where it is    *)
(*    the other end, an upload of five times what came back is silenced.   *)
(*    What it does report is due in either case.                           *)
(*  - The TLS rule wants an upload of 85% of the session (its comment) and *)
(*    takes any whose two directions have that ratio, 46% of the total:    *)
(*    a report has the shape of an upload or of a beacon, and an upload of *)
(*    more than 85%, by the session's client, is never missed.             *)
(* A Sigma rule keeps no state, and is not compared.                       *)
(***************************************************************************)
AlertsMatchHistory ==
  latest > 0 =>
    /\ Said("scan", This.src) <=> ScanIsDue
    /\ Said("flood", <<This.dst, This.dport>>) <=> FloodIsDue
    /\ Said("lateral", This.src) <=> LateralIsDue
    /\ Said("dns", <<This.src, This.dst>>) <=> DnsIsDue
    /\ ExfilsAreDue /\ BeaconsAreDue /\ TlsIsDue /\ WebIsDue

(***************************************************************************)
(* Nobody is exempt from the lateral rule by accident: a source that is    *)
(* neither trusted nor, by the flows seen so far, a host that administers  *)
(* enough others or serves enough clients as a domain controller is        *)
(* judged, whatever roles it had in between.                               *)
(***************************************************************************)
ExemptionIsEarned ==
  \A i \in 1..latest :
    analysed[i].exempt /\ analysed[i].flow.src \notin Trusted =>
      LET h == analysed[i].flow.src
          reached == {analysed[j].flow.dst : j \in
            {k \in 1..i : /\ analysed[k].flow.src = h
                          /\ analysed[k].flow.dport \in ManagementPorts
                          /\ {h, analysed[k].flow.dst} \subseteq Internal}}
          clients(port) == Cardinality({analysed[j].flow.src : j \in
            {k \in 1..i : analysed[k].flow.dst = h /\ analysed[k].flow.dport = port}})
      IN \/ Cardinality(reached) >= RoleNeeds.admin
         \/ \E port \in {88, 389} : clients(port) >= RoleNeeds.dc
         \/ clients(445) >= RoleNeeds.smb

(***************************************************************************)
(* A session keeps the two sides of its conversation apart: what it counts *)
(* as sent and as received is what the flows of each end carried since it  *)
(* began, whichever end was seen first and whatever was pruned in between  *)
(* (a conversation of an end with itself aside); only one idle for longer  *)
(* than the timeout is forgotten; and a handshake is established or reset  *)
(* only by flows of it.                                                    *)
(***************************************************************************)
SessionsKeepSides ==
  /\ \A k \in DOMAIN sessions :
       LET session == sessions[k] IN
       /\ session.client # session.server =>
            /\ session.sent = Sum(From(k, session.client), "bytes")
            /\ session.received = Sum(From(k, session.server), "bytes")
       /\ From(k, session.client) \cup From(k, session.server) = InSession(k)
       /\ session.status = "ESTABLISHED" => From(k, session.server) # {}
       /\ session.status = "RESET" =>
            \E i \in InSession(k) : "RST" \in analysed[i].flow.flags
  /\ latest > 0 =>
       \A k \in analysed[latest].forgot : \A i \in InSessionAt(latest - 1, k) :
         analysed[latest].ts - analysed[i].ts > SessionTimeout
=============================================================================
