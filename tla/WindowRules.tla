----------------------------- MODULE WindowRules -----------------------------
(***************************************************************************)
(* The per-flow rules of detector/rules/ and detector/eta.py as operators. *)
(* Each rule keeps, per key, a sliding window of what it saw and the time  *)
(* of its last alert; given its state d, a flow f and the clock, an        *)
(* operator returns [d |-> its next state, alerts |-> what it raised], a   *)
(* sequence of at most one alert [rule, key, severity].                    *)
(*                                                                         *)
(* The titles, confidences and metrics of the alerts are left out; the     *)
(* sizes and severities that are compared with literals are real.          *)
(***************************************************************************)
EXTENDS BiFlows, HostRoles, SequencesExt

CONSTANTS Scan, Flood, Lateral, Beacon, Exfil, Dns,  \* the rules' parameters
          MinInterval, MaxInterval,  \* mean beacon interval (2 s to 300 s)
          BurstsKept,      \* max_history_per_pair of the TLS rule (20)
          BaselineNeeds,   \* samples the exfiltration rule wants (10)
          BaselineTenths,  \* the z-score it alerts at, in tenths (35)
          Trusted,         \* trusted destinations, authorised sources and
                           \* known resolvers
          Multicast,       \* multicast and broadcast addresses
          Metadata,        \* cloud metadata addresses
          DatabaseNet      \* hosts that may reach the databases

\* need: events, targets, ports or samples; window, cooldown: seconds.
Parameters == [need: Nat \ {0}, window: Nat, cooldown: Nat]
ASSUME RulesAssumption ==
  {Scan, Flood, Lateral, Beacon, Exfil, Dns} \subseteq Parameters

-----------------------------------------------------------------------------
(* Port scan: ports one source touched with probes. *)

Syn(f) == "SYN" \in f.flags
IsProbe(f) == /\ f.proto = 6 /\ f.packets <= 4
              /\ \/ Syn(f) \/ f.flags \in {{"FIN"}, {}}
                 \/ {"FIN", "PSH", "URG"} \subseteq f.flags

PortScan(d, f, now) ==
  LET h == WindowOf(d, f.src, now, Scan.window, [at |-> now, port |-> f.dport])
      ports == Cardinality(Of(h, "port"))
      fires == ports >= Scan.need /\ Cooled(d, f.src, now, Scan.cooldown)
      severity == IF ports >= 30 THEN "HIGH" ELSE "MEDIUM"
  IN IF IsProbe(f) THEN Judged(d, f.src, now, h, fires, Alert("scan", f.src, severity))
     ELSE Quiet(d)

(* SYN flood: bare SYNs one service received. *)

IsBareSyn(f) == f.proto = 6 /\ Syn(f) /\ "ACK" \notin f.flags /\ f.packets <= 4

SynFlood(d, f, now) ==
  LET key == <<f.dst, f.dport>>
      h == WindowOf(d, key, now, Flood.window, [at |-> now, src |-> f.src])
      fires == Len(h) >= Flood.need /\ Cooled(d, key, now, Flood.cooldown)
      severity == IF Len(h) >= 60 THEN "CRITICAL" ELSE "HIGH"
  IN IF IsBareSyn(f) THEN Judged(d, key, now, h, fires, Alert("flood", key, severity))
     ELSE Quiet(d)

(* Exfiltration: bytes an internal host sent to an external one. *)

IsOutbound(f) ==
  f.dst \notin Trusted /\ f.src \in Internal /\ f.dst \notin Internal

\* Enough bytes, in one flow or in the window, or a flow unlike the host's
\* baseline (which holds this flow already).
IsMassive(f, h, p) ==
  \/ f.bytes >= 20000000
  \/ Total(h, "bytes") >= Exfil.need
  \/ ZAtLeast(Samples(p, f.src), f.bytes, BaselineTenths, BaselineNeeds)
     /\ f.bytes >= 1000000

\* The session says its client downloaded: sent / received < 0.2.
LooksLikeDownload(table, f) ==
  /\ Key(f) \in DOMAIN table
  /\ table[Key(f)].received > 0
  /\ 5 * table[Key(f)].sent < table[Key(f)].received

Exfiltration(d, f, now, table, p) ==
  LET key == <<f.src, f.dst>>
      h == WindowOf(d, key, now, Exfil.window, [at |-> now, bytes |-> f.bytes])
      fires == /\ IsMassive(f, h, p) /\ ~LooksLikeDownload(table, f)
               /\ Cooled(d, key, now, Exfil.cooldown)
      volume == IF f.bytes > Total(h, "bytes") THEN f.bytes ELSE Total(h, "bytes")
      severity == IF volume >= 50 * 1024 * 1024 THEN "CRITICAL" ELSE "HIGH"
  IN IF IsOutbound(f) THEN Judged(d, key, now, h, fires, Alert("exfil", key, severity))
     ELSE Quiet(d)
-----------------------------------------------------------------------------
(* DNS tunnel: what one host sent to one server on UDP port 53. *)

Packets(f) == IF f.packets > 1 THEN f.packets ELSE 1
BigOnAverage(f) == f.bytes >= 320 * Packets(f)
\* A known resolver with packets of a normal size is not looked at.
IsDnsWorth(f) ==
  /\ f.proto = 17 /\ f.dport = 53
  /\ ~(f.dst \in Trusted /\ f.packets > 0 /\ ~BigOnAverage(f))

\* analyze_dns_query: a name of high entropy is reported every time.
DnsQuery(f) ==
  IF f.domain = "odd" THEN <<Alert("query", <<f.src, f.dst>>, "HIGH")>> ELSE <<>>

DnsTunnel(d, f, now) ==
  LET key == <<f.src, f.dst>>
      h == WindowOf(d, key, now, Dns.window,
                  [at |-> now, packets |-> f.packets, bytes |-> f.bytes])
      packets == Total(h, "packets")
      average == IF packets > 1 THEN packets ELSE 1
      fires == /\ \/ BigOnAverage(f)
                  \/ packets >= Dns.need /\ Total(h, "bytes") > 250 * average
               /\ Cooled(d, key, now, Dns.cooldown)
      judged == Judged(d, key, now, h, fires, Alert("dns", key, "HIGH"))
  IN IF ~IsDnsWorth(f) THEN Quiet(d)
     ELSE IF fires THEN judged
     ELSE [judged EXCEPT !.alerts = DnsQuery(f)]
-----------------------------------------------------------------------------
(* C2 beacons: connections at regular intervals, by the flows' own time. *)

BeaconKey(f) == <<f.src, f.dst, f.dport>>
IsBeaconWorth(f) == f.bytes <= 500000 /\ f.dst \notin Multicast

\* The positive gaps between one connection and the next, in order of arrival.
Gaps(h) ==
  SelectSeq([i \in 1..Len(h) - 1 |-> h[i + 1].at - h[i].at], LAMBDA g : g > 0)

\* Coefficient of variation at most 0.35, for a mean in the interval: with n
\* gaps of sum S and squares Q, (n Q - S^2) n / ((n - 1) S^2) <= 0.35^2.
IsRegular(gaps) ==
  LET n == Len(gaps)
      S == FoldSeq(+, 0, gaps)
      Q == FoldSeq(LAMBDA g, sum : sum + g * g, 0, gaps)
  IN /\ MinInterval * n <= S /\ S <= MaxInterval * n
     /\ 10000 * n * (n * Q - S * S) <= 1225 * (n - 1) * S * S

Beaconing(d, f, ts) ==
  LET key == BeaconKey(f)
      h == WindowOf(d, key, ts, Beacon.window, [at |-> ts])
      gaps == Gaps(h)
      fires == /\ Len(h) >= Beacon.need
               /\ Cooled(d, key, ts, Beacon.cooldown)
               /\ Len(gaps) >= Beacon.need - 1
               /\ IsRegular(gaps)
      severity == IF f.dst \notin Internal /\ f.dport \notin {80, 443}
                  THEN "CRITICAL" ELSE "HIGH"
  IN IF IsBeaconWorth(f)
     THEN Judged(d, key, ts, h, fires, Alert("beacon", key, severity))
     ELSE Quiet(d)
-----------------------------------------------------------------------------
(* Lateral movement: internal hosts one source reached to administer them. *)

AdminPorts == ManagementPorts \cup {139, 3389, 5986}
IsExempt(f, p) ==
  f.src \in Trusted \/ Role(p, f.src) \in {"ADMIN_MANAGEMENT", "INFRASTRUCTURE_DC"}
IsAdminFlow(f) == /\ {f.src, f.dst} \subseteq Internal /\ f.src # f.dst
                  /\ f.dport \in AdminPorts

LateralMovement(d, f, now, p) ==
  LET h == WindowOf(d, f.src, now, Lateral.window,
                  [at |-> now, dst |-> f.dst, port |-> f.dport])
      targets == Cardinality(Of(h, "dst"))
      ports == Of(h, "port")
      fires == targets >= Lateral.need /\ Cooled(d, f.src, now, Lateral.cooldown)
      severity == IF targets >= 6 \/ {445, 3389} \subseteq ports THEN "CRITICAL"
                  ELSE IF targets >= 4 \/ 445 \in ports THEN "HIGH" ELSE "MEDIUM"
  IN IF IsAdminFlow(f) /\ ~IsExempt(f, p)
     THEN Judged(d, f.src, now, h, fires, Alert("lateral", f.src, severity))
     ELSE Quiet(d)
-----------------------------------------------------------------------------
(* Encrypted traffic: the last flows of a pair on a TLS port; no cooldown. *)

TlsPorts == {443, 8443, 9443}
IsTlsWorth(f) == /\ f.proto = 6 /\ {f.dport, f.sport} \cap TlsPorts # {}
                 /\ ~({f.src, f.dst} \subseteq Internal)

AverageIn(bytes, packets, low, high) ==
  low * packets <= bytes /\ bytes <= high * packets

IsEncryptedUpload(f, table) ==
  /\ f.bytes >= 5000000 /\ f.bytes >= 1150 * Packets(f)
  /\ LET k == Key(f) IN
     ~(k \in DOMAIN table /\ Bidirectional(table[k])
       /\ 20 * (table[k].sent \div 1000) < 17 * (table[k].received \div 1000))

IsBurst(e) == AverageIn(e.bytes, e.packets, 100, 500) /\ e.packets \in 4..60
IsEncryptedBeacon(f, h) ==
  /\ f.packets \in 5..50 /\ AverageIn(f.bytes, Packets(f), 120, 480)
  /\ Len(SelectSeq(h, IsBurst)) >= 3

EncryptedTraffic(d, f, table) ==
  LET key == BeaconKey(f)
      kept == Append(Lookup(d, key, <<>>), [bytes |-> f.bytes, packets |-> Packets(f)])
      h == IF Len(kept) > BurstsKept THEN Tail(kept) ELSE kept
      outward == f.src \in Internal /\ f.dst \notin Internal
  IN IF ~IsTlsWorth(f) THEN Quiet(d)
     ELSE [d |-> Put(d, key, h),
           alerts |-> IF outward /\ (IsEncryptedUpload(f, table) \/ IsEncryptedBeacon(f, h))
                      THEN <<Alert("tls", key, "HIGH")>> ELSE <<>>]
-----------------------------------------------------------------------------
(* East-west: cloud metadata and databases; d is the table of cooldowns. *)

DatabasePorts == {5432, 3306, 6379, 27017, 9200, 5672, 6443}
IsDatabaseDump(f) ==
  /\ f.dport \in DatabasePorts /\ f.src \notin DatabaseNet
  /\ f.dport = 6379 \/ f.bytes > 500000

EastWest(d, f, now, cooldown) ==
  LET meta == <<"metadata", f.src, f.dst>>
      dump == <<"database", f.src, f.dport>>
      raise(k, severity) == [d |-> Put(d, k, now),
                             alerts |-> <<Alert("web", k, severity)>>]
      ready(k) == now - Lookup(d, k, 0) >= cooldown
  IN IF f.dst \in Metadata /\ ready(meta) THEN raise(meta, "CRITICAL")
     ELSE IF IsDatabaseDump(f) /\ ready(dump) THEN raise(dump, "HIGH")
     ELSE Quiet(d)
=============================================================================
