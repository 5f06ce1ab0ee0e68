---------------------------- MODULE MCFlowEngine ----------------------------
EXTENDS FlowEngine

(***************************************************************************)
(* w is a workstation, s, t and u internal servers, r a known resolver, x  *)
(* an external host, m the cloud metadata address.                         *)
(***************************************************************************)
CONSTANTS w, s, t, u, r, x, m

MCInternal == {w, s, t, u}
MCTrusted == {r}
MCMetadata == {m}

Tcp(src, dst, sport, dport, flags, packets, bytes) ==
  [src |-> src, dst |-> dst, sport |-> sport, dport |-> dport, proto |-> 6,
   flags |-> flags, packets |-> packets, bytes |-> bytes, late |-> 0,
   domain |-> "none"]
Udp(src, dst, dport, packets, bytes, domain) ==
  [Tcp(src, dst, 50000, dport, {}, packets, bytes)
     EXCEPT !.proto = 17, !.domain = domain]
SynTo(src, dst, dport) == Tcp(src, dst, 50000, dport, {"SYN"}, 1, 60)
Data(src, dst, sport, dport, bytes) ==
  Tcp(src, dst, sport, dport, {"ACK"}, 10000, bytes)
Late(f, by) == [f EXCEPT !.late = by]

\* A host that reaches others to administer them, one of which answers.
Sweep == {SynTo(w, s, 445), SynTo(w, t, 22), SynTo(w, u, 3389),
          Tcp(s, w, 445, 50000, {"SYN", "ACK"}, 1, 60)}
\* Probes of several ports from two hosts, one of them closed.
Probes == {SynTo(w, s, 80), SynTo(w, s, 81), SynTo(t, s, 80),
           Tcp(s, w, 81, 50000, {"RST"}, 1, 60)}
\* Uploads and a download between one host and an external one.
Transfers == {Data(w, x, 50000, 443, 30000000), Data(x, w, 443, 50000, 60000000),
              Data(w, x, 443, 50000, 25000000), Data(w, x, 50000, 80, 1000000)}
\* Small flows at regular intervals, some with a late timestamp, and names.
Beacons == {Tcp(w, x, 50000, 8443, {"ACK"}, 10, 3000),
            Late(Tcp(w, x, 50000, 8443, {"ACK"}, 10, 3000), 2),
            Udp(w, x, 53, 2, 520, "odd")}
\* DNS of several sizes, to a resolver and elsewhere.
Names == {Udp(w, r, 53, 1, 100, "odd"), Udp(w, r, 53, 1, 400, "plain"),
          Udp(w, x, 53, 2, 520, "plain"), Udp(w, x, 53, 1, 90, "none")}
\* A domain controller's clients, which it then administers.
Domain == {SynTo(t, s, 88), SynTo(u, s, 88), SynTo(s, t, 22), SynTo(s, u, 22)}
\* Databases and the metadata address.
Cloud == {SynTo(w, m, 80), SynTo(w, s, 6379), Data(w, s, 50000, 5432, 600000)}

MCScenes == {Sweep, Probes, Transfers, Beacons, Names, Domain, Cloud}

Rule3(need, window, cooldown) ==
  [need |-> need, window |-> window, cooldown |-> cooldown]
MCScan == Rule3(2, 2, 3)
MCFlood == Rule3(2, 1, 3)
MCLateral == Rule3(2, 2, 4)
MCBeacon == Rule3(3, 4, 3)
MCExfil == Rule3(50000000, 2, 3)
MCDns == Rule3(4, 2, 3)
MCRoleNeeds == [dc |-> 2, smb |-> 2, dns |-> 2, admin |-> 3, web |-> 2, db |-> 2]

\* rules/sigma/sigma_c2_unusual_ports.yaml, with the port it shares with TLS,
\* and sigma_dns_large_payload.yaml with a size that the flows above reach.
MCSigma ==
  {[id |-> "c2_ports", level |-> "high",
    selection |-> [dst_port |-> [oneOf |-> {8080, 8443}],
                   protocol |-> [oneOf |-> {6}],
                   upload_ratio |-> [tenths |-> 7],
                   direction |-> [oneOf |-> {"outbound"}]]]}
=============================================================================
