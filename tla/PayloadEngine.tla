---------------------------- MODULE PayloadEngine ----------------------------
(***************************************************************************)
(* DetectionEngine._inspect_l7_flow (detector/engine.py): the payload and  *)
(* the domain of a flow are parsed and judged by the rules of its ports,   *)
(* whose windows and cooldowns are the state.                              *)
(*                                                                         *)
(* A flow is a record [src, dst, sport, dport, proto, domain, payload];    *)
(* <<>> is no domain.                                                      *)
(***************************************************************************)
EXTENDS PayloadRules

CONSTANTS Scenes,      \* records [flows, most]: traffic and its bound
          Delays,      \* seconds between one flow and the next
          NameLists,   \* lists of names that a DNS message may ask for
          ImplantHellos \* the ClientHellos of the implants

VARIABLES scene,    \* the traffic of this behaviour (never changes)
          clock,    \* time.time(), starting beyond every cooldown
          flux,     \* dga_threat_detector.flux_tracker._history
          tickets,  \* ad_threat_detector._tgs_rc4_history
          web,      \* web_threat_detector
          log       \* history: the flows and the alerts each raised

vars == <<scene, clock, flux, tickets, web, log>>

Init == /\ scene \in Scenes /\ clock = 1000
        /\ flux = <<>> /\ tickets = <<>> /\ web = NoWeb /\ log = <<>>

IsDnsFlow(f) == 53 \in {f.dport, f.sport} \/ f.domain # <<>>
NoDns == [response |-> FALSE, queries |-> <<>>, ips |-> <<>>, minTtl |-> 0]
DnsOf(f) == IF IsDnsFlow(f) /\ f.payload.kind = "dns" THEN ParsedDns(f.payload)
            ELSE NoDns

\* The resolutions of a response, one query after the other; a TTL of 0 is
\* taken for 30.
FluxOf(d, f, now) ==
  LET message == DnsOf(f)
      ttl == IF message.minTtl = 0 THEN 30 ELSE message.minTtl
      step(r, q) == LET answer == FluxResponse(r.d, q, message.ips, ttl, now)
                    IN [d |-> answer.d, alerts |-> r.alerts \o answer.alerts]
  IN IF message.response /\ message.ips # <<>> THEN FoldLeft(step, Quiet(d), message.queries)
     ELSE Quiet(d)

\* Every name asked, once: as a DGA name, else as a tunnel.
QueriesOf(f) == ToSet(DnsOf(f).queries)
                \cup (IF f.domain = <<>> THEN {} ELSE {f.domain})
NameAlerts(f) ==
  LET of(q) == IF DgaQuery(q, f.src) # <<>> THEN DgaQuery(q, f.src)
               ELSE TunnelQuery(q, f.src)
  IN IF IsDnsFlow(f) THEN FlattenSeq(SetToSeq({of(q) : q \in QueriesOf(f)})) ELSE <<>>

Transport(f) == IF f.proto = 6 THEN "t" ELSE "q"

Inspect(f, gap) ==
  LET now == clock + gap
      p == f.payload
      resolved == FluxOf(flux, f, now)
      hello == IF p.kind = "tls" THEN ImplantHello(ParsedHello(p), f.src, Transport(f))
               ELSE <<>>
      ticket == IF f.dport = 88 /\ p.kind = "krb"
                THEN Kerberos(tickets, ParsedKerberos(p), f.src, now) ELSE Quiet(tickets)
      rpc == IF f.dport \in {135, 445} /\ p.kind = "rpc" THEN Rpc(ParsedRpc(p), f.src)
             ELSE <<>>
      http == IF p.kind = "http" THEN Http(web, p, f.src, f.dst, now) ELSE Quiet(web)
      alerts == resolved.alerts \o NameAlerts(f) \o hello \o ticket.alerts \o rpc
                \o http.alerts
  IN /\ Len(log) < scene.most
     /\ clock' = now
     /\ flux' = resolved.d /\ tickets' = ticket.d /\ web' = http.d
     /\ log' = Append(log, [flow |-> f, at |-> now, raised |-> ToSet(alerts)])
     /\ UNCHANGED scene

Next == \E f \in scene.flows, gap \in Delays : Inspect(f, gap)

Spec == Init /\ [][Next]_vars
-----------------------------------------------------------------------------
n == Len(log)
This == log[n].flow
Keys(i) == {<<a.rule, a.key>> : a \in log[i].raised}
Past(window, Like(_)) ==
  {i \in 1..n : Like(i) /\ log[n].at - log[i].at <= window}
Within(key) == \E i \in 1..n - 1 : <<"web", key>> \in Keys(i)
                                   /\ log[n].at - log[i].at < Cooldown

\* Was a message of the source stopped before a stage by an earlier alert?
Reached(i, stages) ==
  /\ log[i].flow.payload.kind = "http" /\ log[i].flow.src = This.src
  /\ \A a \in log[i].raised : a.rule = "web" => a.key[1] \notin stages

RequestsAreCounted ==
  n > 0 /\ This.payload.kind = "http" =>
    LET message == This.payload
        logins == Past(Stuffing.window, LAMBDA i :
                    Reached(i, {"ssrf"}) /\ IsAuth(log[i].flow.payload))
        requests == Past(Flooding.window, LAMBDA i : Reached(i, {"ssrf", "stuffing"}))
        visits == Past(Hopping.window, LAMBDA i :
                    Reached(i, {"ssrf", "stuffing", "flood"})
                    /\ TenantOf(log[i].flow.payload) # "")
        tenants == {TenantOf(log[i].flow.payload) : i \in visits}
        stuffing == <<"stuffing", This.src, message.path>>
    IN /\ <<"web", stuffing>> \in Keys(n) <=>
            /\ n \in logins /\ Cardinality(logins) >= Stuffing.need
            /\ ~Within(stuffing)
       /\ <<"web", <<"flood", This.src>>>> \in Keys(n) <=>
            /\ n \in requests /\ Cardinality(requests) >= Flooding.need
            /\ ~Within(<<"flood", This.src>>)
       /\ <<"web", <<"hopping", This.src>>>> \in Keys(n) <=>
            /\ n \in visits /\ Cardinality(tenants) >= Hopping.need
            /\ ~Within(<<"hopping", This.src>>)

IsRc4(i) == LET p == log[i].flow.payload
            IN /\ log[i].flow.dport = 88 /\ p.kind = "krb" /\ p.name = "TGS-REQ"
               /\ 23 \in p.integers /\ log[i].flow.src = This.src

BurstsMatchHistory ==
  n > 0 =>
    LET rc4 == Past(Roasting, IsRc4)
        spns == {log[i].flow.payload.spns : i \in rc4}
        answers(q) == Past(Flux.window, LAMBDA i :
                        DnsOf(log[i].flow).response /\ q \in ToSet(DnsOf(log[i].flow).queries))
        ips(q) == UNION {ToSet(DnsOf(log[i].flow).ips) : i \in answers(q)}
        ttl(i) == LET t == DnsOf(log[i].flow).minTtl IN IF t = 0 THEN 30 ELSE t
        weight(i) == Len(DnsOf(log[i].flow).ips)
    IN /\ <<"roast", This.src>> \in Keys(n) <=>
            /\ n \in rc4
            /\ Cardinality(spns) >= 2 \/ Cardinality(rc4) >= 3
               \/ "MSSQLSvc" \in This.payload.spns
       /\ \A q \in QueriesOf(This) :
            <<"flux", q>> \in Keys(n) <=>
              /\ n \in answers(q) /\ DnsOf(This).ips # <<>>
              /\ Cardinality(ips(q)) >= Flux.ips
              /\ Cardinality({ip[1] : ip \in ips(q)}) >= Flux.networks
              /\ MapThenSumSet(LAMBDA i : weight(i) * ttl(i), answers(q))
                   <= 300 * MapThenSumSet(weight, answers(q))

(***************************************************************************)
(* Every HTTP message of a source inside a window counts for the rate      *)
(* rules, unless it was itself reported by an earlier stage: credential    *)
(* stuffing, floods and tenant hopping are raised exactly when the history *)
(* says so and their key is not cooling down, with sources, paths, tenants *)
(* and reports interleaved in any way (early returns: web_threat.py:133,   *)
(* 170, 204).                                                              *)
(*                                                                         *)
(* A source is reported for roasting tickets exactly when its RC4 requests *)
(* inside the window are for two services, or three in number, or for a    *)
(* database, whatever the others ask in between; a domain for fast flux    *)
(* exactly when the addresses and networks it resolved to inside the       *)
(* window suffice and their TTLs are low on average.                       *)
(***************************************************************************)
RulesMatchHistory == RequestsAreCounted /\ BurstsMatchHistory

\* The cells of a list of names, each the continuation of an earlier one
\* where that has the same ending.
Written(names) ==
  LET put(w, name) ==
        LET tails == {i \in DOMAIN name :
                        SubSeq(name, i, Len(name)) \in DOMAIN w.places}
            cut == IF tails = {} THEN Len(name) + 1 ELSE Min(tails)
            labels == [i \in 1..cut - 1 |-> Label(name[i])]
            rest == IF tails = {} THEN End ELSE Pointer(w.places[SubSeq(name, cut, Len(name))])
        IN [cells |-> w.cells \o labels \o <<rest, Question>>,
            places |-> w.places
              @@ [t \in {SubSeq(name, i, Len(name)) : i \in 1..cut - 1} |->
                    Len(w.cells) + Len(name) - Len(t) + 1]]
  IN FoldLeft(put, [cells |-> <<>>, places |-> <<>>], names).cells

(***************************************************************************)
(* A DNS message that asks for some names, compressed as RFC 1035 allows   *)
(* and possibly cut short, is read as those of its names whose question is *)
(* in it: the pointers neither lose labels nor move the place at which the *)
(* next question is read.                                                  *)
(***************************************************************************)
NamesAreRead ==
  n = 0 =>
    \A names \in NameLists : \A cut \in 0..Len(Written(names)) :
      LET cells == SubSeq(Written(names), 1, cut)
          asked == Cardinality({i \in DOMAIN cells : cells[i].cell = "question"})
          message == [response |-> FALSE, qd |-> Len(names), an |-> 0, cells |-> cells]
      IN ParsedDns(message).queries =
           SelectSeq(SubSeq(names, 1, asked), LAMBDA name : name # <<>>)

\* The same values, as many times each, but for the reserved ones.
SameBag(s, t) ==
  LET times(u, v) == Cardinality({i \in DOMAIN u : u[i] = v})
  IN \A v \in (ToSet(s) \cup ToSet(t)) \ Grease : times(s, v) = times(t, v)

(***************************************************************************)
(* A ClientHello is taken for an implant's exactly when it is that of one: *)
(* the order of its ciphers and extensions and reserved values among them  *)
(* change nothing, a cipher or an extension more does.                     *)
(***************************************************************************)
ImplantIsRecognised ==
  n > 0 /\ This.payload.kind = "tls" =>
    (<<"ja4", This.src>> \in Keys(n) <=>
       \E k \in ImplantHellos :
         /\ SameBag(k.ciphers, This.payload.ciphers)
         /\ SameBag(k.extensions, This.payload.extensions)
         /\ Greaseless(k.signatures) = Greaseless(This.payload.signatures)
         /\ EffectiveVersion(ParsedHello(k)) = EffectiveVersion(ParsedHello(This.payload))
         /\ k.sni = This.payload.sni /\ k.alpn = This.payload.alpn
         /\ This.proto = 6)
=============================================================================
