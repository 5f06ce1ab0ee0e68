----------------------------- MODULE PayloadRules -----------------------------
(***************************************************************************)
(* The rules that judge a parsed payload: detector/rules/dga_threat.py     *)
(* with detector/dga.py, ad_threat.py, ja4_threat.py, the HTTP half of     *)
(* web_threat.py, and the entropy test of dns_tunnel.py.  Each takes its   *)
(* state and returns [d, alerts] as in Windows.                            *)
(*                                                                         *)
(* A domain is its sequence of labels, an address <<network, host>>.       *)
(***************************************************************************)
EXTENDS Windows, PayloadParsers

CONSTANTS Features,    \* of the labels whose letters matter
          Benign,      \* BENIGN_WHITELIST_SUFFIXES
          Flux,        \* [window (3600), ips (4), networks (3)]
          Roasting,    \* window of the RC4 requests (60)
          Implants,    \* JA4 and JA3 fingerprints known to be malicious
          Paths,       \* HTTP paths: [auth, tenant, files]
          Tools,       \* KNOWN_BOT_USER_AGENTS: <<[name, severity], ...>>
          Stuffing, Flooding, Hopping, \* [need, window] of the web rules
          Occasional,  \* requests a mild tool may make unnoticed (3)
          Cooldown,    \* alert_cooldown_secs (15)
          CloudHosts   \* CLOUD_METADATA_IPS

Plain == [len |-> 6, bigrams |-> 0, entropy |-> 200, vowels |-> 40, digits |-> 0,
          consonants |-> 2]
Letters(label) == IF label \in DOMAIN Features THEN Features[label] ELSE Plain

\* The label before the last one, on which the language is judged.
Sld(domain) == IF Len(domain) >= 2 THEN domain[Len(domain) - 1] ELSE domain[1]

IsBenign(domain) ==
  \E i \in DOMAIN domain : SubSeq(domain, i, Len(domain)) \in Benign

(***************************************************************************)
(* The DGA score in hundredths.  bigrams is the anomaly of the pairs of    *)
(* letters, vowels and digits their shares and entropy the bits, all in    *)
(* hundredths; consonants is the longest run of them.                      *)
(***************************************************************************)
DgaScore(x) ==
  Min({100,
    (35 * x.bigrams) \div 100
    + (CASE x.entropy >= 360 -> 25 [] x.entropy >= 320 -> 15 [] OTHER -> 0)
    + (CASE x.vowels < 15 \/ x.vowels > 65 -> 20 [] x.vowels < 22 -> 10
         [] OTHER -> 0)
    + (CASE x.consonants >= 5 -> 15 [] x.consonants = 4 -> 8 [] OTHER -> 0)
    + (CASE x.len >= 16 /\ (x.digits > 15 \/ x.bigrams > 60) -> 15
         [] x.len >= 20 -> 10 [] OTHER -> 0)})

IsDga(domain) ==
  ~IsBenign(domain) /\ Letters(Sld(domain)).len > 3 /\ DgaScore(Letters(Sld(domain))) >= 60

DgaQuery(domain, src) ==
  LET severity == IF DgaScore(Letters(Sld(domain))) >= 85 THEN "CRITICAL" ELSE "HIGH"
  IN IF IsDga(domain) THEN <<Alert("dga", <<src, domain>>, severity)>> ELSE <<>>

(***************************************************************************)
(* evaluate_domain_entropy: the longest label below the registered domain  *)
(* (the first of the longest), or the first label.                         *)
(***************************************************************************)
Candidate(domain) ==
  LET below == 1..Len(domain) - 2
      size(i) == Letters(domain[i]).len
  IN IF below = {} THEN domain[1]
     ELSE domain[Min({i \in below : \A j \in below : size(j) <= size(i)})]

IsTunnelName(domain) ==
  LET x == Letters(Candidate(domain))
  IN x.len >= 8 /\ \/ x.entropy >= 385
                   \/ x.entropy >= 350 /\ (x.vowels < 15 \/ x.digits > 35)
                   \/ x.len >= 25 /\ x.entropy >= 340

TunnelQuery(domain, src) ==
  IF IsTunnelName(domain) THEN <<Alert("tunnel", <<src, domain>>, "HIGH")>> ELSE <<>>

(***************************************************************************)
(* Fast flux: the resolutions of a domain.  The window is closed on both   *)
(* sides (e[0] >= cutoff); the mean of the TTLs is compared exactly.       *)
(***************************************************************************)
FluxResponse(d, domain, ips, ttl, now) ==
  LET new == [i \in DOMAIN ips |-> [at |-> now, ip |-> ips[i], ttl |-> ttl]]
      h == Recent(Lookup(d, domain, <<>>) \o new, now, Flux.window)
      fast == /\ Cardinality(Of(h, "ip")) >= Flux.ips
              /\ Total(h, "ttl") <= 300 * Len(h)
              /\ Cardinality({ip[1] : ip \in Of(h, "ip")}) >= Flux.networks
  IN [d |-> Put(d, domain, h),
      alerts |-> IF fast THEN <<Alert("flux", domain, "HIGH")>> ELSE <<>>]

\* evaluate_tls_hello
ImplantHello(h, src, proto) ==
  IF Ja4(h, proto) \in Implants.ja4 \/ Ja3(h) \in Implants.ja3
  THEN <<Alert("ja4", src, "CRITICAL")>> ELSE <<>>

(***************************************************************************)
(* evaluate_kerberos: a ticket asked without preauthentication; RC4        *)
(* tickets for several services, for a database, or again and again.       *)
(***************************************************************************)
Kerberos(d, m, src, now) ==
  LET h == Recent(Append(Lookup(d, src, <<>>), [at |-> now, spn |-> m.spns]), now, Roasting)
      roasts == \/ Cardinality(Of(h, "spn")) >= 2 \/ Len(h) >= 3
                \/ "MSSQLSvc" \in m.spns
  IN CASE m.name = "AS-REQ" /\ ~m.preauth ->
            [d |-> d, alerts |-> <<Alert("asrep", src, "HIGH")>>]
       [] m.name = "TGS-REQ" /\ m.rc4 ->
            [d |-> Put(d, src, h),
             alerts |-> IF roasts THEN <<Alert("roast", src, "CRITICAL")>> ELSE <<>>]
       [] OTHER -> Quiet(d)

\* evaluate_dcerpc
Rpc(interface, src) ==
  CASE interface = "drsuapi" -> <<Alert("dcsync", src, "CRITICAL")>>
    [] interface = "svcctl" -> <<Alert("psexec", src, "HIGH")>>
    [] OTHER -> <<>>
-----------------------------------------------------------------------------
(***************************************************************************)
(* The web rule: stages in order, each of which may raise the alert of the *)
(* message and end its inspection.  The state is [auth, flood, tenant,     *)
(* last]; an alert whose key is cooling down lets the message through to   *)
(* the next stage.                                                         *)
(***************************************************************************)
NoWeb == [auth |-> <<>>, flood |-> <<>>, tenant |-> <<>>, last |-> <<>>]

\* _is_cooling_down, and the alert when it is not.
Raised(d, key, now, severity) ==
  IF now - Lookup(d.last, key, 0) < Cooldown THEN Quiet(d)
  ELSE [d |-> [d EXCEPT !.last = Put(@, key, now)],
        alerts |-> <<Alert("web", key, severity)>>]

\* The first of several keys, in order, that is not cooling down; each comes
\* with its severity.
FirstRaised(d, candidates, now) ==
  FoldLeft(LAMBDA r, c : IF r.alerts # <<>> THEN r ELSE Raised(r.d, c[1], now, c[2]),
           Quiet(d), candidates)

\* A window in which more than enough makes an alert.
Sliding(history, now, rule, event) ==
  Append(Recent(history, now, rule.window), event)

IsAuth(m) == Paths[m.path].auth /\ m.method \in {"POST", "PUT"}

SsrfStage(d, m, src, dst, now) ==
  IF dst \in CloudHosts \/ HeaderValue(m, {"host"}) \in CloudHosts
  THEN Raised(d, <<"ssrf", src, dst>>, now, "CRITICAL") ELSE Quiet(d)

AuthStage(d, m, src, now) ==
  LET h == Sliding(Lookup(d.auth, src, <<>>), now, Stuffing, [at |-> now])
      kept == [d EXCEPT !.auth = Put(@, src, h)]
  IN IF ~IsAuth(m) THEN Quiet(d)
     ELSE IF Len(h) < Stuffing.need THEN Quiet(kept)
     ELSE Raised(kept, <<"stuffing", src, m.path>>, now, "CRITICAL")

FloodStage(d, src, now) ==
  LET h == Sliding(Lookup(d.flood, src, <<>>), now, Flooding, [at |-> now])
      kept == [d EXCEPT !.flood = Put(@, src, h)]
  IN IF Len(h) < Flooding.need THEN Quiet(kept)
     ELSE Raised(kept, <<"flood", src>>, now, "HIGH")

\* The tenant of the first header that names one, else of the path.
TenantOf(m) ==
  LET header == HeaderValue(m, {"x-tenant-id", "x-tenant", "x-org-id"})
  IN IF header # "" THEN header ELSE Paths[m.path].tenant

\* Mutant: every request counts for its tenant once, however old.
TenantStageForever(d, m, src, now) ==
  LET h == Append(Lookup(d.tenant, src, <<>>), [at |-> now, tenant |-> TenantOf(m)])
      kept == [d EXCEPT !.tenant = Put(@, src, h)]
  IN IF TenantOf(m) = "" THEN Quiet(d)
     ELSE IF Cardinality(Of(h, "tenant")) < Hopping.need THEN Quiet(kept)
     ELSE Raised(kept, <<"hopping", src>>, now, "CRITICAL")

TenantStage(d, m, src, now) ==
  LET h == Sliding(Lookup(d.tenant, src, <<>>), now, Hopping,
                   [at |-> now, tenant |-> TenantOf(m)])
      kept == [d EXCEPT !.tenant = Put(@, src, h)]
  IN IF TenantOf(m) = "" THEN Quiet(d)
     ELSE IF Cardinality(Of(h, "tenant")) < Hopping.need THEN Quiet(kept)
     ELSE Raised(kept, <<"hopping", src>>, now, "CRITICAL")

\* Tools by the patterns in the user agent; the mild ones are only reported
\* once their source has made more than occasional requests.
ToolStage(d, m, src, now) ==
  LET many == Len(Lookup(d.flood, src, <<>>)) > Occasional
      seen(t) == /\ t.name \in m.agent
                 /\ t.severity \in {"CRITICAL", "HIGH"} \/ many
      tools == SelectSeq(Tools, seen)
  IN FirstRaised(d, [i \in DOMAIN tools |->
                       <<<<"tool", src, tools[i].name>>, tools[i].severity>>], now)

InjectionStage(d, m, src, now) ==
  FirstRaised(d, [i \in DOMAIN m.sqli |-> <<<<"sqli", src, m.sqli[i]>>, "CRITICAL">>], now)

FilesStage(d, m, src, now) ==
  LET files == Paths[m.path].files
  IN FirstRaised(d, [i \in DOMAIN files |-> <<<<"file", src, files[i]>>, "HIGH">>], now)

Http(d, m, src, dst, now) ==
  LET stage(name, e) == CASE name = "ssrf"      -> SsrfStage(e, m, src, dst, now)
                          [] name = "auth"      -> AuthStage(e, m, src, now)
                          [] name = "flood"     -> FloodStage(e, src, now)
                          [] name = "tenant"    -> TenantStage(e, m, src, now)
                          [] name = "tool"      -> ToolStage(e, m, src, now)
                          [] name = "injection" -> InjectionStage(e, m, src, now)
                          [] name = "files"     -> FilesStage(e, m, src, now)
  IN FoldLeft(LAMBDA r, name : IF r.alerts # <<>> THEN r ELSE stage(name, r.d), Quiet(d),
              <<"ssrf", "auth", "flood", "tenant", "tool", "injection", "files">>)
=============================================================================
