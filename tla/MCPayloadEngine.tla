--------------------------- MODULE MCPayloadEngine ---------------------------
EXTENDS PayloadEngine

(***************************************************************************)
(* c and d are clients, v a server, m the cloud metadata address.          *)
(***************************************************************************)
CONSTANTS c, d, v, m

None == [kind |-> "none"]
To(src, dst, dport, payload) ==
  [src |-> src, dst |-> dst, sport |-> 50000, dport |-> dport, proto |-> 6,
   domain |-> <<>>, payload |-> payload]
From(f) == [f EXCEPT !.src = f.dst, !.dst = f.src, !.sport = f.dport, !.dport = f.sport]

\* Web requests: by method and path, with a tenant and a user agent.
Web(method, path, headers, agent, sqli) ==
  [kind |-> "http", method |-> method, path |-> path, headers |-> headers,
   agent |-> agent, sqli |-> sqli]
Tenant(name, value) == [name |-> name, lower |-> "x-tenant-id", value |-> value]
Login == To(c, v, 443, Web("POST", "/login", <<>>, {}, <<>>))
MCPaths == [path \in {"/", "/login", "/orgs/b", "/.env"} |->
  [auth |-> path = "/login", tenant |-> IF path = "/orgs/b" THEN "b" ELSE "",
   files |-> IF path = "/.env" THEN <<".env">> ELSE <<>>]]
MCTools == <<[name |-> "sqlmap", severity |-> "CRITICAL"],
             [name |-> "curl", severity |-> "LOW"]>>
Requests ==
  {Login, To(c, v, 443, Web("GET", "/", <<Tenant("X-Tenant", "a")>>, {"curl"}, <<>>)),
   To(c, v, 80, Web("GET", "/orgs/b", <<>>, {}, <<>>))}
Logins == {Login, [Login EXCEPT !.src = d]}
Attacks ==
  {Login, To(c, m, 80, Web("GET", "/.env", <<>>, {"curl"}, <<>>)),
   To(c, v, 80, Web("GET", "/.env", <<>>, {"sqlmap", "curl"}, <<"union", "--">>)),
   From(To(c, v, 80, Web("RESPONSE", "/", <<Tenant("X-Org", ""), Tenant("X-Tenant", "a"),
                                           Tenant("X-Org", "c")>>, {}, <<>>)))}

Ticket(src, name, integers, spns) ==
  To(src, v, 88, [kind |-> "krb", name |-> name, integers |-> integers, spns |-> spns])
Rpcs(type, interface) == [kind |-> "rpc", ptype |-> type, interface |-> interface]
Roasts ==
  {Ticket(c, "TGS-REQ", {23}, {"HTTP"}), Ticket(c, "TGS-REQ", {23, 18}, {"CIFS"}),
   Ticket(d, "TGS-REQ", {23}, {"HTTP"}), Ticket(d, "TGS-REQ", {23}, {"MSSQLSvc"})}
Identity ==
  Roasts \cup {Ticket(d, "AS-REQ", {18}, {}), Ticket(c, "AS-REQ", {2, 18}, {})}
Binds ==
  {To(c, v, 445, Rpcs("bind", "svcctl")), To(c, v, 135, Rpcs("request", "drsuapi")),
   To(c, v, 445, Rpcs("ack", "drsuapi")), To(c, v, 80, Rpcs("bind", "svcctl"))}

Names == {<<"shop", "com">>, <<"qx", "shop", "com">>, <<"google", "com">>}
Resolved(ips, ttl) ==
  From(To(c, v, 53,
    [kind |-> "dns", response |-> TRUE, qd |-> 1, an |-> Len(ips),
     cells |-> <<Label("shop"), Label("com"), End, Question>>
               \o FlattenSeq([i \in DOMAIN ips |->
                    <<Pointer(1), Answer(ips[i][1], ttl, ips[i][2])>>])]))
Resolutions ==
  {Resolved(<<<<"A", <<1, 1>>>>, <<"CNAME", <<0, 0>>>>>>, 0),
   Resolved(<<<<"A", <<2, 1>>>>>>, 600), Resolved(<<<<"A", <<3, 1>>>>>>, 100),
   Resolved(<<>>, 0)}
\* The letters of two generated names and of a long label.
MCFeatures ==
  [qxvkjzw |-> [len |-> 14, bigrams |-> 100, entropy |-> 370, vowels |-> 0, digits |-> 0,
                consonants |-> 7],
   loong |-> [len |-> 30, bigrams |-> 40, entropy |-> 345, vowels |-> 30, digits |-> 10,
              consonants |-> 2],
   com |-> [len |-> 3, bigrams |-> 50, entropy |-> 158, vowels |-> 33, digits |-> 0,
            consonants |-> 1]]
Asked(domain) == [To(c, v, 53, None) EXCEPT !.domain = domain, !.proto = 17]
\* A question whose name points back to itself.
Cycle == [kind |-> "dns", response |-> FALSE, qd |-> 2, an |-> 0,
          cells |-> <<Label("qxvkjzw"), Pointer(1), Question>>]
Queries == {Asked(<<"qxvkjzw", "com">>), Asked(<<"loong", "www", "shop", "com">>),
            Asked(<<"qxvkjzw", "google", "com">>), Asked(<<"com">>), To(d, v, 53, Cycle),
            From(To(c, v, 53, [Cycle EXCEPT !.response = TRUE]))}

Hello(ciphers, extensions) ==
  [kind |-> "tls", version |-> 771, ciphers |-> ciphers, extensions |-> extensions,
   groups |-> <<29>>, points |-> <<0>>, signatures |-> <<1027>>, versions |-> <<2570, 772>>,
   sni |-> "name", alpn |-> "h2"]
Implant == Hello(<<4865, 4866>>, <<0, 10, 16>>)
MCImplantHellos == {Implant}
MCImplants == [ja4 |-> {Ja4(ParsedHello(h), "t") : h \in MCImplantHellos}, ja3 |-> {}]
Hellos == {To(c, v, 443, Implant),
           To(d, v, 9000, Hello(<<2570, 4866, 4865>>, <<16, 10, 2570, 0>>)),
           To(c, v, 443, Hello(<<4865>>, <<0, 10, 16>>)),
           To(d, v, 8443, Hello(<<4865, 4866>>, <<0, 10, 16, 23>>)),
           [To(d, v, 8443, Implant) EXCEPT !.proto = 17]}

Scene(flows, most) == [flows |-> flows, most |-> most]
MCScenes == {Scene(Requests, 5), Scene(Requests \cup Logins, 4), Scene(Attacks, 4),
             Scene(Roasts, 4), Scene(Identity, 3), Scene(Binds, 2),
             Scene(Resolutions, 4), Scene(Queries, 2), Scene(Hellos, 2)}

MCNameLists == UNION {[1..k -> Names \cup {<<>>}] : k \in 0..3}

MCBenign == {<<"google", "com">>}
MCFlux == [window |-> 3, ips |-> 2, networks |-> 2]
MCStuffing == [need |-> 2, window |-> 2]
MCFlooding == [need |-> 3, window |-> 1]
MCHopping == [need |-> 2, window |-> 3]
=============================================================================
