---------------------------- MODULE EntityLedger ----------------------------
(***************************************************************************)
(* EntityLedger (detector/entity.py) under its callers: DHCP leases from   *)
(* DHCPLeaseTracker (detector/dhcp_tracker.py) and the API, and alerts     *)
(* from the engine and from api/state.py.  An entity is an asset found by  *)
(* MAC, host name or IP through three indexes; its threat score halves     *)
(* with every half-life.  Entities are numbered in creation order.         *)
(***************************************************************************)
EXTENDS Naturals, Sequences, FiniteSets, Functions, FiniteSetsExt

CONSTANTS Ips, Macs, Hosts,  \* addresses and names
          None,              \* no MAC, no host name, no entity
          Weights,           \* SEVERITY_SCORE_WEIGHTS: the set of its values
          MaxLeases,         \* bound: leases
          MaxAlerts,         \* bound: alerts
          MaxTime            \* bound: half-lives that pass

VARIABLES entities,  \* _entities
          ipIndex,   \* _ip_index, 0 for an IP without entity
          macIndex,  \* _mac_index
          hostIndex, \* _hostname_index
          now,       \* the clock, in half-lives
          alerts,    \* history: for each alert its source and entity
          leases     \* history: the leases, each with the entity it got and
                     \* what that entity was found by

vars == <<entities, ipIndex, macIndex, hostIndex, now, alerts, leases>>

Init == /\ entities = <<>> /\ now = 0 /\ alerts = <<>> /\ leases = <<>>
        /\ ipIndex = [i \in Ips |-> 0]
        /\ macIndex = [m \in Macs |-> 0] /\ hostIndex = [h \in Hosts |-> 0]

Ledger == [entities |-> entities, ip |-> ipIndex, mac |-> macIndex, host |-> hostIndex]
Become(l) == /\ entities' = l.entities /\ ipIndex' = l.ip
             /\ macIndex' = l.mac /\ hostIndex' = l.host

\* The powers of two.
TwoTo[k \in 0..MaxTime] == IF k = 0 THEN 1 ELSE 2 * TwoTo[k - 1]

\* Scores are kept in units of 1/2^MaxTime, so that halving is exact.
NewEntity(ip, mac, host) == [ip |-> ip, mac |-> mac, host |-> host, past |-> <<>>,
                             raw |-> 0, updated |-> now, alerts |-> {}]

\* record_ip.
RecordIp(e, ip) ==
  IF ip = e.ip THEN e ELSE [e EXCEPT !.ip = ip, !.past = Append(@, e.ip)]

\* The look-up of get_or_create: MAC, then host name, then IP.
Find(l, ip, mac, host) ==
  IF mac # None /\ l.mac[mac] # 0 THEN l.mac[mac]
  ELSE IF host # None /\ l.host[host] # 0 THEN l.host[host] ELSE l.ip[ip]

SetIndex(index, key, e) == IF key = None THEN index ELSE [index EXCEPT ![key] = e]

\* Mutant: a MAC is added to an entity that has one already.
LearnsMacAlways(e, mac) == mac # None
\* An entity learns a MAC once.
LearnsMac(e, mac) == mac # None /\ e.mac = None

\* get_or_create: the ledger afterwards and the entity.  An entity that is
\* found gets the IP, but not the entry of the IP in the index.
GetOrCreate(l, ip, mac, host) ==
  LET n == Find(l, ip, mac, host)
  IN  IF n # 0
      THEN LET e == l.entities[n]
               learnsHost == host # None /\ e.host = None
           IN  [id |-> n,
                ledger |-> [l EXCEPT
                  !.entities[n] = [RecordIp(e, ip) EXCEPT
                     !.mac = IF LearnsMac(e, mac) THEN mac ELSE @,
                     !.host = IF learnsHost THEN host ELSE @],
                  !.mac = IF LearnsMac(e, mac) THEN SetIndex(@, mac, n) ELSE @,
                  !.host = IF learnsHost THEN SetIndex(@, host, n) ELSE @]]
      ELSE LET new == Len(l.entities) + 1
           IN  [id |-> new,
                ledger |-> [entities |-> Append(l.entities, NewEntity(ip, mac, host)),
                            ip |-> [l.ip EXCEPT ![ip] = new],
                            mac |-> SetIndex(l.mac, mac, new),
                            host |-> SetIndex(l.host, host, new)]]

\* The index entry that a move of entity n removes: that of its old IP, unless
\* it points to another entity by now.
Releases(l, n) ==
  IF l.ip[l.entities[n].ip] = n THEN l.entities[n].ip ELSE None

\* reassign_ip_lease.
Reassign(l, mac, ip, host) ==
  LET n   == l.mac[mac]
      old == Releases(l, n)
  IN  IF n = 0 THEN GetOrCreate(l, ip, mac, host)
      ELSE [id |-> n,
            ledger |-> [l EXCEPT
              !.entities[n] = [RecordIp(l.entities[n], ip) EXCEPT
                                 !.host = IF host = None THEN @ ELSE host],
              !.ip = [i \in Ips |-> IF i = ip THEN n ELSE IF i = old THEN 0 ELSE l.ip[i]],
              !.host = SetIndex(@, host, n)]]

\* What a lease finds its entity by: "new" for one that makes it.
FoundBy(l, ip, mac, host) ==
  IF l.mac[mac] # 0 THEN "mac"
  ELSE IF Find(l, ip, mac, host) = 0 THEN "new"
  ELSE IF host # None /\ l.host[host] # 0 THEN "host" ELSE "ip"

\* process_lease_event: whatever the type of the event is.
Lease(mac, ip, host) ==
  /\ Len(leases) < MaxLeases
  /\ LET r == Reassign(Ledger, mac, ip, host)
     IN  /\ Become(r.ledger)
         /\ leases' = Append(leases, [mac |-> mac, ip |-> ip, id |-> r.id,
                                      by |-> FoundBy(Ledger, ip, mac, host)])
  /\ UNCHANGED <<now, alerts>>

\* The score decayed to the present.
Decayed(e) == e.raw \div TwoTo[now - e.updated]

\* record_alert, with add_alert: get_by_ip, then get_or_create.  An alert from
\* 0.0.0.0 changes nothing.
RecordAlert(ip, weight) ==
  /\ Len(alerts) < MaxAlerts
  /\ LET r == IF ipIndex[ip] # 0 THEN [id |-> ipIndex[ip], ledger |-> Ledger]
              ELSE GetOrCreate(Ledger, ip, None, None)
         e == r.ledger.entities[r.id]
         scored == [e EXCEPT !.raw = Decayed(e) + weight * TwoTo[MaxTime],
                             !.updated = now, !.alerts = @ \union {Len(alerts) + 1}]
     IN  /\ Become([r.ledger EXCEPT !.entities[r.id] = scored])
         /\ alerts' = Append(alerts, [ip |-> ip, id |-> r.id, weight |-> weight,
                                      time |-> now])
  /\ UNCHANGED <<now, leases>>

HalfLife == /\ now < MaxTime /\ now' = now + 1
            /\ UNCHANGED <<entities, ipIndex, macIndex, hostIndex, alerts, leases>>

Next == \/ \E m \in Macs, i \in Ips, h \in Hosts \union {None} : Lease(m, i, h)
        \/ \E i \in Ips, w \in Weights : RecordAlert(i, w)
        \/ HalfLife

Spec == Init /\ [][Next]_vars
-----------------------------------------------------------------------------
Ids == DOMAIN entities

\* A MAC leads to one entity and an entity has one MAC (lines 174-176, 194-195).
MacIsIdentity ==
  \A m \in Macs, n \in Ids : macIndex[m] = n <=> entities[n].mac = m

\* A machine whose MAC was known or that made its entity keeps it for good.  The
\* entity a lease got is found under the lease's IP until that IP or that entity
\* is leased again, whichever alerts and leases of others come between (lines
\* 228-238), but for a lease that found its entity by host name: line 173 gives
\* the entity the IP and does not index it.  A new MAC that finds an entity by
\* host name or IP may get the entity of another machine.
LeaseIsFound ==
  \A i \in DOMAIN leases :
    LET l == leases[i]
    IN  /\ l.by \in {"mac", "new"} => macIndex[l.mac] = l.id
        /\ (l.by # "host" /\ \A j \in i + 1..Len(leases) :
              leases[j].ip # l.ip /\ leases[j].id # l.id) => ipIndex[l.ip] = l.id

\* The index leads an IP to an entity that has left it only when a lease has
\* found that entity by host name (line 173): no other move leaves an entry of
\* the old IP behind (lines 229-231).
IndexIsCurrent ==
  \A i \in Ips :
    LET n == ipIndex[i]
    IN  n # 0 /\ entities[n].ip # i =>
          \E j \in DOMAIN leases : leases[j].by = "host" /\ leases[j].id = n

\* The score of an entity is the sum of its alerts, each halved once for every
\* half-life since (lines 92-104), in whatever order time and alerts come.
ScoreIsDecayedSum ==
  \A n \in Ids :
    Decayed(entities[n]) = SumFunction([a \in {b \in DOMAIN alerts : alerts[b].id = n} |->
      (alerts[a].weight * TwoTo[MaxTime]) \div TwoTo[now - alerts[a].time]])

=============================================================================
