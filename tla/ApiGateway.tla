----------------------------- MODULE ApiGateway -----------------------------
(***************************************************************************)
(* The HTTP side of NovaFlow: requests pass the sliding-window limiter     *)
(* (api/security/rate_limiter.py) and reach a route, which looks at the    *)
(* role and the tenant of the caller (api/security/auth.py); analysts page *)
(* through the alerts and set their status, which the audit log keeps      *)
(* (api/routes/alerts.py, api/security/audit.py); and the shield of a      *)
(* protected application (collector/saas_middleware.py) asks for the       *)
(* contained hosts again and again and turns them away.                    *)
(*                                                                         *)
(* A request is two steps, as dispatch awaits the route.  The shield's     *)
(* thread interleaves everywhere.  Times are ages in ticks.  Every alert   *)
(* has the tenant "default": nothing gives it another.                     *)
(***************************************************************************)
EXTENDS Integers, Sequences, FiniteSets, SequencesExt

CONSTANTS Clients,     \* identities: [bucket, role, tenant]
          Walker,      \* the one that pages through the alerts
          Updates,     \* the updates asked for: [client, status]
          ShieldBucket,   \* the identifier the shield's requests have
          Limit, Window,  \* max_requests, window_seconds in ticks
          MaxHistory,  \* max_history of the engine
          MaxAudit,    \* max_in_memory
          PageSize,    \* limit of a page
          Targets,     \* hosts that may be contained
          MaxRaised,   \* bound: alerts recorded
          MaxAsked,    \* bound: requests of clients
          MaxInside,   \* bound: requests in the routes at a time
          MaxHand,     \* bound: hosts blocked and unblocked by hand
          MaxArrivals  \* bound: requests to the protected application

ASSUME GatewayAssumption ==
  /\ Walker \in Clients /\ \A u \in Updates : u.client \in Clients
  /\ {Limit, Window, PageSize, MaxHistory, MaxAudit} \subseteq Nat \ {0}
  /\ {MaxRaised, MaxAsked, MaxInside, MaxHand, MaxArrivals} \subseteq Nat

VARIABLES seen,     \* _clients: ages of the requests of each bucket, oldest first
          inside,   \* requests that the limiter let through, before their answer
          asked,    \* history: requests of clients
          history,  \* alerts_history, oldest first
          raised,   \* history: alerts recorded
          audit,    \* _entries of the audit logger
          cut,      \* history: was an entry dropped?
          walk,     \* the walker: what it looks for, has seen, and must see
          contained,  \* the hosts in containments_history
          blocked,    \* blocked_ips
          sync,     \* the thread of the shield, and what it still has to add
          hand,     \* history: the hosts blocked by hand and not unblocked since
          hands,    \* history: how often someone did
          app,      \* requests to the application: in progress and counts
          came,     \* history: requests let through, by bucket and age
          promise   \* history: ticks until a bucket may try again; -1: no promise

limiter == <<seen, came, promise>>
desk == <<history, raised, audit, cut, walk>>
shield == <<contained, blocked, sync, hand, hands, app>>
vars == <<limiter, inside, asked, desk, shield>>

Buckets == {c.bucket : c \in Clients} \union {ShieldBucket}
NoWalk == [pc |-> "off", filter |-> "", offset |-> 0, must |-> {}, got |-> {}]

Init == /\ seen = [b \in Buckets |-> <<>>] /\ inside = {} /\ asked = 0
        /\ history = <<>> /\ raised = 0 /\ audit = <<>> /\ cut = FALSE /\ walk = NoWalk
        /\ contained = {} /\ blocked = {} /\ sync = [pc |-> "sleep", list |-> {}]
        /\ hand = {} /\ hands = 0
        /\ app = [running |-> 0, arrived |-> 0, refused |-> 0, reported |-> 0, unheard |-> 0]
        /\ came = [b \in Buckets |-> [age \in 0..Window |-> 0]]
        /\ promise = [b \in Buckets |-> -1]
-----------------------------------------------------------------------------
(* The limiter *)

\* The while loop: requests leave from the head, up to the first one that is
\* still in the window.
Expired(s) == {i \in DOMAIN s : \A j \in 1..i : s[j] > Window}
Fresh(b) == SubSeq(seen[b], Cardinality(Expired(seen[b])) + 1, Len(seen[b]))

Admits(b) == Len(Fresh(b)) < Limit

\* Mutant: rounded down.
RetryEarly(b) == Window - Head(Fresh(b))
\* retry_after_seconds.
RetryAfter(b) == Window - Head(Fresh(b)) + 1

RequestsInWindow(b) == SumFunction(came[b])

\* dispatch, up to the answer 429 or the call of the route.
Limiter(b) ==
  /\ seen' = [seen EXCEPT ![b] = IF Admits(b) THEN Append(Fresh(b), 0) ELSE Fresh(b)]
  /\ came' = [came EXCEPT ![b][0] = IF Admits(b) THEN @ + 1 ELSE @]
  /\ promise' = [promise EXCEPT ![b] = IF Admits(b) THEN -1 ELSE RetryAfter(b)]

Tick ==
  /\ seen' = [b \in Buckets |-> [i \in DOMAIN seen[b] |->
                IF seen[b][i] > Window THEN seen[b][i] ELSE seen[b][i] + 1]]
  /\ came' = [b \in Buckets |-> [age \in 0..Window |->
                IF age = 0 THEN 0 ELSE came[b][age - 1]]]
  /\ promise' = [b \in Buckets |-> IF promise[b] > 0 THEN promise[b] - 1 ELSE promise[b]]
  /\ UNCHANGED <<inside, asked, desk, shield>>

Ask(c, request) ==
  /\ asked < MaxAsked /\ asked' = asked + 1 /\ Cardinality(inside) < MaxInside
  /\ Limiter(c.bucket)
  /\ inside' = IF Admits(c.bucket)
               THEN inside \union {[n |-> asked, client |-> c, request |-> request]}
               ELSE inside
  /\ UNCHANGED <<desk, shield>>
-----------------------------------------------------------------------------
(* Alerts and their audit *)

\* _record_alert: history only.
Raise ==
  /\ raised < MaxRaised /\ raised' = raised + 1
  /\ LET all == Append(history, [id |-> raised + 1, status |-> "NEW"])
     IN  history' = IF Len(all) > MaxHistory THEN Tail(all) ELSE all
  /\ UNCHANGED <<limiter, inside, asked, audit, cut, walk, shield>>

Ids == {history[i].id : i \in DOMAIN history}

\* list_alerts: the alerts of the tenant with the status asked for.
Listed(c, filter) ==
  {history[i].id : i \in {j \in DOMAIN history :
                            /\ c.tenant \in {"*", "default"}
                            /\ filter = "" \/ history[j].status = filter}}

\* Mutant: the oldest first.
PageOldest(c, filter, offset) ==
  {id \in Listed(c, filter) :
     Cardinality({n \in Listed(c, filter) : n < id}) \in offset..offset + PageSize - 1}
\* A page, the newest first: those that have as many newer ones as the page
\* has before it, or a few more.
Newer(listed, id) == Cardinality({n \in listed : n > id})
Page(c, filter, offset) ==
  {id \in Listed(c, filter) :
     Newer(Listed(c, filter), id) \in offset..offset + PageSize - 1}

\* The route answers; the walker asks for the next page until one is not full.
AnswerPage(r) ==
  LET page  == Page(r.client, r.request.filter, r.request.offset)
      first == r.request.offset = 0
  IN /\ walk' = [pc     |-> IF Cardinality(page) < PageSize THEN "done" ELSE "between",
                 filter |-> r.request.filter,
                 offset |-> r.request.offset + PageSize,
                 must   |-> IF first THEN Listed(r.client, r.request.filter) ELSE walk.must,
                 got    |-> IF first THEN page ELSE walk.got \union page]
     /\ UNCHANGED <<history, audit, cut>>

Statuses == {"NEW", "INVESTIGATING", "RESOLVED", "FALSE_POSITIVE"}

\* require_role([ADMIN, ANALYST]), and can_access_tenant of an alert.
MayUpdate(c) == c.role \in {"ADMIN", "ANALYST"}
MayAccess(c) == c.tenant \in {"*", "default"} \/ c.role = "ADMIN"

\* AuditLogger.log: the newest max_in_memory entries.
Log(entry) ==
  LET all == Append(audit, entry)
  IN  /\ audit' = IF Len(all) > MaxAudit THEN Tail(all) ELSE all
      /\ cut' = (cut \/ Len(all) > MaxAudit)

\* Mutant: the status is set before the old one is read.
OldStatusLate(i, status) == status
OldStatus(i, status) == history[i].status

\* What a walk must still see when the i-th alert gets the status: if it leaves
\* the status the walk looks for, the older ones move up a place, and one that is
\* not shown yet may come to stand before the offset.
StillDue(i, status) ==
  LET id == history[i].id
  IN  IF walk.filter \in {"", status} \/ history[i].status # walk.filter
      THEN walk.must
      ELSE {n \in walk.must \ {id} : n > id \/ n \in walk.got}

\* update_alert_status: 403, 400, 404, or the status is set and audited.
AnswerUpdate(r) ==
  LET q == r.request
      found == {i \in DOMAIN history : history[i].id = q.id}
  IN /\ IF /\ MayUpdate(r.client) /\ q.status \in Statuses
           /\ found # {} /\ MayAccess(r.client)
        THEN LET i == CHOOSE i \in found : TRUE
             IN  /\ history' = [history EXCEPT ![i].status = q.status]
                 /\ Log([id |-> q.id, role |-> r.client.role, tenant |-> r.client.tenant,
                         old |-> OldStatus(i, q.status), new |-> q.status])
                 /\ walk' = [walk EXCEPT !.must = StillDue(i, q.status)]
        ELSE UNCHANGED <<history, audit, cut, walk>>

Answer(r) ==
  /\ IF r.request.route = "page" THEN AnswerPage(r) ELSE AnswerUpdate(r)
  /\ inside' = inside \ {r}
  /\ UNCHANGED <<limiter, asked, raised, shield>>

\* What clients ask for.
WalkerBusy == \E r \in inside : r.request.route = "page"
AskPage(filter) ==
  /\ ~WalkerBusy /\ walk.pc # "done"
  /\ walk.pc = "between" => filter = walk.filter
  /\ Ask(Walker, [route |-> "page", filter |-> filter,
                  offset |-> IF walk.pc = "between" THEN walk.offset ELSE 0])
AskUpdate(c, id, status) ==
  Ask(c, [route |-> "status", id |-> id, status |-> status])
-----------------------------------------------------------------------------
(* The shield *)

\* evaluate_auto_containment adds a containment; none is ever removed.
Contain(ip) ==
  /\ ip \notin contained /\ contained' = contained \union {ip}
  /\ UNCHANGED <<limiter, inside, asked, desk, blocked, sync, hand, hands, app>>

\* Mutant: an error ends the thread.
AfterErrorStop == "off"
\* An error is ignored and the thread sleeps until the next turn.
AfterError == "sleep"

\* A turn of _background_soar_sync: the request passes the limiter as any other
\* does.  It may be lost, or answered after the thread stopped waiting: the
\* limiter has counted it then (saas_middleware.py:91).
Fetch(answer) ==
  /\ sync.pc = "sleep"
  /\ IF answer = "lost" THEN UNCHANGED limiter ELSE Limiter(ShieldBucket)
  /\ sync' = IF answer = "heard" /\ Admits(ShieldBucket)
             THEN [pc |-> "add", list |-> contained]
             ELSE [pc |-> AfterError, list |-> {}]
  /\ UNCHANGED <<inside, asked, desk, contained, blocked, hand, hands, app>>

\* It adds the hosts of the answer one by one.
Add ==
  /\ sync.pc = "add"
  /\ IF sync.list = {}
     THEN sync' = [sync EXCEPT !.pc = "sleep"] /\ UNCHANGED blocked
     ELSE \E ip \in sync.list :
            /\ blocked' = blocked \union {ip}
            /\ sync' = [sync EXCEPT !.list = @ \ {ip}]
  /\ UNCHANGED <<limiter, inside, asked, desk, contained, hand, hands, app>>

\* block_ip and unblock_ip.
BlockIp(ip) ==
  /\ hands < MaxHand /\ hands' = hands + 1
  /\ blocked' = blocked \union {ip} /\ hand' = hand \union {ip}
  /\ UNCHANGED <<limiter, inside, asked, desk, contained, sync, app>>
UnblockIp(ip) ==
  /\ hands < MaxHand /\ hands' = hands + 1
  /\ blocked' = blocked \ {ip} /\ hand' = hand \ {ip}
  /\ UNCHANGED <<limiter, inside, asked, desk, contained, sync, app>>

\* __call__: a blocked host gets 403, another's request is awaited.
Arrive(ip) ==
  /\ app.arrived < MaxArrivals
  /\ app' = IF ip \in blocked
            THEN [app EXCEPT !.arrived = @ + 1, !.refused = @ + 1]
            ELSE [app EXCEPT !.arrived = @ + 1, !.running = @ + 1]
  /\ UNCHANGED <<limiter, inside, asked, desk, contained, blocked, sync, hand, hands>>

\* The finally clause: the application answered or raised.
Reports(raises) == TRUE

\* _emit_telemetry; full: the socket would block, and the event is discarded.
Finish(raises, full) ==
  /\ app.running > 0
  /\ app' = [app EXCEPT !.running = @ - 1,
                        !.reported = IF Reports(raises) /\ ~full THEN @ + 1 ELSE @,
                        !.unheard = IF Reports(raises) /\ full THEN @ + 1 ELSE @]
  /\ UNCHANGED <<limiter, inside, asked, desk, contained, blocked, sync, hand, hands>>

DeskNext == \/ Raise
            \/ \E filter \in {"", "NEW"} : AskPage(filter)
            \/ \E u \in Updates, id \in 1..raised : AskUpdate(u.client, id, u.status)
            \/ \E r \in inside : Answer(r)
ShieldNext == \/ \E ip \in Targets : Contain(ip) \/ BlockIp(ip) \/ UnblockIp(ip) \/ Arrive(ip)
              \/ \E answer \in {"heard", "late", "lost"} : Fetch(answer)
              \/ Add
              \/ \E raises, full \in BOOLEAN : Finish(raises, full)

\* Bound: the desk and the shield share only the limiter; a behaviour has
\* alerts to update or hosts to block, not both.
Next == \/ Tick
        \/ DeskNext /\ (raised' = 0 \/ (contained = {} /\ hands = 0 /\ app.arrived = 0))
        \/ ShieldNext /\ raised = 0

Spec == Init /\ [][Next]_vars

(***************************************************************************)
(* Time passes, the thread runs, and the API answers it again and again:   *)
(* a shield asks 30 times a minute and the limit is 120, but nothing       *)
(* reserves it a place.                                                    *)
(***************************************************************************)
Fairness == /\ WF_vars(Tick) /\ WF_vars(Add)
            /\ SF_vars(Fetch("heard") /\ Admits(ShieldBucket))

FairSpec == Spec /\ Fairness
-----------------------------------------------------------------------------
(***************************************************************************)
(* A request is let through exactly when fewer than the limit were in the  *)
(* window before it, and one that waits as long as Retry-After told its    *)
(* bucket, while the bucket is let through nothing else, is let through    *)
(* (rate_limiter.py:46-64).                                                *)
(***************************************************************************)
LimiterIsExact ==
  \A b \in Buckets : /\ Admits(b) <=> RequestsInWindow(b) < Limit
                     /\ promise[b] = 0 => Admits(b)

\* The entries of the same alert before the k-th.
Before(k) == {j \in 1..k - 1 : audit[j].id = audit[k].id}

(***************************************************************************)
(* The audit log tells the status of every alert: the last entry of an     *)
(* alert has its present status, each entry goes on from the one before    *)
(* it, the first from NEW if none was dropped, and all were made by those  *)
(* who may (alerts.py:91-139, audit.py).                                   *)
(***************************************************************************)
AuditTellsStatus ==
  /\ \A i \in DOMAIN history :
       LET of == {k \in DOMAIN audit : audit[k].id = history[i].id}
       IN /\ \A k \in of : (\A j \in of : j <= k) => audit[k].new = history[i].status
          /\ of = {} /\ ~cut => history[i].status = "NEW"
  /\ \A k \in DOMAIN audit :
       /\ \A j \in Before(k) : (\A m \in Before(k) : m <= j) => audit[j].new = audit[k].old
       /\ Before(k) = {} /\ ~cut => audit[k].old = "NEW"
  /\ \A k \in DOMAIN audit : /\ audit[k].role \in {"ADMIN", "ANALYST"}
                             /\ audit[k].role # "ADMIN" =>
                                  audit[k].tenant \in {"*", "default"}

(***************************************************************************)
(* Whoever reads page after page sees every alert that was listed at the   *)
(* first page and is not dropped, although alerts are recorded and updated *)
(* meanwhile.  One exception: when an alert leaves the status a walk looks *)
(* for, the walk may miss older ones that it has not shown yet, because    *)
(* the offset counts the alerts that have the status now                   *)
(* (alerts.py:55-61).                                                      *)
(***************************************************************************)
WalksMissNothing ==
  walk.pc = "done" => walk.must \intersect Ids \subseteq walk.got

BlockedIsContained ==
  /\ blocked \subseteq contained \union hand
  /\ app.arrived = app.refused + app.reported + app.unheard + app.running

(***************************************************************************)
(* The shield blocks no host that was neither contained nor blocked by     *)
(* hand, and every request to the application was refused, or reported, or *)
(* is in progress, whatever the application does; and a host that the SOAR *)
(* dispatcher contains is blocked in the end, over errors, refusals of the *)
(* limiter and unblocking by hand (saas_middleware.py:77-104, 145-205).    *)
(***************************************************************************)
ShieldIsJust == /\ []BlockedIsContained
                /\ \A ip \in Targets : ip \in contained ~> ip \in blocked
=============================================================================
