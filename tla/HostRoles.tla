------------------------------ MODULE HostRoles ------------------------------
(***************************************************************************)
(* The host profiler (detector/profiler.py) as operators: the role a host  *)
(* is given from the flows it took part in, and the running statistics of  *)
(* the bytes it sends.                                                     *)
(*                                                                         *)
(* A profile is a record [inbound, targets, roles, acc] of tables: the     *)
(* clients seen per host and port, the hosts an internal host reached on   *)
(* an administration port, the roles given so far, the statistics.         *)
(***************************************************************************)
EXTENDS Windows

CONSTANTS Internal,   \* hosts with a private (RFC 1918) address
          RoleNeeds   \* clients or targets a role takes, by role: see below

ASSUME RoleNeedsAssumption ==
  RoleNeeds \in [{"dc", "smb", "dns", "admin", "web", "db"} -> Nat]

ManagementPorts == {445, 135, 5985, 22}

NoProfile == [inbound |-> <<>>, targets |-> <<>>, roles |-> <<>>, acc |-> <<>>]

Clients(p, h, port) == Cardinality(Lookup(p.inbound, <<h, port>>, {}))

\* get_role
Role(p, h) == Lookup(p.roles, h, "WORKSTATION")

(***************************************************************************)
(* _evaluate_role: the first rule that applies gives the role; a host that *)
(* no rule fits keeps the role it has, WORKSTATION if it has none.         *)
(***************************************************************************)
RoleOf(p, h) ==
  LET krb == Clients(p, h, 88)  ldap == Clients(p, h, 389)
      smb == Clients(p, h, 445)
      web == Clients(p, h, 80) + Clients(p, h, 443)
      db == Clients(p, h, 3306) + Clients(p, h, 5432)
      admin == Cardinality(Lookup(p.targets, h, {}))
  IN IF \/ krb >= RoleNeeds.dc \/ ldap >= RoleNeeds.dc
        \/ smb >= RoleNeeds.smb /\ krb + ldap > 0
     THEN "INFRASTRUCTURE_DC"
     ELSE IF Clients(p, h, 53) >= RoleNeeds.dns THEN "INFRASTRUCTURE_DNS"
     ELSE IF admin >= RoleNeeds.admin /\ smb < 2 THEN "ADMIN_MANAGEMENT"
     ELSE IF web >= RoleNeeds.web \/ db >= RoleNeeds.db THEN "INTERNAL_SERVER"
     ELSE Role(p, h)

Evaluated(p, h) ==
  IF h \in Internal THEN [p EXCEPT !.roles = Put(@, h, RoleOf(p, h))] ELSE p

\* Mutant: a target counts on whatever port it is reached.
ObservedOnAnyPort(p, f) ==
  LET q == [p EXCEPT !.targets =
              IF {f.src, f.dst} \subseteq Internal
              THEN Put(@, f.src, Lookup(@, f.src, {}) \cup {f.dst}) ELSE @]
  IN Evaluated(Evaluated(q, f.dst), f.src)

\* observe_flow: note the client and the target, then judge dst, then src.
Observed(p, f) ==
  LET admin == {f.src, f.dst} \subseteq Internal /\ f.dport \in ManagementPorts
      q == [p EXCEPT
              !.inbound = IF f.dst \in Internal
                          THEN Put(@, <<f.dst, f.dport>>,
                                   Lookup(@, <<f.dst, f.dport>>, {}) \cup {f.src})
                          ELSE @,
              !.targets = IF admin THEN Put(@, f.src, Lookup(@, f.src, {}) \cup {f.dst})
                          ELSE @]
  IN Evaluated(Evaluated(q, f.dst), f.src)

(***************************************************************************)
(* Welford's accumulator.  The code keeps count, mean and the sum of the   *)
(* squared deviations in floats; here count, sum and sum of squares in     *)
(* megabytes, from which the same statistics follow exactly.               *)
(***************************************************************************)
MB(bytes) == bytes \div 1000000
NoSamples == [count |-> 0, sum |-> 0, squares |-> 0]
Samples(p, h) == Lookup(p.acc, h, NoSamples)

Sampled(a, bytes) ==
  [count |-> a.count + 1, sum |-> a.sum + MB(bytes),
   squares |-> a.squares + MB(bytes) * MB(bytes)]

\* n (n-1) times the sample variance; zero when all samples are equal.
Spread(a) == a.count * a.squares - a.sum * a.sum

(***************************************************************************)
(* calculate_z_score(bytes) >= tenths / 10, for tenths > 0: with d = n x - *)
(* sum, z = d / n over sqrt(Spread / (n (n - 1))).                         *)
(***************************************************************************)
ZAtLeast(a, bytes, tenths, samples) ==
  LET d == a.count * MB(bytes) - a.sum IN
  /\ a.count >= samples /\ Spread(a) > 0 /\ d > 0
  /\ 100 * d * d * (a.count - 1) >= tenths * tenths * a.count * Spread(a)

\* DynamicBaselineProfiler.ingest_flow
Profiled(p, f) ==
  LET q == Observed(p, f)
  IN [q EXCEPT !.acc = Put(@, f.src, Sampled(Samples(q, f.src), f.bytes))]

\* Its verdict, against the samples before this flow.
Deviates(p, f, tenths, samples) ==
  ZAtLeast(Samples(p, f.src), f.bytes, tenths, samples)
=============================================================================
