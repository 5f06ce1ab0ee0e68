------------------------------ MODULE ApiServer ------------------------------
(***************************************************************************)
(* The API in front of the alerts (ApiGateway) and of the entity ledger    *)
(* (EntityLedger).  The two share no state, so that their steps commute:   *)
(* a behaviour moves one of them, and every state of either is reached.    *)
(***************************************************************************)
EXTENDS ApiGateway

CONSTANTS Ips, Macs, Hosts, None, Weights, MaxLeases, MaxAlerts, MaxTime

VARIABLES entities, ipIndex, macIndex, hostIndex, now, alerts, leases

ASSUME LedgerAssumption ==
  /\ None \notin Ips \union Macs \union Hosts
  /\ Weights \subseteq Nat /\ MaxTime \in Nat

Ledger == INSTANCE EntityLedger
ledger == <<entities, ipIndex, macIndex, hostIndex, now, alerts, leases>>

LedgerRests  == Ledger!Init /\ UNCHANGED ledger
GatewayRests == Init /\ UNCHANGED vars

ServerNext == \/ LedgerRests /\ Next
              \/ GatewayRests /\ Ledger!Next

ServerInit == Init /\ Ledger!Init

ServerSpec == /\ ServerInit
              /\ [][ServerNext]_<<vars, ledger>>
              /\ WF_vars(LedgerRests /\ Tick) /\ WF_vars(LedgerRests /\ Add)
              /\ SF_vars(LedgerRests /\ Fetch("heard") /\ Admits(ShieldBucket))

(***************************************************************************)
(* The ledger over leases, alerts and time in any order.  An entity has one *)
(* MAC and a MAC leads to one entity (entity.py:174-176, 194-195).  What a *)
(* lease got is found under its IP until one of the two is leased again    *)
(* (228-238), and the index leads an IP to an entity that has left it only *)
(* for one named limit: a lease that finds its entity by host name gives   *)
(* it an IP that the index does not get, and leaves the old IP in it       *)
(* (173), so that /lookup/by-ip is not always, as entities.py:96 says, the *)
(* entity that has the IP now.  A score is the sum of its alerts, each     *)
(* halved with every half-life since (92-104).                             *)
(***************************************************************************)
LedgerIsExact ==
  /\ Ledger!MacIsIdentity /\ Ledger!LeaseIsFound /\ Ledger!IndexIsCurrent
  /\ Ledger!ScoreIsDecayedSum
=============================================================================
