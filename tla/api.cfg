CONSTANTS
  Clients <- MCClients
  Walker <- Analyst
  Updates <- MCUpdates
  ShieldBucket = "address"
  Limit = 2
  Window = 1
  MaxHistory = 2
  MaxAudit = 2
  PageSize = 1
  MaxRaised = 3
  MaxAsked = 3
  MaxInside = 2
  Targets = {ip1, ip2}
  MaxHand = 1
  MaxArrivals = 1
  Ips = {ip1, ip2}
  Macs = {mac1, mac2}
  Hosts = {host1}
  None = None
  Weights = {15, 60}
  MaxLeases = 4
  MaxAlerts = 2
  MaxTime = 1
SPECIFICATION ServerSpec
INVARIANTS LimiterIsExact AuditTellsStatus WalksMissNothing LedgerIsExact
PROPERTY ShieldIsJust
CHECK_DEADLOCK FALSE
