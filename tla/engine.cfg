CONSTANTS
  w = w
  s = s
  t = t
  u = u
  r = r
  x = x
  m = m
  Internal <- MCInternal
  Trusted <- MCTrusted
  Multicast = {}
  Metadata <- MCMetadata
  DatabaseNet = {}
  SessionTimeout = 2
  SessionLimit = 2
  RoleNeeds <- MCRoleNeeds
  Scan <- MCScan
  Flood <- MCFlood
  Lateral <- MCLateral
  Beacon <- MCBeacon
  Exfil <- MCExfil
  Dns <- MCDns
  MinInterval = 1
  MaxInterval = 5
  BurstsKept = 3
  BaselineNeeds = 3
  BaselineTenths = 11
  WebCooldown = 3
  Scenes <- MCScenes
  Delays = {0, 1, 3}
  SigmaRules <- MCSigma
  MaxAnalysed = 4
SPECIFICATION FlowSpec
INVARIANTS AlertsMatchHistory ExemptionIsEarned SessionsKeepSides
CHECK_DEADLOCK FALSE
