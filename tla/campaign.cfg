CONSTANTS
  h1 = h1
  h2 = h2
  h3 = h3
  none = none
  NoAsset = none
  Assets <- MCAssets
  Alerts <- MCAlerts
  Window = 1
  MaxAlerts = 4
  MaxTime = 3
  MaxUpdates = 1
SPECIFICATION Spec
INVARIANT CasesMatchHistory
PROPERTY EvidenceGrows
CHECK_DEADLOCK FALSE
