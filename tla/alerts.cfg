CONSTANTS
  h1 = h1
  h2 = h2
  none = none
  NoAsset = none
  Assets <- MCAssets
  Sources <- MCAssets
  FlowAlerts <- MCFlowAlerts
  Stamps <- MCStamps
  Window = 1
  CorrelationWindow = 1
  MaxRetries = 3
  MaxHistory = 3
  HookIds = {"soc"}
  HookSettings <- HighOnly
  MaxFlows = 2
  MaxEvents = 5
SPECIFICATION Spec
INVARIANTS DashboardMirrorsEngine ReturnedIsComplete AnsweredOrQueued CampaignsAreEarned
CHECK_DEADLOCK FALSE
