CONSTANTS
  c = c
  d = d
  v = v
  m = m
  MaxDepth = 10
  Grease = {2570}
  Sni = 0
  Alpn = 16
  Features <- MCFeatures
  Benign <- MCBenign
  Flux <- MCFlux
  Roasting = 2
  Implants <- MCImplants
  Paths <- MCPaths
  Tools <- MCTools
  Stuffing <- MCStuffing
  Flooding <- MCFlooding
  Hopping <- MCHopping
  Occasional = 1
  Cooldown = 3
  CloudHosts = {m}
  Scenes <- MCScenes
  Delays = {0, 1, 3}
  NameLists <- MCNameLists
  ImplantHellos <- MCImplantHellos
SPECIFICATION Spec
INVARIANTS RulesMatchHistory NamesAreRead ImplantIsRecognised
CHECK_DEADLOCK FALSE
