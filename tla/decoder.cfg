CONSTANTS
  r5 = r5
  r9 = r9
  r10 = r10
  s10 = s10
  Exporters = {r5, r9, r10, s10}
  VersionOf <- MCVersion
  DomainOf <- MCDomain
  TemplateIds = {256}
  LayoutsOf <- MCLayouts
  AtStart <- MCAtStart
  NumWorkers = 2
  MaxPayload = 90
  MaxRecords = 2
  MaxSent = 3
  MaxTransit = 2
SPECIFICATION Spec
INVARIANTS OwnTemplateOnly ReadAsWritten
CHECK_DEADLOCK FALSE
