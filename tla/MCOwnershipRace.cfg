CONSTANTS
  NoDigest = NoDigest
  NoClient = NoClient
  d1 = d1
  d2 = d2
  d3 = d3
  Clients = {c1, c2}
  Stores <- MCStores
  Dispatches <- MCDispatches
  Payloads <- MCPayloads
  MaxSeq = 3
  MaxFaults = 0
  MaxCrashes = 1
SPECIFICATION Spec
PROPERTY OverlappingBindingsSurvive
CHECK_DEADLOCK FALSE
