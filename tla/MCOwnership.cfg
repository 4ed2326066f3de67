CONSTANTS
  NoDigest = NoDigest
  NoClient = NoClient
  d1 = d1
  d2 = d2
  d3 = d3
  Clients = {c1, c2}
  Stores <- MCStores
  Dispatches <- MCThreeDispatches
  Payloads <- MCThreePayloads
  MaxSeq = 4
  MaxFaults = 1
  MaxCrashes = 2
SPECIFICATION Spec
INVARIANT TypeOK
INVARIANT OwnerIsCreator
PROPERTY RestoreIsAllOrNothing
PROPERTY WrittenBindingsSurvive
CHECK_DEADLOCK FALSE
