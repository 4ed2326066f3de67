CONSTANTS
  c1 = c1  c2 = c2  t1 = t1  t2 = t2
  a1 = a1  b1 = b1
  NoDigest = NoDigest
  NoClient = NoClient
  NoTab = NoTab
  Stores <- MCStores
  Clients <- TwoClients
  Handles <- TwoTabs
  Resolvers = {a1, b1}
  Locked = {a1, b1}
  clientOf <- MCClientOf
  BaseClients = {}
  Payloads <- MCPayloads
  MaxCrashes = 1
  MaxCloses = 1
  MaxSeq = 2
  MaxFaults = 0
SPECIFICATION Spec
SYMMETRY MCSymmetry
INVARIANT TypeOK
INVARIANT PinsAreDistinct
INVARIANT PinsAreProtected
PROPERTY NoSiblingWhilePinLives
PROPERTY RestartReusesPin
CHECK_DEADLOCK FALSE
