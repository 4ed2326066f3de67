CONSTANTS
  a = a  v = v
  d1 = d1  d2 = d2
  Clients = {a}
  Dispatches = {d1, d2}
  NoDispatch = NoDispatch
  ownerOf <- MCSoleOwner
  Reports <- MCReports
  Keepers = {a}
  MaxDisturbances = 0
SPECIFICATION Spec
PROPERTY AckIsFinal
