CONSTANTS
  a = a  v = v
  d1 = d1  d2 = d2
  Clients = {a, v}
  Dispatches = {d1, d2}
  NoDispatch = NoDispatch
  ownerOf <- MCOwners
  Reports <- MCReports
  Keepers = {a}
  MaxDisturbances = 2
SPECIFICATION FairSpec
INVARIANT TypeOK
PROPERTY AckedLeavesMailbox
PROPERTY IsReportLedger
PROPERTY ReportReachesOwner
CHECK_DEADLOCK FALSE
