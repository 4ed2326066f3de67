CONSTANTS
  Dispatches = {d1, d2}
  NoDispatch = NoDispatch
  MaxRestarts = 0
SPECIFICATION Spec
PROPERTY ReportingKeepsCapability
CHECK_DEADLOCK FALSE
