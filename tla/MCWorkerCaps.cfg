CONSTANTS
  Dispatches = {d1, d2}
  NoDispatch = NoDispatch
  MaxRestarts = 1
SPECIFICATION Spec
SYMMETRY MCSymmetry
INVARIANT TypeOK
INVARIANT PurgedStaysPurged
INVARIANT LastReleaseTakesCredential
PROPERTY LiveKeepsCapability
CHECK_DEADLOCK FALSE
