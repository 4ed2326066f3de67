CONSTANTS
  d1 = d1
  d2 = d2
  d3 = d3
  NoDispatch = NoDispatch
  Dispatches = {d1, d2}
  Foreign = {d3}
  Undated = {d2}
  Letters <- MCLetters
  MaxSent = 2
  MaxOutputs = 1
  ActiveAge = 0
  StalledAge = 2
  ActiveEmptyMax = 1
  StalledEmptyMin = 2
  StalledEmptyWithQuiet = 1
SPECIFICATION FairSpec
INVARIANT TypeOK
INVARIANT ReleaseIsEarned
INVARIANT DoneRowsHaveReported
PROPERTY SilenceIsTold
CHECK_DEADLOCK FALSE
