CONSTANTS
  t1 = t1
  t2 = t2
  t3 = t3
  t4 = t4
  s1 = s1
  s2 = s2
  s3 = s3
  Master = Master
  NoKey = NoKey
  NoSid = NoSid
  Tokens = {t1, t2, t3, t4}
  Sids = {s1, s2, s3}
  CodeTTL = 1
  SessionTTL = 1
  MaxFaults = 2
  MaxRestarts = 1
SPECIFICATION FairSpec
INVARIANT TypeOK
INVARIANT ClientIsItsToken
INVARIANT SavedTokensAreValid
PROPERTY SessionsEnd
PROPERTY ClientGetsIn
CHECK_DEADLOCK FALSE
