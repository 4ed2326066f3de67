CONSTANTS
  c1 = c1  c2 = c2
  r1 = r1  r2 = r2  r3 = r3  s1 = s1  s2 = s2
  Keys = {c1, c2}
  Requests <- MCRequests
  keyOf <- MCKeyOf
  NoRequest = NoRequest
  Abortable = {r1, r2, r3}
  Hanging = {r1, s1}
SPECIFICATION OrchFairSpec
INVARIANT OrchTypeOK
INVARIANT LiveBodiesSerialize
PROPERTY IsSerialLock
PROPERTY QueuedIsServed
CHECK_DEADLOCK FALSE
