CONSTANTS
  a = a  b = b
  d1 = d1  d2 = d2
  a1 = a1  a2 = a2  b1 = b1
  w1 = w1  w2 = w2
  k1 = k1  k2 = k2
  r1 = r1  r2 = r2
  t1 = t1  t2 = t2
  m1 = m1  m2 = m2
  NoValue = NoValue
  Clients = {a, b}
  Callers = {a}
  Dispatches = {d1, d2}
  Tabs = {a1, a2, b1}
  Terminals = {w1, w2}
  Tasks = {k1, k2}
  Runs = {r1, r2}
  Worktrees = {t1, t2}
  Messages = {m1, m2}
  dispatcherOf <- MCDispatcher
  terminalOf <- MCTerminal
  taskOf <- MCTask
  runOf <- MCRun
  worktreeOf <- MCWorktree
  tabOwner <- MCTabOwner
  writerOf <- MCWriter
  Argvs <- MCArgvs
  Settings <- MCSettings
  MaxChanges = 3
SPECIFICATION FairSpec
INVARIANT TypeOK
PROPERTY IsReferenceMonitor
PROPERTY OthersAreInvisible
PROPERTY OwnersAreServed
INVARIANT ContentStaysWithOwner
INVARIANT RepliesReachTheirWorker
PROPERTY RequestsAreAnswered
CHECK_DEADLOCK FALSE
