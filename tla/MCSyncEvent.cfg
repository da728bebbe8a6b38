CONSTANTS
  t1 = t1
  t2 = t2
  a = a
  b = b
  c = c
  UThreads = {a, b, c}
  OSThread <- MCTwoOSThreads
  NoUThread = NoUThread
SPECIFICATION FairSpec
INVARIANTS
  TypeOK
  SuspendedIsQueued

PROPERTIES
  SetWakesAll
CHECK_DEADLOCK FALSE
