CONSTANTS
  t1 = t1
  t2 = t2
  a = a
  b = b
  c = c
  UThreads = {a, b, c}
  OSThread <- MCTwoOSThreads
  NoUThread = NoUThread
SPECIFICATION Spec
INVARIANTS
  NobodyWaitsWhenSet
CHECK_DEADLOCK FALSE
