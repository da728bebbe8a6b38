CONSTANTS
  t1 = t1
  t2 = t2
  m1 = m1
  m2 = m2
  OSThreads = {t1, t2}
  UThreads = {m1, m2, a, b, c}
  Main <- MCMain
  NoUThread = NoUThread
  NoOSThread = NoOSThread
SPECIFICATION Spec
SYMMETRY Symmetry
INVARIANTS
  TypeOK
  WalkFindsAll
  ScansOwnStack
  EveryStackIsScanned
CHECK_DEADLOCK FALSE
