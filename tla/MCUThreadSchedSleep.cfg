CONSTANTS
  t1 = t1
  t2 = t2
  m1 = m1
  m2 = m2
  OSThreads = {t1}
  UThreads = {m1, a, b}
  Main <- MCMain
  Semas = {s}
  Locks = {}
  InitCount <- MCInitCount
  Delays = {1, 2}
  MaxCount = 1
  MaxTime = 2
  NoUThread = NoUThread
  NoSema = NoSema
  NoOSThread = NoOSThread
SPECIFICATION FairSpec
INVARIANTS
  NoOversleep
PROPERTIES
  SleeperWakes
