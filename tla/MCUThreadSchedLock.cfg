CONSTANTS
  t1 = t1
  t2 = t2
  m1 = m1
  m2 = m2
  OSThreads = {t1, t2}
  UThreads = {m1, m2, a}
  Main <- MCMain
  Semas = {lk}
  Locks = {lk}
  InitCount <- MCInitCount
  Delays = {}
  MaxCount = 1
  MaxTime = 0
  NoUThread = NoUThread
  NoSema = NoSema
  NoOSThread = NoOSThread
SPECIFICATION FairSpec
INVARIANTS
  TypeOK
  MutualExclusion
  OneList
  NoLostWakeup
  NoIdlePermit
  NoUseAfterExit
  AliveIsExact
PROPERTIES
  ReadyRuns
  LockIsGranted
