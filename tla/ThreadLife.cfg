CONSTANTS
  Threads = {d1, d2}
  WithWait = {d2}
  Clients = {a}
  Listers = {a}
  Joiner = a
  MaxUThreads = 1
  NoThread = NoThread
SPECIFICATION FairSpec
INVARIANTS
  TypeOK
  HandleKeepsAlive
  NoLostTermination
  JoinWaitsForAll
PROPERTIES
  AbandonedEnds
  JoinReturns
CHECK_DEADLOCK FALSE
