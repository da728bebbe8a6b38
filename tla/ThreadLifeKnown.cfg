CONSTANTS
  Threads = {d1}
  WithWait = {}
  Clients = {a, b}
  Listers = {}
  Joiner = a
  MaxUThreads = 1
  NoThread = NoThread
SPECIFICATION Spec
INVARIANTS
  NobodyKnows
CHECK_DEADLOCK FALSE
