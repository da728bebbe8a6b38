CONSTANTS
  Threads = {d1}
  WithWait = {}
  Clients = {a, b}
  Listers = {b}
  Joiner = a
  MaxUThreads = 1
  NoThread = NoThread
SPECIFICATION Spec
INVARIANTS
  TerminatesAlone
CHECK_DEADLOCK FALSE
