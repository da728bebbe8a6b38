CONSTANTS
  Signallers = {Self, s}
  Windows = FALSE
  Self = Self
  Null = Null
  Readers = {a, b}
  Fds = {4, 5}
  Reuse = FALSE
SPECIFICATION IOFairSpec
INVARIANTS
  TypeOK
  FlagIsBacked
  NoLostSignal
  TableIsExact
  NoSleepOnReady
PROPERTIES
  AnswersToken
  WorkIsFound
  DataIsNoticed
  
