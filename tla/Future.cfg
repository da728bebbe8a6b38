CONSTANTS
  Clients = {a, b, c}
  Worker = w
  NoOne = NoOne
  Kinds = {"stack", "spawned", "posted"}
SPECIFICATION FairSpec
INVARIANTS
  TypeOK
  NoUseAfterDestroy
  ResultIsComplete
PROPERTIES
  OneResult
  WaitersReturn
  AbandonedIsDestroyed
CHECK_DEADLOCK FALSE
