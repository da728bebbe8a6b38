CONSTANTS
  Signallers = {Self}
  Windows = FALSE
  Self = Self
  Null = Null
  Readers = {a, b, c}
  Fds = {8, 9}
  Reuse = FALSE
SPECIFICATION IOSpec
INVARIANTS
  LookupsEnd
