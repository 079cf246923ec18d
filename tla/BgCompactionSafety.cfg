CONSTANTS
  Clients = {c1, c2, c3}
  Bg = Bg
  None = None
  Workloads = {{"write", "compact", "bulk", "addl0", "close"},
               {"flush", "flushl0", "addl0", "drain", "freeze", "get"},
               {"write", "compact", "freeze", "get"}}
  MaxCalls = 3
  MaxManual = 1
  MaxTables = 1
  Trigger = 1
  SoftLimit = 1
  HardLimit = 2
  NoMemtables = {TRUE, FALSE}
  NoCompactions = {TRUE, FALSE}
  IOFaults = TRUE
SPECIFICATION Spec
SYMMETRY ClientSymmetry
INVARIANTS
  PauseProtocol
  JobProtocol
  LogAndApplyExclusive
  NoFreshTableCollected
PROPERTY
  FreezeHolds
