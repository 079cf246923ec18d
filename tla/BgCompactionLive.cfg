CONSTANTS
  Clients = {c1, c2}
  Bg = Bg
  None = None
  Workloads = {{"write", "freeze", "close"}, {"compact", "bulk", "drain", "flush"}}
  MaxCalls = 3
  MaxManual = 1
  MaxTables = 1
  Trigger = 1
  SoftLimit = 1
  HardLimit = 1
  NoMemtables = {TRUE, FALSE}
  NoCompactions = {TRUE, FALSE}
  IOFaults = TRUE
SPECIFICATION FairSpec
PROPERTIES
  CallsReturn
  MemTableDumped
