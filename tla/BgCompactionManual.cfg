CONSTANTS
  Clients = {c1, c2}
  Bg = Bg
  None = None
  Workloads = {{"write", "flush", "flushl0", "compact", "bulk", "addl0", "drain",
                "freeze", "get", "close"}}
  MaxCalls = 3
  MaxManual = 1
  MaxTables = 1
  Trigger = 1
  SoftLimit = 1
  HardLimit = 2
  NoMemtables = {FALSE}
  NoCompactions = {FALSE}
  IOFaults = TRUE
SPECIFICATION Spec
SYMMETRY ClientSymmetry
INVARIANT
  ManualStillRegistered
