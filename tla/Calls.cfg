SPECIFICATION Spec
CONSTANTS
  Parts = {"write", "rpc"}
  w1 = w1  w2 = w2  w3 = w3
  Writers = {w1, w2, w3}
  None = None
  Wals = {TRUE}
  MaxUpdates = 2
  MaxSyncs = 1
  MaxCrashes = 0
  BufferSize = 1
  IOFaults = TRUE
  ReplayFaults = {}
  t1 = t1
  t2 = t2
  Threads <- MCThreads
  Workers = {k1, k2}
  Clients = {c1, c2}
  Modes = {"udp", "pool", "tcp"}
  MaxCalls = 2
  MaxDups = 1
  MaxPauses = 1
  Callers = {c1, c2}
  Loops = {0, 1}
  Targets = {s}
  MaxRequests = 2
  Errors = TRUE
  Engines = {"socket", "mercury"}
CHECK_DEADLOCK FALSE
INVARIANTS ServerSound CallbacksInTime
PROPERTIES ServerSettles  WritersReturn
