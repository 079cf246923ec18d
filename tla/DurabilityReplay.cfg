SPECIFICATION Spec
CONSTANTS
  Parts = {"write"}
  w1 = w1  w2 = w2
  Writers = {w1, w2}
  None = None
  Wals = {TRUE}
  MaxUpdates = 1
  MaxSyncs = 1
  MaxCrashes = 1
  BufferSize = 0
  IOFaults = FALSE
  ReplayFaults = {"last", "earlier"}
  Tables = {t1, t2}
  Descriptor = m
  Target = c
  TableSize = 2
  MaxFaults = 1
  Clients = {c1, c2}
  MaxEdits = 3
  Locked = TRUE
SYMMETRY MCSymmetry
CHECK_DEADLOCK FALSE
PROPERTIES FailedReplayFailsOpen
