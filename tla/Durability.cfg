SPECIFICATION Spec
CONSTANTS
  Parts = {"write", "files", "follow"}
  w1 = w1  w2 = w2
  Writers = {w1, w2}
  None = None
  Wals = {TRUE, FALSE}
  MaxUpdates = 2
  MaxSyncs = 1
  MaxCrashes = 2
  BufferSize = 0
  IOFaults = TRUE
  ReplayFaults = {"last", "ignored", "behind"}
  Tables = {t1, t2}
  Descriptor = m
  Target = c
  TableSize = 2
  MaxFaults = 1
  Clients = {c1, c2}
  MaxEdits = 3
  Locked = TRUE
SYMMETRY MCSymmetry
CHECK_DEADLOCK FALSE
INVARIANTS WritesSurvive ReadersSound FilesSurvive 
PROPERTIES ImplementsDurableWrites
