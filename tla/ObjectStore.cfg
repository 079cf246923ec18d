SPECIFICATION Spec
CONSTANTS
  Parts = {"ofs", "rados"}
  Sets = {"s", "t"}
  Paths <- MCPaths
  Clients <- MCClients
  Sync = TRUE
  SyncOnClose = TRUE
  DeferredGC = TRUE
  Gone = Gone
  Conns = {c1}
  Osds = {o1}
  Objs = {n1, n2}
  Handles = {f1, f2}
  Careful = TRUE
  IoSize = 2
  BufferSizes = {0, 2}
  MaxAppends = 2
  MaxIoErrors = 1
INVARIANTS OfsExact RadosExact
 
SYMMETRY MCSymmetry
CHECK_DEADLOCK FALSE
