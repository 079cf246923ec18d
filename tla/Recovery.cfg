SPECIFICATION Spec
CONSTANTS
  Parts = {"manifest", "log", "repair", "env"}
  None = None
  Scenarios <- MCScenarios
  ApplyFaults = {"open", "dump", "bulk", "compact", "move"}
  IOFaults = TRUE
  RetireFaults = FALSE
  TornWrites = FALSE
  BlockSize = 8
  HeaderSize = 3
  Lengths = {0, 1, 2, 7}
  MaxRecords = 3
  LogScenarios <- MCLogScenarios
  Damaged <- MCDamaged
  Garbage <- MCGarbage
  MaxKills = 2
  MaxFaults = 1
  Threads = {"a1", "a2", "b1"}
  ProcessOf <- MCProcessOf
  Openers = {o1, o2}
  MmapSlots = 1
  MaxOpens = 2
INVARIANTS RestartFindsAll LogExact  EnvExact
PROPERTIES CommitsAtomically TablesKept
CHECK_DEADLOCK FALSE
