SPECIFICATION Spec
CONSTANTS
  Parts = {"tree"}
  None = None
  NumKeys = 2
  NumLevels = 4
  LevelFactor = 2
  L0Trigger = 2
  L1Trigger = 1
  Scenarios <- MCSplit
  a = a
  b = b
  BulkKeys = {a, b}
  Dirs <- MCDirs
  Loaders = {l1, l2}
  Suggested = 4
  Careful = TRUE
  MaxLoads = 2
  MaxFailures = 1
  MaxWrites = 1
  GroupBits = 2
  NarrowBits = 5
  WideBits = 7
  EditLevels = 2
  Numbers = {4, 127}
  Sizes = {16}
  Offs <- MCOffs
  Names <- MCNames
  InternalKeys <- MCInternalKeys
  MaxFields = 2
  DbDirs = {d1}
  OtherDirs = {e1}
  DbFiles <- MCDbFiles
  TypeOf <- MCTypeOf
  MaxEnvCalls = 5
  MaxEnvErrors = 1
INVARIANTS ReadsAgree
CHECK_DEADLOCK FALSE
