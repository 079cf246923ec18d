SPECIFICATION Spec
CONSTANTS
  Parts = {"mem", "table", "iter", "fsdb"}
  None = None
  Layouts <- MCLayouts
  UserKeys = {1, 2}
  MaxSeq = 3
  MaxHeight = 2
  MaxBatch = 2
  Null = Null
  Unset = Unset
  Nought = Nought
  SstUserKeys <- MCUserKeys
  Probes <- MCProbes
  MaxLetter = 3
  SstMaxSeq = 2
  TopSeq = 3
  HashOfKey <- MCHashOfKey
  HashBits = 4
  RotateBits = 2
  TableOptions <- MCTableOptions
  BlockLimit = 12
  RestartEvery = 2
  Trailer = 1
  FilterBase = 10
  ByteBits = 2
  MinFilterBits = 4
  IoBudgets = {0, 2, 4, 7, 10, 13, 40}
  MaxEntries = 4
  MaxDamage = 1
  Nil = Nil
  Builds = {"tablefs", "indexfs", "deltafs", "deltafs_proto"}
  DirIds <- MCDirIds
  FileNames <- MCNames
  FileStats <- MCStats
  NameHash <- MCHash
  Junk = {0, 1}
  Users = {u1, u2}
  Readers = {u1}
  InoBits = 3
  TypeBits = 3
  VarintBase = 4
  ScanIn = {"tablefs", "deltafs_proto"}
  MaxOps = 3
  MaxDbErrors = 1
INVARIANTS MemTableExact SstExact IteratorsExact FsdbExact
CHECK_DEADLOCK FALSE
