SPECIFICATION Spec
CONSTANTS
  Parts = {"cache", "giga", "ect", "map"}
  Slots = {s1, s2, s3}
  Keys = {k1, k2, k3}
  Threads = {t1, t2}
  None = None
  Capacities = {0, 2}
  Charges = {1, 2}
  MaxRefs = 1
  MaxRadix = 3
  ByteBits = 2
  InitCapacity = 1
  Clients = {c1}
  Configs <- MCConfigs
  KeyBits = 4
  KeySets <- MCKeySets
  BlockBits = 3
  WordBits = 6
  EncodingLimit = 4
  ValueBits = 3
  BitsPerKeyBound = 2
  Steps = {0, 1}
  MaxBuckets = 10
  MapKeys = {"a", "b", "c", "d", "e"}
  HashVal <- MCHashVal
  MapValues = {1, 2}
  MinLength = 2
INVARIANTS CacheExact  TrieExact HashMapExact
PROPERTIES EvictsOldest
CHECK_DEADLOCK FALSE
SYMMETRY ThreadSymmetry
