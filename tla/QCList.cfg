SPECIFICATION Spec
CONSTANTS
  k1 = k1
  k4 = k4
  a4 = a4
  k2 = k2
  k3 = k3
  v1 = v1
  v2 = v2
  a1 = a1
  a2 = a2
  a3 = a3
  None = None
  Nil = Nil
  Keys <- MCKeys
  Vals <- MCVals
  Addrs <- MCAddrs
  MaxSize = 3
  TTL = 1
  CleanupInterval = 1
  MaxCleaners = 2
SYMMETRY MCSymmetry
INVARIANTS
  TypeOK
  ListMatchesMap
PROPERTIES
  ImplementsLRUCache
